# A TLA+ development of the Gazprea compiler

Gazprea is a small typed language with vectors, matrices, tuples, streams,
functions (pure) and procedures (with effects).  The program in `src/` compiles
it: an ANTLR grammar, a C++ compiler that walks a shared, mutable tree thirty
times and emits MLIR, and a C runtime linked into the result.  This directory
models the parts of it whose correctness depends on several passes, or a pass
and the emitted code, agreeing with each other.

## 1. Inventory

### 1.1 The pipeline

`src/src/main.cpp:54-219` runs everything in one thread, in one fixed order.
Each pass is an `ASTWalker`; passes talk to each other only through the tree
(`include/AST.h`), which they edit in place, and through the symbol table, whose
scopes and symbols hang off the nodes.  A pass rejects the program by throwing;
`main` catches twelve exception classes, prints and returns 1.

| # | Pass | Reads | Writes / rejects |
|---|------|-------|------------------|
| 1 | `ASTBuilder` | parse tree | the tree; appends a `return` to procedures without return type |
| 2 | `ValidExprErrorWalker` | expressions | rejects misplaced expressions |
| 3 | `MainErrorWalker` | definitions | exactly one suitable `main` |
| 4 | `DefinitionErrorWalker` | prototypes, definitions | duplicate and mismatching definitions |
| 5-7 | `GlobalError`, `GlobalStatementError`, `TypeDefStatementError` | global block | what may stand at global scope |
| 8 | `BreakContinueStatementErrorWalker` | blocks | `break`/`continue` outside a loop |
| 9-16 | control expressions, stream statements, parameter names, calls, declarations, tuples, procedure calls, argument counts | statements | rejects |
| 17 | `AddFreeNodesWalker` | blocks | adds `FreeNode`s to blocks and returns |
| 18 | `DefineSymbols` | everything | scopes, symbols, and the symbol of every `IdNode` |
| 19-20 | `ConstAssignErrorWalker`, `AliasingErrorWalker` | symbols | assignments to constants, aliased arguments |
| 21 | `ControlFlowReturnErrorWalker` | blocks | missing returns; prunes after a guaranteed return; `CondNode::is_terminal` |
| 22 | `BreakContinuePruneWalker` | blocks | prunes after `break`/`continue` |
| 23 | `TypeInferWalker` | expressions, symbols | the type of every expression |
| 24-28 | constant folding, sizes, tuple accesses, operand types, argument mutability | types | folds, rejects |
| 29 | `ScopeToFreeWalker` | scopes, `FreeNode`s | which scope each `FreeNode` frees, which symbols a scope frees |
| 30 | `CodeGenASTWalker` | the final tree | MLIR blocks and operations, then LLVM |

### 1.2 Components, their state and their operations

* **The tree** (`include/AST.h`).  Blocks own vectors of statements, which later
  passes shorten; conditionals carry `is_terminal`, blocks and returns carry a
  `FreeNode`, every node the scope it was seen in.  It is the only channel
  between passes, and nothing in it says which pass has run.  Correct when what a
  pass writes is still true when another reads it, after any pruning in between.
* **`ASTBuilder`** turns the parse tree into it.  State: none that survives a
  visit.  It adds the return of a procedure without one, a block around the
  statement of a conditional or loop that has none, an expression body's return.
* **Control-flow passes** (`BreakContinueStatementErrorWalker`,
  `ControlFlowReturnErrorWalker`, `BreakContinuePruneWalker`).  State: a loop
  depth; the results of the visits; the vectors they prune while they iterate
  over them.  Correct when every accepted function returns, everything pruned is
  unreachable and `is_terminal` is true only of conditionals nobody passes.
* **Release of vectors** (`AddFreeNodesWalker`, `ScopeToFreeWalker`, and
  `CodeGenASTWalker`'s `visitFreeNode`, `visitReturnNode`, `visitIterLoopNode`).
  State: the scope a `FreeNode` is to release, the list of symbols of each scope,
  the list of `main`'s, `in_nested_scope`, the stack of loop domains.  Correct
  when on every execution each vector is released at most once, only after it was
  made, and before its storage goes out of reach.
* **Symbol table and `DefineSymbols`**.  State: scopes linked by `enclosingScope`,
  `currentScope`, the symbols, `domain_variable`, the prototype flag of subroutine
  symbols.  Operations: push, pop, define, resolve, and the visits.  Correct when
  the walk is always in the scope of the innermost construct, and when a name that
  a later pass looks up again in the noted scope means what it meant here.
* **Subroutine checks** (`DefinitionError`, `MainError`, `CallFuncCall`,
  `ProcReturnCall`, `FuncProcCallWithSameNumberOfParams`, `...ContainsParamIDs`):
  each keeps a map from names to facts about prototypes and definitions, keyed
  without scopes, filled in program order.
* **Constants, aliasing, mutability** (`ConstAssign`, `Aliasing`,
  `ArgumentMutability`): for each call, which objects were given and for which
  parameters.
* **Types** (`TypeInfer`, `BinaryOpTypeError`, `TupleAccess`, `TupleAssign`,
  `SizeError`, `ControlExpressions`, `ValidExpr`, `ConstantFolding`): types on
  nodes and symbols, computed three times over by different passes.
* **Code generation, control flow** (`CodeGenASTWalker`, `BackEnd`).  State: the
  builder's insertion point, the blocks and their terminators, the stack of
  (header, continue) blocks of loops, `last_inner_continue_block`, the saved stack
  pointers.  Correct when every block ends in one terminator, the graph runs the
  statements the structured program runs, and each turn of a loop restores the
  stack.
* **Code generation, expressions** (`CodeGenASTWalker`, `EmitBinaryOps`,
  `EmitVectors`, `EmitTuple`, `EmitFunctions`).  State of the compiled program:
  the heap, what its variables and temporaries point to.  Operations allocate their
  results and free the operands they consume.  Correct when every vector has one
  owner that frees it, and the checks guard the accesses behind them.
* **Streams and runtime** (`StreamFunctions.cpp`, `runtime/src`).  State of the
  compiled program: a 512-byte buffer, a pointer into it, its length, the stream
  state.  Correct when reads take the input from left to right and stay in the
  buffer.  Checks of indexes, sizes and divisors end the program.
* **`main.cpp`**: the order of all this, and which exceptions end it with a
  message.

### 1.3 What is hard

Nothing here is concurrent, no message is lost and nothing survives a crash.  What
is hard is *protocols between passes*: some thirty walkers edit one tree in a
fixed order, each assuming what an earlier one left, and the emitted program runs
long after.  Three kinds of behaviour are out of reach of the repository's tests,
which compile some four hundred programs and compare their output:

* facts that were computed early and are used late (`is_terminal`, noted scopes,
  lists of symbols to release), with passes in between that prune the tree;
* combinations of nested loops, conditionals, breaks, continues and returns, in
  which flags (`in_nested_scope`), single variables (`last_inner_continue_block`,
  `domain_variable`) and one-level stacks stand for what may be nested;
* executions of the compiled program, of which a test takes one.

`PROJECT.json` lists the hazards with their lines and the properties that would
catch them; those that nothing covers yet say where the plan does.

## 2. The modules

```
 GazpreaAST             trees of statements, frames, kinds of statements
  |- ASTBuilder           one action per statement read: every tree up to bounds
  |- Execution            where an execution of a body goes next
  |- PassFunctions        each pass as a function from trees to trees
  |    '- Paths             which leaf may be executed after which
  |         '- StructuredProgram   what a subroutine promises (abstract)
  |- Operations           what is emitted: operations, MLIR blocks, the clean-up
  |- PassLemmas           lemmas about trees, stacks, the functions of PassFunctions,
  |                       the operations of a block and the paths through a tree
  |- ControlFlow          ASTBuilder + Execution: three walks, visit by visit
  |    '- PassAgreement     (+ PassFunctions) the walks compute the functions
  |         '- ControlFlowProofs (+ PassLemmas)
  |- Lifetime             ASTBuilder + Execution + PassFunctions: who frees what
  |    '- LifetimeProofs    (+ PassLemmas)
  '- CodeGenCFG           ASTBuilder + PassFunctions + Paths + Operations: the blocks
       |                  that are emitted, their execution; implements StructuredProgram
       '- CodeGenCFGProofs  (+ PassLemmas)
 SymbolTable            DefineSymbols
  '- SymbolTableProofs
 Subroutines            prototypes, definitions and calls in ten passes
  '- SubroutinesProofs
 Scalars                base types, promotion, operations on scalars
  |- VectorMemory         what each function of the back end does to the heap
  |    '- VectorCode        the expressions and statements of one subroutine
  |         '- VectorCodeProofs
  '- Types                inference, checks and emission of the types
 InputStream            what a program expects of its input (abstract)
  '- InStream             the buffer, its pointer and length, the refills
       '- InStreamProofs
 MC*                    instances for TLC: MCControlFlow (of PassAgreement),
                        MCLifetime, MCCodeGenCFG, MCSymbolTable, MCSubroutines,
                        MCVectorCode, MCTypes, MCInStream
```

A tree is a function from blocks to sequences of statements; block 1 is the body.
A statement has its kind, the one or two blocks it owns (`body`, `alt`) and, when
it is a release or a return, the scope its `FreeNode` names.  Expressions are left
out of trees: conditions are not evaluated, so each test may come out either way.
What an expression reads and calls matters to `SymbolTable` only, and is there.

### 2.1 ControlFlow

`ASTBuilder`'s actions build any tree up to the bounds, then passes 8, 21 and 22 of
the table walk it.  A walk is the C++ call stack of `visitBlockNode`: a frame per
block, whose `pc` is the loop index; an action is one turn of that loop, the start
of a visit, or its end.  `returns` is what the return check's visits gave back,
`is_terminal` the conditionals it marked, `stat_nodes` what pruning has left while
`source` stays what was built.

After the last pass an execution of `source`, not of the pruned tree, starts at
the body.  It is what the verdicts of the passes are judged by: it must not run off
the end (`NoFallOff`), not reach what was pruned (`PrunedIsUnreachable`), not get
past a conditional marked terminal (`TerminalCondNeverPassed`) and find every break
in a loop (`BreakHasTarget`).

`PassFunctions` has the same three passes, and those about declarations and
releases, as recursive functions on trees.  `WalksComputeFunctions` says that the
walks, which iterate over vectors they shorten, compute those functions; so the two
modules below can apply a pass in one step.

### 2.2 Lifetime

A tree is built, the passes are applied in `main.cpp`'s order (break check,
declaration check, `AddFreeNodes`, `DefineSymbols`' visit of the free nodes, return
check, break pruning, `ScopeToFree`, code generation), and the tree they leave is
executed.  `live` has the variables, loop domains and by-value parameters
that are allocated, `wild` what was released without being allocated.
A declaration allocates, entering an iterator loop copies its domain, a `FreeNode`
releases `symbols_to_free` of the scope it names, a return that and the domains of
all loops around it, and the block behind a loop the loop's domain.  All values
are taken to need releasing, as vectors do.

`DeclText` restricts the program text: `"anywhere"`, `"first"` (declarations come
first in their blocks, which is the language's rule) or `"sound"` (and `main` has
none in if-parts and nested blocks).  The passing run has `"sound"`; the theorems
about `NoWildFree` and `CodeGenNeverThrows` say which restriction each needs.  `ReturnReleases` says exactly what a return does: it releases the body's variables, the
parameter and the domains, and leaves what nested blocks around it have declared, against
two comments of the code (finding 1).  Without these
restrictions three more definitions of the module fail, on which no run is spent:

* `DeclarationsAreFirst`: `DeclStatementErrorWalker.cpp:20` lets declarations follow
  a loop, conditional or block, which the comment above it denies; a release before
  such a declaration then reads a value that is not there, and the code generator
  throws;
* `InnerDeclsStayLocal`: `ScopeToFreeWalker.cpp:20` puts the declarations of if-parts
  and nested blocks of `main` on the list that every return of `main` releases;
* `ReturnsCanFree`: a return behind a break gets no `FreeNode`
  (`DefineSymbols.cpp:575`), which is dereferenced before the pruning that would
  remove the return.

### 2.3 CodeGenCFG

The visits of `CodeGenASTWalker` for blocks, loops, conditionals, breaks,
continues and returns emit operations into blocks through the `BackEnd`: its
insertion point (a block and how many operations follow), `nested_blocks_stack` and
`last_inner_continue_block`, with the tests of terminators and the erasures of
branches in the order the code has them.  What a block holds is an operation of a
statement, a save or restore of the stack pointer, or a terminator.  The tree is
one that passes 8, 17, 21 and 22 have accepted and rewritten; `is_terminal` holds the
conditionals that pass 21 has marked, whatever pass 22 then leaves of them.

When the body's visit has ended and the blocks verify, they are executed.
`ImplementsProgram` is the refinement: `StructuredProgram`, instantiated with
`tree <- stat_nodes`, steps from each statement to one that may come next, and each
operation executed is such a step or a stutter.  `SamePaths` is the converse: from
each statement the blocks offer all successors the tree has, so no path was lost.
Both are about the pruned tree; that pruning loses nothing is ControlFlow's.

`Text` restricts the program text as `DeclText` does: `"any"`,
`"no_nested_exits"` (no break or continue directly in a nested block) or
`"separate"` (and statements that emit one operation stand apart).  Those are predicated
loops and, in procedures, returns of nothing that have nothing to release: except in the
body of the subroutine they must come first in the body of a loop or of a conditional, or
stand behind a statement without blocks.
Two predicated loops in a row in a conditional leave a block with two branches, which
the repair at `CodeGenASTWalker.cpp:1466` does not look for; a bare return behind a loop
or conditional in a then-block whose else-block has a loop leaves a return and a
branch, since loops repair only blocks of more than two operations.  The second
was found by the proof.
`Releases` says whether a `FreeNode` emits operations, since a branch that looks
like the only operation of a block is what the repairs depend on.

`StackBalanced` says that saves and restores alternate and that each operation of a
statement is executed with the stack pointers of exactly the loops around it saved: what
statements allocate in a turn is gone when the next one begins.  It is not said of the
condition of a predicated loop, which is evaluated in the control block before the save
(`CodeGenASTWalker.cpp:1444`, `:1451`): the headers of the vectors it reads
(`EmitVectors.cpp:57`) stay on the stack with every turn, until a turn of the loop around
it, or the subroutine, ends.

### 2.4 SymbolTable

Here the program is not built beforehand: when the walk comes to a place where a
node may stand, an action visits one.  The visits are those of `DefineSymbols` that
push, pop, define or look up.  A scope has its pointer `enclosing`, the set `chain`
of scopes that following it reaches, and its names; `Resolve` finds the innermost
scope of that set with the name.  A lookup that a later pass repeats is
recorded with the scope the node notes and the symbol it stood for: an `IdNode`
notes the scope of its symbol, an assignment or a call the one it stands in.  The
properties compare, in every state, what `resolve` (for calls, `resolveProcFunc`)
gives then.

`DeclRule` says where declarations stand.  With `"accepted"`, what
`DeclStatementErrorWalker` really lets through, a variable can be declared in a
block after an assignment to an outer variable of that name, which is thereby
redirected: `OuterLookupsAgree` needs `"first"`.  `ScopesNest`, `OwnLookupsAgree`
and `CallsAgree` do not, and are proved without it.

Calls are special: in `integer f = f(1);` the code generator's `resolveProcFunc`
passes over the variable and finds the subroutine, while `TypeInferWalker.cpp:985`
and `BinaryOpTypeErrorWalker.cpp:669` ask `resolve` and find the variable.
`CallsAgree` states the former; `resolve` in its place is its mutant.

### 2.5 VectorCode

The code emitted for one subroutine's expressions and statements, as it runs.
`VectorMemory` has an operator for each function of the back end: it takes a heap
and operands and gives the heap, the result and how it ended, which may be an error
of the runtime (`IndexError`, `SizeError`, `MathError`) or something C leaves
undefined (`out_of_bounds`, `use_after_free`, `double_free`, `overflow`), after which
nothing is said.  In `VectorCode` visiting a node pops the operands its children
pushed and pushes its result; a statement takes what its expression left.  The
sequence of nodes is free, so every expression and every straight-line program comes
up; branches change nothing here, since the releases at their ends are `Lifetime`'s.
`store` has what each variable points to, `frame` the structs of tuples, whose
address is the value of a tuple.  After a step memory nobody points to leaves the heap,
with `lost` saying whether that was without being freed, and what is left moves to the
first addresses in their order (`Settle`), so that the bound on blocks bounds what is
in use at once and not what was ever allocated.  No property compares an address
before a step with one after it, but through a variable or an operand that has it.

Ownership is the question.  A vector variable owns its vector: loading it copies,
and what an operation frees is such a copy (`VariablesOwnTheirVectors`,
`ExpressionsHaveNoEffect`, `ReturnsItsOwnCopy`).  Tuples break the discipline, and
the action properties say where exactly: vectors are freed under their owner only
when a tuple is compared, unpacked, given to a procedure or returned
(`OnlyFieldsAreFreedInUse`), and freed memory is used only after that or after a
tuple was copied (`WildOnlyThroughTuples`).  `OnlyTheseLeak` and
`OutOfBoundsFromThese` do the same for leaks and for accesses outside a vector.
`OnlyTheseLeak` names a comparison of tuples whose fields differ in type: the code
answers false at once (`EmitBinaryOps.cpp:268`) and frees neither.  The bounds
of the run keep that case from coming up; the proof, which has none, found it.

Calls are their effect on what the caller holds: a function gets all that waits and
frees nothing, a procedure frees its constant parameters, a reference may be given
new elements.  The vector a call returns has its header in a frame that is gone;
whether it is intact when it is used (`dead_frame`) is decided at the call.  Sizes
of declared types are constants, 20 characters of a formatted number are `MaxSize`,
and an element is a small integer whatever its base.

### 2.6 Types

Inference, the type checks and the emission of expressions run one after the other
over the statements of a body, each computing the types anew with its own tables.
What makes this more than tables is that `Type` objects are shared: a name returns
the object of its symbol, a call that of the function, and `setBaseType` promotes the
object it is handed.  `types` maps objects to what they hold, `symtype` and `node`
say who holds which.  `Operations`, `checkExpr` and `emitExpr` return a type or how
the pass ends there: rejected, by an exception `main` does not catch, by a null
pointer or with ill-typed code.

`VerdictAsDeclared` says that no statement changes what another one means,
`AcceptedCompiles` that what the checks take can be emitted, `EmittedAsInferred` that
it is emitted with the type it was inferred with; the first for programs in which no
variable was widened (finding 4), the second but for a list of kinds of statement
that its comment names.  One of them ends in inference: `ReverseCallNode` declares a member
`type` (`AST.h:467`) that hides the node's, which stays null, so that `T[n] w = reverse(v)` and
`var w = reverse(v)` dereference null (`TypeInferWalker.cpp:532`); only `T[*]`, whose size is
not written down and which the tests have, goes another way.  `TypesOnlyWiden` says how far the sharing can go.

The text is a body of one function that may call itself, without tuples, matrices and
sizes; reverse, length and indexes are of vectors, which earlier passes see to; an
operation of two literals is folded before and is left out.

### 2.7 InStream

`InputStream` is what a program expects: a text of which each read takes the longest
value of its type at the front, or fails and takes nothing (the last is taken from the
code, and one test's comment is against it, see section 6).  `InStream` is the code
`inStream` emits for a read: fill the buffer when its length is zero, `sscanf` at the
pointer, refill character by character up to 512 and try again, then move the
pointer and the length.  `scanf` and `sscanf` are external and modelled by what
they do with the five formats of `BackEnd.cpp`; characters are five kinds (digit,
space, dot, T or F, other), signs and exponents are left out.  The array is one byte
longer than the buffer, for its terminator, and leaving it ends the behaviour in
`"overrun"`.  `Garbage` is what a fresh `malloc` may hold, which is where the length
comes from at the end of the input.

`ReadsTheStream` is the refinement, with `unread` the input behind what successful
reads have taken, and with the cases in which the code departs from it as further
disjuncts: a value that reaches beyond the array, characters behind the end of the
input, which are the array's spaces (and then a value that filled the buffer is read
again), and a buffer that was filled twice.  The pointer only moves forward and
nothing moves what is unread back to the front, so that only the first 512 bytes of
an input can be read in peace.

### 2.8 Subroutines

What passes 3, 4, 9 and 10, 12, 15, 16, 18, 20, 23 to 28 and 30 of the table make of
the calls of a program.  A program is the sequence of its headers (prototypes and
definitions) and calls in the order of the text; a call belongs to the last definition
before it and has a `place`, which is what decides whether a walk comes to it: a
statement, an assignment or a declaration (as the whole, as one operand, as both, under a
unary operator), a returned value, a condition, an output, or anything else.  A
subroutine is a function or not, has the qualifiers of its parameters and the type
of its result.  An argument is a variable, an element of a tuple, or neither.

Headers are judged as they are read (`MainAccepted`, `DefinitionVerdict`), calls by
one action per pass, in the order of `main.cpp`: it goes on when each call may, or ends
with the first call that does not, `"rejected"` or, where the code dereferences
null, `"crashed"`.  A read behind the end of a vector may come out either way
(`Undefined`).  That the passes keep separate maps is what matters, and what they see of a
subroutine differs:

* `ControlExpressionsWalker` knows it once the body has been visited (`Visited`), so
  that a recursive call passes for a boolean;
* `CallFuncCallErrorWalker` knows functions only, from any header before the call;
* `ProcReturnCallErrorWalker` keeps the first header's result, and does not enter
  functions;
* `FuncProcCallWithSameNumberOfParamsWalker` keeps the last header's count, and does
  not come to returned values, conditions, outputs and unary operators;
* from `DefineSymbols` on there is one symbol, which the definition has overwritten
  (`Callee`), also for calls that stood before it.

`LegalIsAccepted` says that no rule of the language is enforced too strictly by any of
these views (one is enforced too laxly: that a procedure is no operand, see section 6), `CallsFit` that together they are strict enough for `emitFuncProcCall`,
which takes as many arguments as the definition has parameters.  The gaps are conditions
in the property: a call where nobody counts, and a prototype with another number of
parameters than its definition, which `DefinitionErrorWalker` does not compare.
`VarArgumentsAreExclusive` is about call statements, the only ones whose arguments
are looked at; its gaps are an object given to a const parameter before it is given to
a var one, and a whole tuple behind its element.

## 3. The runs

| Run | Question | Bounds |
|-----|----------|--------|
| `control_flow` | are the verdicts and prunings of the three walks right for every execution, do the walks compute the functions, and do they end? | 4 blocks, 4 statements; break, continue, return; conditionals, nested blocks, loops of three kinds; with and without return type; fair |
| `lifetime` | is anything released twice or before it is made; do loop turns, blocks and returns release theirs? | 3 blocks, 5 statements; infinite and iterator loops; function, procedure, `main`; `DeclText = "sound"` |
| `codegen_cfg` | do the blocks verify, do they execute paths of the tree and all of them, and is the stack balanced? | 4 blocks, 4 statements; infinite, predicated and iterator loops; break, continue, return; `Releases`, `Text = "separate"` |
| `symbols` | does the walk stay in the right scope and does each name keep its meaning? | 2 names (symmetric), 1 parameter, 6 scopes, 4 nodes; `DeclRule = "first"` |
| `subroutines` | is every program that obeys the rules accepted, and does what is emitted suit the definition it calls? | `main` and one more name, 4 headers and calls, 1 of them a call; 2 parameters; 3 variables (a var tuple, a var, a const) |
| `vector_code` | who owns a vector, who frees it, what leaks, what leaves its bounds? | 2 variables (symmetric), 2 blocks and 2 structs pointed to, vectors up to 2 elements of values 0 and 1, 2 waiting operands; words of 4 bits |
| `types` | are the programs that are accepted those of the types as written, and do they compile as inferred? | 3 statements, 1 operator in them; integer and boolean literals; six types of declarations; four operations |
| `instream` | does each read take what the input has next, inside the buffer, and does it end? | a buffer of 3, inputs up to 5 characters, reads without bound; fair |
| `break_leaks_inner_block` | violation: finding 1 | 3 blocks, 5 statements, `"first"` |
| `exit_in_nested_block` | violation: finding 2 | 3 blocks, 4 statements, `Text = "any"` |
| `returned_tuple` | violation: finding 3 | vectors of one element |
| `promotes_the_expression` | violation: finding 4 | 2 statements, the full set of operations |

**Why these bounds.**  Each construct keeps state about the innermost loop or block
and about the one around it, so the interesting trees are a conditional with two
branches in a loop, a loop in a branch, a loop in a loop with an exit of the inner
one followed by one of the outer: body and three more blocks.  Four or five
statements fill them with an exit and something behind it.  Every defect found
appears with at most
four blocks.  `MaxBlocks` and `MaxStats` bound only the text; executions are not
bounded, since positions repeat.  Where a loop's kind makes no difference to a pass
(the three walks treat all four alike, and may skip one or not in an execution; an
iterator loop and a predicated one are the same to `ControlFlow`),
the run has the least restrictive ones.  In `symbols`, 2 names are what a confusion
takes; 6 scopes hold a prototype, its definition's body, a loop with its body and a
nested block; 4 nodes are a declaration, a use, a scope and a shadowing one.  For
`ControlFlow`, `Lifetime`, `SymbolTable`, `InStream` and `Subroutines`, and for the
blocks that `CodeGenCFG` emits, their stack pointers and the refinement, the proofs
remove these bounds.

In `vector_code` two variables alias or do not; two operands are what an operation
takes, deeper expressions go through the same steps one pair at a time; sizes 0, 1
and 2 are the boundaries of every check, scalars are -1, 0 and 1, so that an index is outside on either side, the upper one (which
the checks let pass) in vectors of no or one element.  The theorem removes the bound.
Steps that would exceed a bound are not taken; a step that ends the program always
is.  In `types` a second statement changes what a first one shares and a third sees
it.  In `subroutines` one call is enough, since calls do not change what a pass knows;
it may have a prototype and a definition before it, behind it or around it, and `main`
must be there.  Two parameters are what aliasing takes.  In `instream` a buffer of three holds a value, a space and a value, or a value
cut at its end; inputs two characters longer have a second fill; `MaxBelow` stops
reads at the end of the input from counting the length down for ever.

**Deadlock** is checked in all runs but those of `InStream`, where a behaviour ends
in an overrun or at `MaxBelow`, and `Types`, where it ends with the compilation.  In
the others a behaviour that is over (rejected, crashed, generated, returned) stutters in the
action `Done` or `Exited`.

**Fairness.**  `control_flow` has weak fairness of the
compiler's own steps.  The compiler is one thread with no waiting, so whenever a
step is possible it takes one.  Reading the text is a step of it too, and a text is
finite, which `MaxStats` stands for.  `instream` has weak fairness of the steps of a
read that has started, which no other code can hold up; that standard input answers
is in the model, since an input is a text that is there from the start.  Otherwise
compiled programs get no fairness: Gazprea programs may loop for ever, and no property
says otherwise.

**Mutants.**  Every property of a passing run has a mutation of a modelled
definition that breaks it: a dropped test for null, a loop treated as returning, a
break that jumps past a release, a `pop_scope` forgotten, a branch that is not erased.
They stand beside the definitions they change, marked `Mutant:`, and are listed in
`PROJECT.json`; no specification uses them.

## 4. What is proved

For every value of the constants that satisfies the named assumptions
(`MaxBlocksAssumption`, `ASTBuilderAssumption`; `LifetimeAssumption`;
`SymbolTableAssumption`; `InStreamAssumption`; `SubroutinesAssumption`;
`VectorMemoryAssumption`, `VectorCodeAssumption`).

**ControlFlowProofs.**  `TypeCorrect`, `AcceptedNeverFallsOff`, `PruningIsSound`,
`TerminalCondIsTerminal`, `NoBreakOutsideLoop` and `PassesShorten`, from the theorem
`Invariance` of `IInv`.  None of them is inductive: whether an execution falls
off depends on what the return check concluded from blocks it visited before.
`IInv` adds to the types

* `WalkInv`: the walk starts at the body and is over when its stack is empty;
* `BreakInv`: blocks the break check has left, and statements it has passed, let no
  break out unless they are loops;
* `PruneInv`: every block is a beginning of what was written, and one that
  was shortened or that `returns` marks ends in a statement that *stops*, an exit
  or a guaranteed return;
* `RunInv`: an execution's frames are nested as the blocks are, and behind none of
  them lies a statement that stops.

The step that matters is that an execution which leaves a block by its end has
passed its last statement, so that `returns` of the block is false, so that the
conditional or nested block around it is no guaranteed return: `RunInv` is kept, and
the properties follow from it and `PruneInv`.

`WalksAgree` proves `WalksComputeFunctions`, on which `Lifetime` and `CodeGenCFG` rest
when they apply a pass in one step.  `AgreeInv` relates each walk half-way to the
function it computes.  For the two pruning walks it is `WalkOf`, the same for both: a
walk that cuts each block where given statements stand has left a set `V` of blocks,
each cut and with all that is below it in `V`, is inside the blocks of its stack, each
below the one before, and has touched no others.  When it leaves the body `V` is all
that it reaches: a block it had not left would have a least one among its like, which
some block it has left owns.  The return check cuts where its own verdicts say, so
`ReturnAgrees` adds that `returns` is `Returning` on `V`.  The break check cuts nothing:
`BreakAgrees` says that a loose exit of a block it is in is one of the body.  That the
check is not too lax follows from `BreakInv`, for which blocks must own later ones
(`ParentsFirst`): this is what `ASTBuilder` makes of the text (`BuildKeepsInv`), and
without it there would be blocks the recursive definitions say nothing of.

**LifetimeProofs.**  All five properties of the run, for every tree and every
execution.  `NoDomainIsLeft` and the half of `ReturnReleases` about what is released
(`ReturnsReleaseTheBody`) hold of every text; `BlocksAreReleased` under `MainIsSound` (no `main`, or one without declarations in
if-parts and nested blocks), `ReturnsRelease`, `NothingIsFreedTwice` and
`CodeGenSeesDeclarations` under `TextIsSound` (declarations come first, and `main` is as above).  These are
the hypotheses under which the code is right: what goes wrong without them is said in
2.2.  The invariant has two halves.

* `PassInv`, what is known of the tree after each pass.  `TreeInv`: no two
  statements own a block, and blocks own later ones (`Shape`); a release is the last
  statement of its block or stands before an exit (`FreesPlaced`); no exit is outside
  a loop.  `SealInv`: there is a set `Y` of blocks that no way out of avoids a
  release, and a set `R` of blocks that return: each block of `Y` ends with
  its release, unless it has an exit, which has a release before it, or ends in a
  statement that returns surely.  Each pruning keeps it although it removes
  releases: what it removes is behind an exit or a return, and the block's place
  in `Sealed` is taken by the other case.  `FreeInv`: `symbols_to_free`.
* `RunInv`, `WayInv`, `GoneInv` and `OwnInv`, of the execution.  Its frames are
  nested as the blocks are, with increasing numbers (`StackOK`); none has passed a
  statement that leaves its block (`NoStops`).  So who is at the end of a block has
  just executed its release, and who is at an exit the loop's (`Gone`), which empties
  the block (`GoneInv`).  `OwnInv` is the converse: up to that release all that
  was declared in the blocks around is allocated, so that a release finds what it
  frees.  `LoopOfTop` says that the loop whose scope a release notes at compile time
  is the innermost one that is running.

`PassFunctions` has recursive functions, for instance which blocks a walk reaches
or which loop is around a block.  What they compute for a tree does not need
induction over trees: the right-hand side is monotone, so by `FixedPoint` (the
union of all sets a monotone function expands) there is a function that satisfies the
equation, the `CHOOSE` of the definition takes one (`WalkedFromDef`, `ReturningDef`,
`LoopsDef`, `VisitedBeforeDef`), and what is needed of it follows from the equation,
at a least or greatest block number where a chain of blocks must end.

**CodeGenCFGProofs.**  `BlocksEndWell`: `BlocksEndInOneTerminator` for subroutines of any
size and nesting, under `Text = "separate"`.  A block that is being emitted may have
no terminator yet, or have a branch "in case", behind which nothing may be inserted,
or get a second one that is to be erased when some statement around ends.  So the
invariant, `WalkOK`, says of each block in which of these states it may be:

* `ChainOK`, `FramesOK`: the frames are nested as the blocks are, and the MLIR blocks that
  the statements around wait for are all different;
* `BlocksOK`: a block that is neither awaited nor the insertion point ends in its only
  terminator (`Ended`), unless it is `last_inner_continue_block` and has
  the doubled end that the next clean-up removes (`Twice`, `ClosedIn`);
* `NestedOK`: `nested_blocks_stack` has one entry for each frame that is in a loop or
  conditional, so that it is empty when `last_inner_continue_block` must be null;
* `Live` or `Dead`: before a terminating statement the operations in front of the
  insertion point have no terminator and what follows is at most the branch "in
  case"; after it the block is ended, and then nothing that emits is left in the
  statement's block.  `LiveRule` has what a clean-up relies on: where a statement of one
  operation may follow, that operation will not be the second of two.

`TreeFacts` is what this needs of the tree, `PassesLeaveTheFacts` derives it from the
functions of the passes: exits and sure returns are the last of their blocks, blocks
marked `is_terminal` return in both branches, and the text's rule still holds although
releases have been inserted and statements removed.

`StackStaysBalanced`: `StackBalanced`, under the same condition.  The conjunct that relates what
is saved to the statement is what makes the others worth something, and is part of the labels too
(`StatFits`).  What is saved when an
operation is executed depends on how it was reached, so the invariant labels each MLIR
block with the loops whose stack pointer is saved when it is entered, `env`, and behind
the save or restore it may begin with, `mid`.  `Fitted` is about the emission, `RunInv`
about the execution:

* `BlockFits`: in a block labelled so each operation fits, that is, a restore is of the
  innermost of the loops that are saved, a branch leads to blocks labelled with what
  is saved there, and the operation of a statement stands where the loops around the
  statement are saved;
* `Surrounding`: the loops around a block of the tree, which are saved while its
  statements are executed (`LoopsAround`, through `FixedPoint` again);
* `NestFits`: the entries of `nested_blocks_stack` are levels; what an entry's break,
  continue or end leads to is labelled with the loops of the level around it, and a
  loop's entry adds that loop;
* `Linked`: the frames of the walk have the levels their blocks are at, so that the
  innermost entry is that of the loop or conditional around the statement emitted
  (`InnermostFits`), and what a frame waits for is labelled with its level;
* `RunInv`: what is saved is the label of the block being executed (`Executing`), and
  `Finds` that an operation is executed with what it fits.

The labels are chosen when a block is made, which is why the invariant says that there
are such labels: the blocks of a conditional get the loops of its level (`NewEnv`), the body
of a loop begins with the save that adds it.  `FittingClean` has what is easy to get
wrong in the code: the clean-up that erases a doubled end takes a restore with its branch.

`BlocksImplementProgram`: `ImplementsProgram`, under the same condition.  `NextStatements`
follows paths in the tree in as many steps as there are positions; that this reaches all that
any number of steps reaches is first proved (a set that grows with each step until it does not
has no more members than steps).  `Ahead` has the statements that may come when an execution
stands at a position, `AtEnd` at the end of a block, and one lemma per kind of statement says how
they follow from those of the positions it leads to.  The invariant again labels MLIR blocks,
now with statements that may come when the block is entered:

* `Flows`: with a label `a` in front of a sequence of operations there are labels between
  them, such that each operation's statement is in the label in front of it, the label
  behind it is what may follow that statement in the tree, and a branch leads to blocks whose
  labels are contained in the label in front of it;
* `PointFlows`: what is in front of the insertion point ends where the walk is in the tree
  (`CurFrom`), and what is behind it, a branch "in case", was emitted with what
  the innermost entry of `nested_blocks_stack` stands for;
* `TableFlows`, `FrameFlows`, `EntryFlows`: the blocks, what a frame waits for, which is
  labelled with what comes behind its statement, and the entries of `nested_blocks_stack`, whose
  `cont` and `back` are where a break and a continue go in the tree;
* `PathInv`: an execution is at a place whose label is contained in what may follow the
  statement executed last.

Erasing a branch "in case" weakens nothing, since a label need only be contained in what may
follow; the converse, that no path is lost, is not an invariant of this form, which is why
`SamePaths` is left to the run.

**SymbolTableProofs.**  `TypeCorrect`, `ScopesNestAlways`, `OwnLookupsAgreeAlways`,
`CallsAgreeAlways` and, under `DeclRule = "first"`, `OuterLookupsAgreeAlways`, from
`Invariance`:

* `TreeInv`, `NamesInv`, `SubroutineInv`: scopes form a tree, `chain` is what the
  pointers reach, each name stands for a symbol of that scope, no two subroutines
  share a scope;
* `OpenInv`: the open visits are a path from the root, which is `ScopesNest`;
* `PrototypeInv`: a prototype's scope has nobody's lookups and is nobody's
  enclosing scope.  Without it replacing its parameters at the definition could
  change what a name means;
* `OwnInv`: the noted scope itself has the name;
* `ClosedInv`, `OuterInv`: the scopes between an assignment and the symbol it found
  do not have the name and are *settled*, given no more names.

**InStreamProofs.**  `TypeCorrect`, `NoOverrun` and the refinement
`ReadsAreOfTheStream`, from `Invariance`, for any size of the buffer and any input
(`InStreamAssumption`).  The first half is about texts: what `Scanned` finds in a
text it finds in each prefix long enough to hold it (`ScannedPrefix`), and spaces
behind a text change nothing but for characters (`ScannedPadded`).  `IInv` says that
until the buffer is filled a second time it holds what was taken (`MemInv`), and
that one of three things is the case (`PosInv`): nothing was read; the buffer was
filled and the length is what is left of it (`OneBuffer`); or all of the input is in
the buffer and the pointer stands at what is unread, behind it, or at a value that
filled the buffer (`WholeInput`).  The string at the pointer is then a prefix of what
is unread, or what is unread with spaces behind it, so that both start with the same
value (`SameValue`).

**SubroutinesProofs.**  All three properties of the run, `LegalTextsAreAccepted`,
`GeneratedCallsFit` and `VarArgumentsShareNothing`, for any number of headers, calls,
parameters and names (`SubroutinesAssumption`).  `IInv` says that the headers of a
name agree in all that `DefinitionErrorWalker` compares (`HeadersInv`), that every call
satisfies the verdict of each pass that is over (`PassedInv`), and which call stopped
the pass that did not end (`StoppedInv`).  The properties then relate headers: a
pass judged the call by one of those seen before it, the first or the last, and what
it looked at is the same in the definition.  The number of parameters is not among what
the headers agree in, which is why `CallsFit` has it as a condition; in a legal text it
is (`LegalHeadersAgree`).

**VectorCodeProofs.**  All eight properties of the run, for any number of variables,
operands, tuples, blocks and elements.  The assumptions are that variables are finitely
many, that elements are within a machine word and that there is room for the four
blocks a step may allocate before it frees others.  The invariant `VInv` adds to the types
`Memory`, which is what ownership comes to:

* a vector variable's block is live, and no other variable and no operand has it, nor
  any field of a tuple (`Variable`, `Alone`, `Apart`);
* a vector among the operands is live too, and no other operand and no field has it;
  this is what makes it safe for an operation to free its operands;
* a struct has two fields, each a scalar or a vector in the heap, and of these nothing
  more is said: they may be freed, and other structs may have them.

`VariablesOwnTheirVectors` alone is not inductive: it says nothing of two operands that
are one vector, of which an operation would free a variable's if it were loaded uncopied,
nor of a tuple that has an operand's vector when that is assigned.  The bound on
scalars and blocks in `VInv` is what makes the elements a step stores and the blocks
it allocates fit.

The proof has three parts.  The first says of each function of the back end, in terms of
the heap it is given, a set `D` of blocks it may change, how many blocks it allocates,
how it may end, that what it returns is its own (`Makes`) or a scalar (`Computes`), and
that it leaves nothing behind but its result and has freed `D` (`Tidy`).  The values of
elements do not matter, so none of this depends on arithmetic.  The second shows that
settling, which moves blocks and structs, keeps `Memory` and what the
properties relate (`Renumbers`, `SettleKeeps`).  The third takes the actions one by one;
`StepKeeps` puts them together.  Statements about freed memory count owners, so
`Owned1` is related there to what `Memory` says: in a heap that has one owner for each
block and nothing freed, only a tuple's fields can be freed while they are pointed to
(`FreesOnlyFields`).

**Not proved.**  Liveness, which is beyond the prover.  Of `CodeGenCFG`, `SamePaths`
is model-checked only: it says that the blocks offer every path of the tree, and so needs
an invariant about what has not been erased as well.
`Types` is model-checked only; its types are computed by recursion over expressions.
Recursion over data as such is not proved either: where a theorem needs what a recursive function
computes it goes by the equation, as above.  No module with a theorem reaches a recursive
operator.

## 5. Findings

Each is a run of its own, stating what the repository says and showing a program
for which the code does otherwise.

1. **`break_leaks_inner_block`** `CodeGenASTWalker.cpp:1974`: a break releases one
   scope; `AST.h:591` says all scopes up to the loop's.  The same holds of returns, of which
   `CodeGenASTWalker.cpp:1882` says "free everything that was malloc'd": `ReturnReleases` of
   the run `lifetime` has what they leave.
2. **`exit_in_nested_block`** `BreakContinuePruneWalker.cpp:21`: an exit of a nested
   block does not prune the block around it, and operations follow a terminator.
3. **`returned_tuple`** `CodeGenASTWalker.cpp:1885`: a returned value is said to be a
   copy of whatever was allocated; a tuple variable is not copied and its vectors
   are freed before the return.
4. **`promotes_the_expression`** `BinaryOpTypeErrorWalker.cpp:388`: promoting the type
   of an expression changes the type of the variable or function it read.

## 6. What is not modelled

`PROJECT.json` has the status of every part.  Not planned: the grammar and ANTLR's
parser, the lowering from MLIR to LLVM, the printing walkers, the build.  Checks of
one statement's shape keep no state and appear only as guards where another pass
relies on them.

Limits of what is modelled:

* where the repository wants something else than the code does and no run is spent on it,
  the property has what the code does and its comment says so.  A procedure's call as one
  operand of a binary operation is accepted (`CallFuncCallErrorWalker.cpp:79` and `:90`
  reject two), while `tests/Part1Failed/CallError3.test:14-21` wants a `CallError`: such a
  text is not legal in `LegalIsAccepted`, and `CallsFit` does not exclude it.  A boolean
  read that finds no boolean takes nothing, while a comment in `tests/testfiles/team
  tests/regr-ivory-tower-1/inp1.in:8` says it "should fail BUT consume and leave stream
  empty"; the output that test wants, `F00`, is the same either way, and its first line
  doubts it;
* `SymbolTable` has no tuples' fields and no built-in type names, which no identifier
  can be confused with;
* `Subroutines` has two types of results and no types of parameters, no elements of
  vectors as arguments (for them `ArgumentMutabilityErrorWalker` compares base types)
  and no variable with the name of a subroutine, of which `SymbolTable` tells;
* `VectorCode` has no matrices (`EmitMatrix.cpp`, `MatrixOps.c`), no sizes that are
  expressions (they are evaluated again at each assignment, `CodeGenASTWalker.cpp:258`)
  and no text of what is printed; `!=` of vectors is what the code makes of it, which
  is `==` (`CodeGenASTWalker.cpp:706`);
* the run of `Types` has a function that returns an integer: an integer returned from
  a real one is not converted (`BinaryOpTypeErrorWalker.cpp:678`), as
  `AcceptedCompiles` says.  Sizes are left out with what depends on them: inference
  reads a null pointer for a concatenation with an operand of unknown size
  (`TypeInferWalker.cpp:201`);
* `InStream` leaves the sign, the exponent and the value of a number to `sscanf`, and
  the letters of a boolean behind the first are written behind its one byte.

## 7. Plan

In this order; each with its runs and, where marked, proofs.

1. **Arguments**: the types of parameters and arguments, elements of vectors and
   `ConstAssignErrorWalker`; no accepted call changes a constant.
2. **Matrices**: their storage and `MatrixOps.c`, in `VectorMemory` and `VectorCode`.
3. **ConstantFold**: 32-bit folding against the operations of `Scalars`; **Pipeline**:
   the order of `main.cpp`, and what leaves it by an exception it does not catch.
4. Proofs that `CodeGenCFG` loses no path of the tree (`SamePaths`), and about `Types`.
