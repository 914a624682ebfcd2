----------------------------- MODULE SymbolTable -----------------------------
(***************************************************************************)
(* DefineSymbols: the walk that builds the scopes, puts the symbols into   *)
(* them and notes in every node the scope it was seen in.                  *)
(*                                                                         *)
(* The twelve passes behind it do not keep what it found: they look every  *)
(* name up again, in node->containing_scope, when all scopes are filled.   *)
(* A name may therefore mean one symbol to DefineSymbols and another to    *)
(* the code generator.  The program is not written down beforehand: the    *)
(* walk meets any node that may come next.                                 *)
(***************************************************************************)
EXTENDS Integers, Sequences

CONSTANTS
    Name,           \* the identifiers
    NoName,         \* a null expression, an empty identifier
    DeclRule,       \* where declarations stand: first or accepted (Closes)
    MaxParams,      \* bound: parameters of a subroutine
    MaxScopes,      \* bound: scopes of the program
    MaxNodes        \* bound: nodes the walk meets

ASSUME SymbolTableAssumption ==
    /\ NoName \notin Name
    /\ DeclRule \in {"first", "accepted"}
    /\ MaxParams \in Nat /\ MaxScopes \in Nat /\ MaxNodes \in Nat

VARIABLES
    scopes,             \* SymbolTable::scopes
    current,            \* currentScope, 0 for a null pointer
    symbols,            \* the symbols in the order they were made
    domain_variable,    \* the variable that waits for the body of its loop
    open,               \* the visits that push a scope and have not ended
    closed,             \* the blocks that are past their declarations
    lookups,            \* what the later passes will look up again
    phase, nodes

vars == <<scopes, current, symbols, domain_variable, open, closed, lookups, phase, nodes>>

-----------------------------------------------------------------------------
(* Scopes and symbols are numbered in the order they are made.             *)

Global == 1

\* enclosing is the pointer, chain the scopes that following it reaches,
\* names the map of a BaseScope or the orderedArgs of a ScopedSymbol: the
\* symbol of a name, 0 if there is none.
ScopeKind == {"global", "local", "loop", "subroutine"}
Scope == [kind: ScopeKind, enclosing: Nat, chain: SUBSET Nat,
          names: [Name -> Nat]]

\* inner: the scope a ScopedSymbol itself is.
SymbolKind == {"variable", "function", "procedure"}
Symbol == [name: Name, kind: SymbolKind, scope: Nat, inner: Nat, prototype: BOOLEAN]

Variable(n, s) == [name |-> n, kind |-> "variable", scope |-> s, inner |-> 0,
                   prototype |-> FALSE]

IsSubroutine(i) == symbols[i].kind # "variable"

\* push_scope, of a scope with these names.
NewScope(kind, enclosing, names) ==
    [kind |-> kind, enclosing |-> enclosing, names |-> names,
     chain |-> {Len(scopes) + 1} \cup scopes[enclosing].chain]

Nameless == [n \in Name |-> 0]

\* emplace: a name that is there keeps its symbol.
Define(names, n, i) ==
    IF names[n] # 0 THEN names ELSE [names EXCEPT ![n] = i]

\* resolve: the symbol of the innermost scope that has the name, in a set
\* that is empty for a null pointer.
Having(s, n)  == {t \in scopes[s].chain : scopes[t].names[n] # 0}
Resolve(s, n) ==
    {scopes[t].names[n] : t \in {t \in Having(s, n) : \A r \in Having(s, n) : r <= t}}

\* Mutant: calls are looked up like variables.
ResolveAny(s, n) == Resolve(s, n)

\* resolveProcFunc passes over the variables.
HavingRoutine(s, n) == {t \in Having(s, n) : IsSubroutine(scopes[t].names[n])}
ResolveProcFunc(s, n) ==
    {scopes[t].names[n] : t \in {t \in HavingRoutine(s, n) :
                                     \A r \in HavingRoutine(s, n) : r <= t}}

-----------------------------------------------------------------------------
(* Lookups.  how: an IdNode, a node that only notes the scope it is in (an *)
(* assignment, a call), a definition (of a variable, an iterator loop's, a *)
(* subroutine).                                                            *)

Lookup == [how: {"id", "assign", "call", "decl", "domain", "subroutine"}, scope: Nat,
           name: Name, symbol: Nat]

LookedUp(how, s, n, i) == [how |-> how, scope |-> s, name |-> n, symbol |-> i]

\* Mutant: an IdNode notes the scope it is in, not the one of its symbol.
CurrentScopeOf(i) == current

ScopeOf(i) == symbols[i].scope

\* visitIdNode: e is visited in scope s; subroutines are no expressions.
ExprAccepted(s, e) == e = NoName \/ \E i \in Resolve(s, e) : ~IsSubroutine(i)
ExprLookups(s, e)  ==
    IF e = NoName THEN {} ELSE {LookedUp("id", ScopeOf(i), e, i) : i \in Resolve(s, e)}

\* visitFuncProcCallNode, in an expression that is visited in scope s: c is
\* looked up there, whatever it names.
CallAccepted(c)   == c = NoName \/ Resolve(current, c) # {}
CallLookups(s, c) ==
    IF c = NoName THEN {} ELSE {LookedUp("call", s, c, i) : i \in Resolve(current, c)}

-----------------------------------------------------------------------------
(* The call stack: visited tells whether the block of a loop or subroutine *)
(* has been visited.                                                       *)

Visit == [kind: ScopeKind, scope: Nat, visited: BOOLEAN]
Opened(kind, s) == [kind |-> kind, scope |-> s, visited |-> FALSE]
Inner == open[Len(open)]

TypeOK ==
    /\ scopes \in Seq(Scope) /\ scopes # <<>>
    /\ current \in 0..Len(scopes)
    /\ symbols \in Seq(Symbol)
    /\ domain_variable \in Name \cup {NoName}
    /\ open \in Seq(Visit)
    /\ closed \in SUBSET Nat
    /\ lookups \in SUBSET Lookup
    /\ phase \in {"defining", "rejected", "crashed", "done"}
    /\ nodes \in Nat

Init ==
    /\ scopes = <<[kind |-> "global", enclosing |-> 0, chain |-> {Global},
                   names |-> Nameless]>>
    /\ current = Global
    /\ symbols = <<>>
    /\ domain_variable = NoName
    /\ open = <<Opened("global", Global)>>
    /\ closed = {}
    /\ lookups = {}
    /\ phase = "defining"
    /\ nodes = 0

\* The walk is at a statement of a block of this kind.
AtStat(kinds) ==
    /\ phase = "defining" /\ open # <<>> /\ Inner.kind \in kinds
    /\ nodes < MaxNodes
    /\ nodes' = nodes + 1

\* throw SymbolError
Reject ==
    /\ phase' = "rejected"
    /\ UNCHANGED <<scopes, current, symbols, domain_variable, open, closed, lookups>>

\* Mutant: only a statement that has a block ends the declarations.
ClosesOnlyBehindBlocks(has_block) == IF has_block THEN closed \cup {current} ELSE closed

(***************************************************************************)
(* DeclStatementErrorWalker has rejected declarations behind a statement   *)
(* that has no block (loops, conditionals and nested blocks it skips).     *)
(***************************************************************************)
Closes(has_block) ==
    IF has_block /\ DeclRule = "accepted" THEN closed ELSE closed \cup {current}

\* visitDeclNode: the expression, in which e may be read and c called, is
\* visited before the name is defined.  GlobalErrorWalker has rejected calls
\* in global declarations.
Decl(n, e, c) ==
    /\ AtStat({"global", "local"}) /\ current \notin closed
    /\ Inner.kind = "global" => c = NoName
    /\ IF scopes[current].names[n] # 0 \/ ~ExprAccepted(current, e) \/ ~CallAccepted(c)
       THEN Reject
       ELSE /\ lookups' = lookups \cup ExprLookups(current, e) \cup CallLookups(current, c)
                                  \cup {LookedUp("decl", current, n, Len(symbols) + 1)}
            /\ symbols' = Append(symbols, Variable(n, current))
            /\ scopes' = [scopes EXCEPT ![current].names = Define(@, n, Len(symbols) + 1)]
            /\ UNCHANGED <<current, domain_variable, open, closed, phase>>

\* visitIdAssignNode and visitFuncProcCallNode: the name is looked up where
\* the statement stands, whatever it names, then the expression.
NameStat(how, n, e) ==
    /\ AtStat({"local"})
    /\ IF Resolve(current, n) = {} \/ ~ExprAccepted(current, e) THEN Reject
       ELSE /\ lookups' = lookups \cup {LookedUp(how, current, n, i) : i \in Resolve(current, n)}
                                  \cup ExprLookups(current, e)
            /\ closed' = Closes(FALSE)
            /\ UNCHANGED <<scopes, current, symbols, domain_variable, open, phase>>

\* A statement that only visits an expression: output, input, return.
ExprStat(e) ==
    /\ AtStat({"local"})
    /\ IF ~ExprAccepted(current, e) THEN Reject
       ELSE /\ lookups' = lookups \cup ExprLookups(current, e)
            /\ closed' = Closes(FALSE)
            /\ UNCHANGED <<scopes, current, symbols, domain_variable, open, phase>>

(***************************************************************************)
(* visitGeneratorNode and visitFilterNode: a scope of their own, in which  *)
(* the domain, which reads e and calls c, is visited before n is defined   *)
(* and the other expression behind it.                                     *)
(***************************************************************************)
Comprehension(n, e, c, rhs) ==
    /\ AtStat({"local"}) /\ Len(scopes) < MaxScopes
    /\ LET inner == Len(scopes) + 1
           i     == Len(symbols) + 1
       IN IF \/ ~ExprAccepted(current, e) \/ ~CallAccepted(c)
             \/ rhs # n /\ ~ExprAccepted(current, rhs)
          THEN Reject
          ELSE /\ scopes' = Append(scopes, NewScope("local", current, Define(Nameless, n, i)))
               /\ symbols' = Append(symbols, Variable(n, inner))
               /\ lookups' = lookups \cup ExprLookups(current, e) \cup CallLookups(inner, c) \cup
                                IF rhs = n THEN {LookedUp("id", inner, n, i)}
                                           ELSE ExprLookups(current, rhs)
               /\ closed' = Closes(FALSE)
               /\ UNCHANGED <<current, domain_variable, open, phase>>

-----------------------------------------------------------------------------
(* Visits with a scope.                                                    *)

Push(visit, kind) ==
    /\ current' = Len(scopes) + 1
    /\ open' = Append(visit, Opened(kind, current'))

\* visitInfLoopNode, visitPredLoopNode and, with a variable d, visitIterLoopNode.
Loop(e, d) ==
    /\ AtStat({"local"}) /\ Len(scopes) + 1 < MaxScopes
    /\ IF ~ExprAccepted(current, e) THEN Reject
       ELSE /\ scopes' = Append(scopes, NewScope("loop", current, Nameless))
            /\ Push(open, "loop")
            /\ lookups' = lookups \cup ExprLookups(current, e)
            /\ domain_variable' = d
            /\ closed' = Closes(TRUE)
            /\ UNCHANGED <<symbols, phase>>

\* visitBlockNode, of the body of a loop or subroutine: the first block that
\* is visited takes the domain variable.
Body ==
    /\ phase = "defining" /\ open # <<>>
    /\ Inner.kind \in {"loop", "subroutine"} /\ ~Inner.visited
    /\ LET i == Len(symbols) + 1
           s == Len(scopes) + 1
       IN IF domain_variable = NoName
          THEN /\ scopes' = Append(scopes, NewScope("local", current, Nameless))
               /\ UNCHANGED <<symbols, lookups>>
          ELSE /\ scopes' = Append(scopes, NewScope("local", current,
                                                    Define(Nameless, domain_variable, i)))
               /\ symbols' = Append(symbols, Variable(domain_variable, s))
               /\ lookups' = lookups \cup {LookedUp("domain", s, domain_variable, i)}
    /\ Push([open EXCEPT ![Len(open)].visited = TRUE], "local")
    /\ domain_variable' = NoName
    /\ UNCHANGED <<closed, phase, nodes>>

\* A nested block, or a conditional and one of its blocks.
Branch(e) ==
    /\ AtStat({"local"}) /\ Len(scopes) < MaxScopes
    /\ IF ~ExprAccepted(current, e) THEN Reject
       ELSE /\ scopes' = Append(scopes, NewScope("local", current, Nameless))
            /\ Push(open, "local")
            /\ lookups' = lookups \cup ExprLookups(current, e)
            /\ closed' = Closes(TRUE)
            /\ UNCHANGED <<symbols, domain_variable, phase>>

\* The names of the parameters: the first of two with one name is found.
ParamNames(params, i) ==
    [n \in Name |->
        IF \A j \in DOMAIN params : params[j] # n THEN 0
        ELSE i + CHOOSE j \in DOMAIN params :
                     params[j] = n /\ \A k \in 1..(j - 1) : params[k] # n]

ParamSymbols(params, s) == [j \in DOMAIN params |-> Variable(params[j], s)]

\* DefinitionErrorWalker has accepted n: one definition, perhaps one
\* prototype of the same kind before it.
DefinitionAccepted(n, kind, prototype) ==
    \A i \in DOMAIN symbols : symbols[i].name = n /\ IsSubroutine(i) =>
        symbols[i].kind = kind /\ symbols[i].prototype /\ ~prototype

\* visitFuncDefNode and visitProcDefNode when the name is new.
NewSubroutine(n, kind, params, prototype) ==
    LET i == Len(symbols) + 1
        s == Len(scopes) + 1
    IN /\ symbols' = Append(symbols, [name |-> n, kind |-> kind, scope |-> Global, inner |-> s,
                                      prototype |-> prototype]) \o ParamSymbols(params, s)
       /\ scopes' = Append([scopes EXCEPT ![Global].names = Define(@, n, i)],
                           NewScope("subroutine", Global, ParamNames(params, i)))
       /\ lookups' = lookups \cup {LookedUp("subroutine", Global, n, i)}
       /\ IF prototype THEN UNCHANGED <<current, open>> ELSE Push(open, "subroutine")

\* When there was a prototype: its scope is entered again, its parameters
\* are replaced.
OfPrototype(n, i, params) ==
    /\ symbols' = [symbols EXCEPT ![i].prototype = FALSE]
                      \o ParamSymbols(params, symbols[i].inner)
    /\ scopes' = [scopes EXCEPT ![symbols[i].inner].names = ParamNames(params, Len(symbols))]
    /\ lookups' = lookups \cup {LookedUp("subroutine", Global, n, i)}
    /\ current' = symbols[i].inner
    /\ open' = Append(open, Opened("subroutine", symbols[i].inner))

Subroutine(n, kind, params, prototype) ==
    /\ AtStat({"global"}) /\ Len(scopes) + 1 < MaxScopes
    /\ DefinitionAccepted(n, kind, prototype)
    /\ \/ /\ Resolve(Global, n) = {}
          /\ NewSubroutine(n, kind, params, prototype)
          /\ UNCHANGED <<domain_variable, closed, phase>>
       \/ \E i \in Resolve(Global, n) :
             /\ IsSubroutine(i)
             /\ OfPrototype(n, i, params)
             /\ UNCHANGED <<domain_variable, closed, phase>>
       \/ \* The symbol of a global variable is cast to a subroutine's, and
          \* what is read as its prototype flag is not defined.
          /\ \E i \in Resolve(Global, n) : ~IsSubroutine(i)
          /\ \/ Reject
             \/ /\ phase' = "crashed"
                /\ UNCHANGED <<scopes, current, symbols, domain_variable, open, closed, lookups>>

\* Mutant: the visit of a subroutine does not pop its scope.
PoppedOfBlocks == IF Inner.kind = "subroutine" THEN current ELSE scopes[current].enclosing

\* Mutant: off by one.
PoppedPast == scopes[current].enclosing - 1

\* pop_scope
Popped == scopes[current].enclosing

\* The end of a block, then of the loop or subroutine it is the body of.
\* (Prototypes without a definition DefinitionErrorWalker has rejected.)
Leave ==
    /\ phase = "defining" /\ open # <<>>
    /\ Inner.kind \in {"loop", "subroutine"} => Inner.visited
    /\ current' = Popped
    /\ open' = SubSeq(open, 1, Len(open) - 1)
    /\ phase' = IF Inner.kind # "global" THEN phase
                ELSE IF \E i \in DOMAIN symbols : symbols[i].prototype THEN "rejected"
                ELSE "done"
    /\ UNCHANGED <<scopes, symbols, domain_variable, closed, lookups, nodes>>

Done == phase # "defining" /\ UNCHANGED vars

Expr == Name \cup {NoName}

Params == UNION {[1..k -> Name] : k \in 0..MaxParams}

Next ==
    \/ \E n \in Name, e \in Expr, c \in Expr : Decl(n, e, c)
    \/ \E n \in Name, e \in Expr, how \in {"assign", "call"} : NameStat(how, n, e)
    \/ \E e \in Name : ExprStat(e)
    \/ \E n \in Name, e \in Expr, c \in Expr, rhs \in Expr : Comprehension(n, e, c, rhs)
    \/ \E e \in Expr, d \in Expr : Loop(e, d)
    \/ \E e \in Expr : Branch(e)
    \/ \E n \in Name, kind \in {"function", "procedure"}, params \in Params,
          prototype \in BOOLEAN : Subroutine(n, kind, params, prototype)
    \/ Body
    \/ Leave
    \/ Done

Spec == Init /\ [][Next]_vars

-----------------------------------------------------------------------------
(* Properties                                                              *)

(***************************************************************************)
(* Every pop_scope returns to the scope of the visit around: currentScope  *)
(* is that of the innermost open visit and encloses, through pointers that *)
(* were set when the scopes were pushed (of a prototype's, long ago), just *)
(* the scopes of the visits that are open.                                 *)
(***************************************************************************)
ScopesNest ==
    phase = "defining" =>
        /\ open # <<>> /\ current = Inner.scope
        /\ scopes[current].chain = {open[k].scope : k \in DOMAIN open}

Agrees(u) == Resolve(u.scope, u.name) = {u.symbol}

(***************************************************************************)
(* What an IdNode, a declaration, the body of an iterator loop or the      *)
(* definition of a subroutine stands for is found again by every later     *)
(* resolve in the noted scope: no symbol of a scope is replaced, hidden or *)
(* removed after a node has referred to it.                                *)
(***************************************************************************)
OwnLookupsAgree == \A u \in lookups : u.how \notin {"assign", "call"} => Agrees(u)

(***************************************************************************)
(* An assignment notes the scope it stands in, so what it names is found   *)
(* again only when no scope between is given a symbol of that name         *)
(* afterwards: when declarations do come first.                            *)
(***************************************************************************)
OuterLookupsAgree == \A u \in lookups : u.how = "assign" => Agrees(u)

(***************************************************************************)
(* What a call of a subroutine stands for is found again by resolveProcFunc*)
(* in the noted scope, as the code generator and three checks look for it, *)
(* although the scopes between may be given variables of that name, by the *)
(* very declaration or comprehension the call is in.                       *)
(***************************************************************************)
CallsAgree ==
    \A u \in lookups : u.how = "call" /\ IsSubroutine(u.symbol) =>
        ResolveProcFunc(u.scope, u.name) = {u.symbol}
=============================================================================
