------------------------- MODULE SymbolTableProofs -------------------------
(***************************************************************************)
(* Proofs about SymbolTable, for all identifiers and all bounds: the walk  *)
(* keeps its place in the scopes, and what it has looked up is found again *)
(* by every later pass.                                                    *)
(***************************************************************************)
EXTENDS SymbolTable, SequenceTheorems, WellFoundedInduction, TLAPS

ScopeId == 1..Len(scopes)

-----------------------------------------------------------------------------
(* The inductive invariant.                                                *)

\* The scopes form a tree whose root is the global scope, and the chain of a
\* scope is what its pointers reach.
TreeInv ==
    /\ Global \in ScopeId
    /\ \A s \in ScopeId :
          /\ scopes[s].enclosing < s
          /\ scopes[s].chain \subseteq 1..s
          /\ s = Global => scopes[s].enclosing = 0 /\ scopes[s].chain = {s}
          /\ s # Global => /\ scopes[s].enclosing \in ScopeId
                           /\ scopes[s].chain = {s} \cup scopes[scopes[s].enclosing].chain

\* A name of a scope stands for a symbol of that name that was defined in
\* that scope.
NamesInv ==
    \A s \in ScopeId, n \in Name : scopes[s].names[n] # 0 =>
        /\ scopes[s].names[n] \in 1..Len(symbols)
        /\ symbols[scopes[s].names[n]].scope = s
        /\ symbols[scopes[s].names[n]].name = n

\* Every subroutine is a scope of its own in the global one.
SubroutineInv ==
    \A i \in 1..Len(symbols) : IsSubroutine(i) =>
        /\ symbols[i].inner \in ScopeId \ {Global}
        /\ scopes[symbols[i].inner].kind = "subroutine"
        /\ scopes[symbols[i].inner].enclosing = Global
        /\ \A j \in 1..Len(symbols) :
              IsSubroutine(j) /\ symbols[j].inner = symbols[i].inner => i = j

\* The open visits are a path in the tree that starts at its root.
OpenInv ==
    phase = "defining" =>
        /\ open # <<>> /\ current = Inner.scope
        /\ \A k \in 1..Len(open) :
              /\ open[k].scope \in ScopeId
              /\ open[k].kind = scopes[open[k].scope].kind
              /\ scopes[open[k].scope].chain = {open[j].scope : j \in 1..k}
              /\ k = 1 <=> open[k].scope = Global
              /\ k = 1 <=> open[k].kind = "global"
              /\ k # 1 => scopes[open[k].scope].enclosing = open[k - 1].scope

\* In the scope of a prototype there is nothing but its parameters, and no
\* node refers to them.
PrototypeInv ==
    \A i \in 1..Len(symbols) : IsSubroutine(i) /\ symbols[i].prototype =>
        /\ \A s \in ScopeId : s # symbols[i].inner => symbols[i].inner \notin scopes[s].chain
        /\ \A u \in lookups : u.scope # symbols[i].inner
        /\ \A k \in 1..Len(open) : open[k].scope # symbols[i].inner

\* The noted scope itself has what these lookups found.
OwnInv ==
    \A u \in lookups :
        /\ u.scope \in ScopeId
        /\ u.symbol # 0
        /\ u.how \notin {"assign", "call"} => scopes[u.scope].names[u.name] = u.symbol

\* A scope that will not be given names any more while a visit in it is open.
Settled(s) == s \in closed \/ scopes[s].kind \in {"loop", "subroutine"}

ClosedInv ==
    phase = "defining" => \A k \in 2..(Len(open) - 1) : Settled(open[k].scope)

\* The symbol such a lookup found is in a scope t of the chain, and the scopes
\* between do not have the name and are settled.
Found(u, t) ==
    /\ t \in scopes[u.scope].chain
    /\ scopes[t].names[u.name] = u.symbol
    /\ \A v \in scopes[u.scope].chain :
          v > t => scopes[v].names[u.name] = 0 /\ Settled(v)

OuterInv ==
    \A u \in lookups : u.how = "assign" =>
        \E t \in scopes[u.scope].chain : Found(u, t)

IInv ==
    /\ TypeOK /\ TreeInv /\ NamesInv /\ SubroutineInv /\ OpenInv /\ PrototypeInv
    /\ OwnInv
    /\ DeclRule = "first" => ClosedInv /\ OuterInv
-----------------------------------------------------------------------------
(* Lookups.                                                                *)

\* The lengths are numbers.
LEMMA LenTypes ==
    ASSUME TypeOK
    PROVE  Len(scopes) \in Nat /\ Len(symbols) \in Nat /\ Len(open) \in Nat
  BY DEF TypeOK

\* What resolve returns: the symbol of the innermost scope that has the name.
LEMMA ResolveProps ==
    ASSUME TypeOK, TreeInv, NamesInv, NEW s \in ScopeId, NEW n \in Name, NEW i \in Resolve(s, n)
    PROVE  /\ i \in 1..Len(symbols)
           /\ symbols[i].scope \in scopes[s].chain
           /\ scopes[symbols[i].scope].names[n] = i /\ symbols[i].name = n
           /\ \A v \in scopes[s].chain : v > symbols[i].scope => scopes[v].names[n] = 0
  <1>1. PICK t \in Having(s, n) : i = scopes[t].names[n] /\ \A r \in Having(s, n) : r <= t
    BY DEF Resolve
  <1>2. t \in scopes[s].chain /\ scopes[t].names[n] # 0
    BY <1>1 DEF Having
  <1>3. scopes[s].chain \subseteq 1..s /\ s \in 1..Len(scopes)
    BY DEF TreeInv, ScopeId
  <1>4. t \in ScopeId
    BY <1>2, <1>3 DEF ScopeId
  <1>5. i \in 1..Len(symbols) /\ symbols[i].scope = t /\ symbols[i].name = n
    BY <1>1, <1>2, <1>4 DEF NamesInv
  <1>6. ASSUME NEW v \in scopes[s].chain, v > t PROVE scopes[v].names[n] = 0
    <2>1. v \in Having(s, n) => v <= t
      BY <1>1
    <2>2. v \in Nat /\ t \in Nat
      BY <1>2, <1>3
    <2>. QED BY <1>6, <2>1, <2>2 DEF Having
  <1>. QED BY <1>1, <1>2, <1>5, <1>6

\* The scope of the innermost visit, and the scopes around it, are open.
LEMMA CurrentProps ==
    ASSUME TypeOK, TreeInv, OpenInv, phase = "defining"
    PROVE  /\ current \in ScopeId
           /\ open # <<>> /\ Len(open) \in 1..Len(open) /\ current = open[Len(open)].scope
           /\ scopes[current].chain = {open[j].scope : j \in 1..Len(open)}
           /\ \A t \in scopes[current].chain : t \in ScopeId /\ t <= current
  <1>1. open # <<>> /\ current = open[Len(open)].scope
    BY DEF OpenInv, Inner
  <1>2. Len(open) \in 1..Len(open)
    BY <1>1 DEF TypeOK
  <1>3. /\ current \in ScopeId
        /\ scopes[current].chain = {open[j].scope : j \in 1..Len(open)}
    BY <1>1, <1>2 DEF OpenInv
  <1>4. scopes[current].chain \subseteq 1..current
    BY <1>3 DEF TreeInv
  <1>. QED BY <1>1, <1>2, <1>3, <1>4 DEF ScopeId

\* The lookups of an expression are found in the scopes they note, which are
\* open: none is the scope of a prototype.
LEMMA ExprLookupsProps ==
    ASSUME TypeOK, TreeInv, NamesInv, OpenInv, PrototypeInv, phase = "defining",
           NEW e \in Expr, NEW u \in ExprLookups(current, e)
    PROVE  /\ u \in Lookup /\ u.how = "id"
           /\ u.scope \in ScopeId /\ u.scope \in scopes[current].chain
           /\ u.symbol # 0 /\ scopes[u.scope].names[u.name] = u.symbol
           /\ \A i \in 1..Len(symbols) :
                 IsSubroutine(i) /\ symbols[i].prototype => u.scope # symbols[i].inner
  <1>1. e \in Name /\ \E i \in Resolve(current, e) : u = LookedUp("id", symbols[i].scope, e, i)
    BY DEF ExprLookups, ScopeOf, Expr
  <1>2. PICK i \in Resolve(current, e) : u = LookedUp("id", symbols[i].scope, e, i)
    BY <1>1
  <1>3. /\ current \in ScopeId
        /\ scopes[current].chain = {open[j].scope : j \in 1..Len(open)}
        /\ \A t \in scopes[current].chain : t \in ScopeId
    BY CurrentProps
  <1>4. /\ i \in 1..Len(symbols)
        /\ symbols[i].scope \in scopes[current].chain
        /\ scopes[symbols[i].scope].names[e] = i
    BY <1>1, <1>3, ResolveProps
  <1>5. /\ u.how = "id" /\ u.scope = symbols[i].scope /\ u.name = e /\ u.symbol = i
    BY <1>2 DEF LookedUp
  <1>8. u.scope \in ScopeId /\ u.scope \in Nat /\ i \in Nat
    <2>1. u.scope \in ScopeId
      BY <1>3, <1>4, <1>5
    <2>2. u.scope \in Nat
      BY <2>1, LenTypes DEF ScopeId
    <2>3. i \in Nat
      BY <1>4, LenTypes
    <2>. QED BY <2>1, <2>2, <2>3
  <1>6. u \in Lookup
    BY <1>1, <1>2, <1>5, <1>8 DEF LookedUp, Lookup
  <1>7. \A j \in 1..Len(symbols) :
            IsSubroutine(j) /\ symbols[j].prototype => u.scope # symbols[j].inner
    BY <1>3, <1>4, <1>5 DEF PrototypeInv
  <1>9. u.symbol # 0 /\ scopes[u.scope].names[u.name] = u.symbol
    BY <1>4, <1>5
  <1>. QED BY <1>4, <1>5, <1>6, <1>7, <1>8, <1>9

\* The lookup of a call notes the scope the call is in, which is open or new.
LEMMA CallLookupsProps ==
    ASSUME TypeOK, TreeInv, NamesInv, OpenInv, phase = "defining",
           NEW c \in Expr, NEW at \in Nat, NEW u \in CallLookups(at, c)
    PROVE  u \in Lookup /\ u.how = "call" /\ u.scope = at /\ u.symbol # 0
  <1>1. c \in Name /\ \E i \in Resolve(current, c) : u = LookedUp("call", at, c, i)
    BY DEF CallLookups, Expr
  <1>2. PICK i \in Resolve(current, c) : u = LookedUp("call", at, c, i)
    BY <1>1
  <1>3. current \in ScopeId
    BY CurrentProps
  <1>4. i \in 1..Len(symbols)
    BY <1>1, <1>3, ResolveProps
  <1>5. i \in Nat /\ i # 0
    BY <1>4, LenTypes
  <1>. QED BY <1>1, <1>2, <1>5 DEF LookedUp, Lookup

-----------------------------------------------------------------------------
(* What a step does to the tree of scopes.                                 *)

\* Nothing but names changes in scope s.
SameNode(s) == /\ scopes'[s].kind = scopes[s].kind
               /\ scopes'[s].enclosing = scopes[s].enclosing
               /\ scopes'[s].chain = scopes[s].chain

TreeKept == Len(scopes') = Len(scopes) /\ \A s \in ScopeId : SameNode(s)

\* One scope more, inside enc.
TreeGrown(enc, kind) ==
    /\ Len(scopes') = Len(scopes) + 1 /\ \A s \in ScopeId : SameNode(s)
    /\ scopes'[Len(scopes) + 1].kind = kind
    /\ scopes'[Len(scopes) + 1].enclosing = enc
    /\ scopes'[Len(scopes) + 1].chain = {Len(scopes) + 1} \cup scopes[enc].chain

\* A new scope becomes a child in the tree.
LEMMA TreeStep ==
    ASSUME TypeOK, TreeInv,
           \/ TreeKept
           \/ \E enc \in ScopeId, kind \in ScopeKind : TreeGrown(enc, kind)
    PROVE  TreeInv'
  <1>1. Len(scopes) \in Nat
    BY LenTypes
  <1>2. CASE TreeKept
    <2>1. ScopeId' = ScopeId
      BY <1>2 DEF TreeKept, ScopeId
    <2>. QED BY <1>2, <2>1 DEF TreeInv, TreeKept, SameNode
  <1>3. ASSUME NEW enc \in ScopeId, NEW kind \in ScopeKind, TreeGrown(enc, kind)
        PROVE  TreeInv'
    <2>. DEFINE new == Len(scopes) + 1
    <2>1. ScopeId' = ScopeId \cup {new} /\ new \notin ScopeId /\ new # Global
      BY <1>1, <1>3 DEF TreeGrown, ScopeId, TreeInv
    <2>2. ASSUME NEW s \in ScopeId
          PROVE  /\ scopes'[s].enclosing < s
                 /\ scopes'[s].chain \subseteq 1..s
                 /\ s = Global => scopes'[s].enclosing = 0 /\ scopes'[s].chain = {s}
                 /\ s # Global =>
                      /\ scopes'[s].enclosing \in ScopeId'
                      /\ scopes'[s].chain = {s} \cup scopes'[scopes'[s].enclosing].chain
      BY <1>3, <2>1 DEF TreeInv, TreeGrown, SameNode
    <2>3. /\ scopes'[new].enclosing < new
          /\ scopes'[new].chain \subseteq 1..new
          /\ scopes'[new].enclosing \in ScopeId'
          /\ scopes'[new].chain = {new} \cup scopes'[scopes'[new].enclosing].chain
      <3>1. scopes'[new].enclosing = enc /\ enc < new /\ enc \in 1..Len(scopes)
        BY <1>1, <1>3 DEF TreeGrown, ScopeId
      <3>2. scopes[enc].chain \subseteq 1..enc
        BY DEF TreeInv
      <3>3. scopes'[new].chain = {new} \cup scopes[enc].chain
        BY <1>3 DEF TreeGrown
      <3>4. scopes'[enc].chain = scopes[enc].chain
        BY <1>3 DEF TreeGrown, SameNode
      <3>5. {new} \cup scopes[enc].chain \subseteq 1..new
        BY <1>1, <3>1, <3>2
      <3>. QED BY <2>1, <3>1, <3>3, <3>4, <3>5 DEF ScopeId
    <2>. QED BY <2>1, <2>2, <2>3 DEF TreeInv
  <1>. QED BY <1>2, <1>3

\* The symbols that were there, apart from the prototype flags.
SymbolsKept ==
    \A i \in 1..Len(symbols) : /\ symbols'[i].kind = symbols[i].kind
                               /\ symbols'[i].name = symbols[i].name
                               /\ symbols'[i].scope = symbols[i].scope
                               /\ symbols'[i].inner = symbols[i].inner

\* Names are only given to new symbols, of the scope that is given the name.
LEMMA NamesStep ==
    ASSUME NamesInv,
           Len(symbols) \in Nat, Len(symbols') \in Nat, Len(symbols') >= Len(symbols),
           SymbolsKept,
           \A s \in ScopeId', n \in Name : scopes'[s].names[n] # 0 =>
              \/ s \in ScopeId /\ scopes'[s].names[n] = scopes[s].names[n]
              \/ /\ scopes'[s].names[n] \in 1..Len(symbols')
                 /\ symbols'[scopes'[s].names[n]].scope = s
                 /\ symbols'[scopes'[s].names[n]].name = n
    PROVE  NamesInv'
  <1>. SUFFICES ASSUME NEW s \in ScopeId', NEW n \in Name, scopes'[s].names[n] # 0
                PROVE  /\ scopes'[s].names[n] \in 1..Len(symbols')
                       /\ symbols'[scopes'[s].names[n]].scope = s
                       /\ symbols'[scopes'[s].names[n]].name = n
    BY DEF NamesInv
  <1>1. CASE s \in ScopeId /\ scopes'[s].names[n] = scopes[s].names[n]
    <2>. DEFINE i == scopes[s].names[n]
    <2>1. i \in 1..Len(symbols) /\ symbols[i].scope = s /\ symbols[i].name = n
      BY <1>1 DEF NamesInv
    <2>2. symbols'[i].scope = s /\ symbols'[i].name = n /\ i \in 1..Len(symbols')
      BY <2>1 DEF SymbolsKept
    <2>. QED BY <1>1, <2>2
  <1>. QED BY <1>1

\* The lookups that were made are kept when their names are; new ones are found.
LEMMA OwnStep ==
    ASSUME OwnInv, ScopeId \subseteq ScopeId', lookups \subseteq lookups',
           \A u \in lookups : u.how \notin {"assign", "call"} =>
              scopes'[u.scope].names[u.name] = scopes[u.scope].names[u.name],
           \A u \in lookups' \ lookups :
              /\ u.scope \in ScopeId' /\ u.symbol # 0
              /\ u.how \notin {"assign", "call"} => scopes'[u.scope].names[u.name] = u.symbol
    PROVE  OwnInv'
  BY DEF OwnInv

\* A lookup through the scopes around is kept when no name from the scope it
\* found on is given away.
LEMMA OuterStep ==
    ASSUME TypeOK, TreeInv, OwnInv, OuterInv, closed \subseteq closed',
           \A s \in ScopeId : SameNode(s),
           \A u \in lookups, t \in ScopeId : Found(u, t) =>
              \A v \in scopes[u.scope].chain :
                  v >= t => scopes'[v].names[u.name] = scopes[v].names[u.name],
           \A u \in lookups' \ lookups : u.how = "assign" =>
              \E t \in scopes'[u.scope].chain : Found(u, t)'
    PROVE  OuterInv'
  <1>. SUFFICES ASSUME NEW u \in lookups', u.how = "assign"
                PROVE  \E t \in scopes'[u.scope].chain : Found(u, t)'
    BY DEF OuterInv
  <1>1. CASE u \in lookups
    <2>1. PICK t \in scopes[u.scope].chain : Found(u, t)
      BY <1>1 DEF OuterInv
    <2>2. /\ u.scope \in ScopeId /\ scopes[u.scope].chain \subseteq 1..u.scope
          /\ Len(scopes) \in Nat
      BY <1>1, LenTypes DEF OwnInv, TreeInv
    <2>3. scopes[u.scope].chain \subseteq ScopeId /\ t \in ScopeId /\ t \in Nat
      BY <2>2 DEF ScopeId
    <2>4. scopes'[u.scope].chain = scopes[u.scope].chain
      BY <2>2 DEF SameNode
    <2>5. \A v \in scopes[u.scope].chain :
              v >= t => scopes'[v].names[u.name] = scopes[v].names[u.name]
      BY <1>1, <2>1, <2>3
    <2>6. scopes'[t].names[u.name] = u.symbol
      BY <2>1, <2>3, <2>5 DEF Found
    <2>7. ASSUME NEW v \in scopes[u.scope].chain, v > t
          PROVE  scopes'[v].names[u.name] = 0 /\ Settled(v)'
      <3>1. scopes[v].names[u.name] = 0 /\ Settled(v)
        BY <2>1, <2>7 DEF Found
      <3>2. v >= t /\ v \in ScopeId
        BY <2>2, <2>3, <2>7
      <3>3. scopes'[v].kind = scopes[v].kind
        BY <3>2 DEF SameNode
      <3>. QED BY <2>5, <3>1, <3>2, <3>3 DEF Settled
    <2>. QED BY <2>1, <2>4, <2>6, <2>7 DEF Found
  <1>. QED BY <1>1

\* A new subroutine is the new scope.
LEMMA SubroutineStep ==
    ASSUME TypeOK, SubroutineInv, SymbolsKept, \A s \in ScopeId : SameNode(s),
           ScopeId \subseteq ScopeId',
           \A i \in 1..Len(symbols') : i \in 1..Len(symbols) \/ symbols'[i].kind = "variable"
              \/ /\ i = Len(symbols) + 1 /\ symbols'[i].inner = Len(scopes) + 1
                 /\ TreeGrown(Global, "subroutine")
    PROVE  SubroutineInv'
  <1>1. Len(scopes) \in Nat /\ Len(symbols) \in Nat
    BY LenTypes
  <1>2. ASSUME NEW i \in 1..Len(symbols'), symbols'[i].kind # "variable"
        PROVE  \/ i \in 1..Len(symbols) /\ IsSubroutine(i) /\ symbols'[i].inner = symbols[i].inner
               \/ /\ i = Len(symbols) + 1 /\ symbols'[i].inner = Len(scopes) + 1
                  /\ TreeGrown(Global, "subroutine")
    BY <1>2 DEF SymbolsKept, IsSubroutine
  <1>3. ASSUME NEW i \in 1..Len(symbols'), symbols'[i].kind # "variable"
        PROVE  /\ symbols'[i].inner \in ScopeId' \ {Global}
               /\ scopes'[symbols'[i].inner].kind = "subroutine"
               /\ scopes'[symbols'[i].inner].enclosing = Global
    <2>1. CASE i \in 1..Len(symbols) /\ IsSubroutine(i) /\ symbols'[i].inner = symbols[i].inner
      <3>1. /\ symbols[i].inner \in ScopeId \ {Global}
            /\ scopes[symbols[i].inner].kind = "subroutine"
            /\ scopes[symbols[i].inner].enclosing = Global
        BY <2>1 DEF SubroutineInv
      <3>. QED BY <2>1, <3>1 DEF SameNode
    <2>2. CASE symbols'[i].inner = Len(scopes) + 1 /\ TreeGrown(Global, "subroutine")
      <3>1. Len(scopes) # 0
        BY DEF TypeOK
      <3>. QED BY <1>1, <2>2, <3>1 DEF TreeGrown, ScopeId, Global
    <2>. QED BY <1>2, <1>3, <2>1, <2>2
  <1>4. ASSUME NEW i \in 1..Len(symbols'), symbols'[i].kind # "variable",
               NEW j \in 1..Len(symbols'), symbols'[j].kind # "variable",
               symbols'[i].inner = symbols'[j].inner
        PROVE  i = j
    <2>1. \A k \in 1..Len(symbols) : IsSubroutine(k) => symbols[k].inner # Len(scopes) + 1
      BY <1>1 DEF SubroutineInv, ScopeId
    <2>. QED BY <1>2, <1>4, <2>1 DEF SubroutineInv
  <1>. QED BY <1>3, <1>4 DEF SubroutineInv, IsSubroutine

\* A prototype that is left, or new, stays closed to nodes.
Waiting(i) == IsSubroutine(i) /\ symbols[i].prototype

LEMMA PrototypeStep ==
    ASSUME TypeOK, TreeInv, SubroutineInv, OpenInv, PrototypeInv, SymbolsKept,
           \A s \in ScopeId : SameNode(s),
           \A i \in 1..Len(symbols') : Waiting(i)' =>
              \/ i \in 1..Len(symbols) /\ Waiting(i)
              \/ /\ i = Len(symbols) + 1 /\ symbols'[i].inner = Len(scopes) + 1
                 /\ \A u \in lookups' : u.scope \in ScopeId
                 /\ TreeGrown(Global, "subroutine")
                 /\ \A k \in 1..Len(open') : open'[k].scope \in ScopeId,
           \A i \in 1..Len(symbols) : Waiting(i) /\ Waiting(i)' =>
              /\ \A u \in lookups' \ lookups : u.scope # symbols[i].inner
              /\ \A k \in 1..Len(open') : open'[k].scope # symbols[i].inner
              /\ \/ TreeKept
                 \/ \E enc \in ScopeId, kind \in ScopeKind :
                       TreeGrown(enc, kind) /\ enc # symbols[i].inner
    PROVE  PrototypeInv'
  <1>1. Len(scopes) \in Nat /\ Len(symbols) \in Nat
    BY LenTypes
  <1>2. ASSUME NEW i \in 1..Len(symbols), Waiting(i), Waiting(i)'
        PROVE  /\ \A s \in ScopeId' :
                     s # symbols[i].inner => symbols[i].inner \notin scopes'[s].chain
               /\ \A u \in lookups' : u.scope # symbols[i].inner
               /\ \A k \in 1..Len(open') : open'[k].scope # symbols[i].inner
    <2>. DEFINE inner == symbols[i].inner
    <2>1. inner \in ScopeId
      BY <1>2 DEF SubroutineInv, Waiting
    <2>2. /\ \A s \in ScopeId : s # inner => inner \notin scopes[s].chain
          /\ \A u \in lookups : u.scope # inner
      BY <1>2 DEF PrototypeInv, Waiting
    <2>3. CASE TreeKept
      <3>1. ScopeId' = ScopeId
        BY <2>3 DEF TreeKept, ScopeId
      <3>. QED BY <1>2, <2>2, <3>1 DEF SameNode
    <2>4. ASSUME NEW enc \in ScopeId, NEW kind \in ScopeKind, TreeGrown(enc, kind), enc # inner
          PROVE  \A s \in ScopeId' : s # inner => inner \notin scopes'[s].chain
      <3>1. ScopeId' = ScopeId \cup {Len(scopes) + 1} /\ inner # Len(scopes) + 1
        BY <1>1, <2>1, <2>4 DEF TreeGrown, ScopeId
      <3>2. inner \notin scopes'[Len(scopes) + 1].chain
        BY <2>2, <2>4, <3>1 DEF TreeGrown
      <3>. QED BY <2>2, <3>1, <3>2 DEF SameNode
    <2>. QED BY <1>2, <2>2, <2>3, <2>4
  <1>3. ASSUME NEW i \in 1..Len(symbols'), symbols'[i].inner = Len(scopes) + 1,
               \A u \in lookups' : u.scope \in ScopeId, TreeGrown(Global, "subroutine"),
               \A k \in 1..Len(open') : open'[k].scope \in ScopeId
        PROVE  /\ \A s \in ScopeId' :
                     s # symbols'[i].inner => symbols'[i].inner \notin scopes'[s].chain
               /\ \A u \in lookups' : u.scope # symbols'[i].inner
               /\ \A k \in 1..Len(open') : open'[k].scope # symbols'[i].inner
    <2>. DEFINE new == Len(scopes) + 1
    <2>1. ScopeId' = ScopeId \cup {new} /\ new \notin ScopeId
      BY <1>1, <1>3 DEF TreeGrown, ScopeId
    <2>2. ASSUME NEW s \in ScopeId PROVE new \notin scopes'[s].chain
      <3>1. scopes'[s].chain \subseteq 1..s /\ s \in 1..Len(scopes)
        BY DEF TreeInv, SameNode, ScopeId
      <3>. QED BY <1>1, <3>1
    <2>. QED BY <1>3, <2>1, <2>2
  <1>. SUFFICES ASSUME NEW i \in 1..Len(symbols'), Waiting(i)'
                PROVE  /\ \A s \in ScopeId' :
                             s # symbols'[i].inner => symbols'[i].inner \notin scopes'[s].chain
                       /\ \A u \in lookups' : u.scope # symbols'[i].inner
                       /\ \A k \in 1..Len(open') : open'[k].scope # symbols'[i].inner
    BY DEF PrototypeInv, Waiting, IsSubroutine
  <1>4. CASE i \in 1..Len(symbols) /\ Waiting(i)
    <2>1. symbols'[i].inner = symbols[i].inner
      BY <1>4 DEF SymbolsKept
    <2>. QED BY <1>2, <1>4, <2>1
  <1>. QED BY <1>3, <1>4

-----------------------------------------------------------------------------
(* What a step does to the open visits.                                    *)

\* These are the open visits, perhaps with a body visited.
SameVisits(visit) ==
    /\ visit \in Seq(Visit) /\ Len(visit) = Len(open)
    /\ \A k \in 1..Len(open) : visit[k].scope = open[k].scope /\ visit[k].kind = open[k].kind

\* The visits stay, or one in a scope inside the current one is pushed, or
\* the innermost is popped.
OpenKept   == open' = open /\ current' = current
OpenPushed ==
    \E visit \in Seq(Visit), kind \in ScopeKind \ {"global"}, s \in ScopeId' \ {Global} :
        /\ SameVisits(visit) /\ current' = s
        /\ open' = Append(visit, Opened(kind, s))
        /\ scopes'[s].kind = kind /\ scopes'[s].enclosing = current
        /\ scopes'[s].chain = {s} \cup scopes[current].chain
OpenPopped ==
    /\ phase' = "defining" => Len(open) > 1
    /\ open' = SubSeq(open, 1, Len(open) - 1)
    /\ current' = scopes[current].enclosing

\* What push_scope makes of the call stack.
LEMMA PushedProps ==
    ASSUME NEW visit \in Seq(Visit), NEW kind \in ScopeKind, NEW s \in Nat,
           NEW pushed, pushed = Append(visit, Opened(kind, s))
    PROVE  /\ pushed \in Seq(Visit) /\ pushed # <<>> /\ Len(pushed) = Len(visit) + 1
           /\ \A k \in 1..Len(visit) : pushed[k] = visit[k]
           /\ pushed[Len(visit) + 1].kind = kind /\ pushed[Len(visit) + 1].scope = s
  <1>1. Opened(kind, s) \in Visit /\ Opened(kind, s).kind = kind /\ Opened(kind, s).scope = s
    BY DEF Opened, Visit
  <1>. DEFINE o == Opened(kind, s)
  <1>. HIDE DEF o
  <1>2. o \in Visit /\ o.kind = kind /\ o.scope = s /\ pushed = Append(visit, o)
    BY <1>1 DEF o
  <1>. QED BY <1>2

\* The path of the open visits is made longer or shorter.
LEMMA OpenStep ==
    ASSUME TypeOK, TreeInv, OpenInv, phase = "defining",
           \A s \in ScopeId : SameNode(s), ScopeId \subseteq ScopeId',
           OpenKept \/ OpenPushed \/ OpenPopped
    PROVE  OpenInv'
  <1>1. /\ open # <<>> /\ current = open[Len(open)].scope /\ Len(open) \in Nat
        /\ Len(open) \in 1..Len(open)
    BY CurrentProps, LenTypes
  <1>2. ASSUME NEW k \in 1..Len(open)
        PROVE  /\ open[k].scope \in ScopeId'
               /\ open[k].kind = scopes'[open[k].scope].kind
               /\ scopes'[open[k].scope].chain = {open[j].scope : j \in 1..k}
               /\ k = 1 <=> open[k].scope = Global
               /\ k = 1 <=> open[k].kind = "global"
               /\ k # 1 => scopes'[open[k].scope].enclosing = open[k - 1].scope
    BY DEF OpenInv, SameNode
  <1>3. CASE OpenKept
    BY <1>1, <1>2, <1>3 DEF OpenInv, OpenKept, Inner
  <1>4. CASE OpenPushed
    <2>1. PICK visit \in Seq(Visit), kind \in ScopeKind \ {"global"}, s \in ScopeId' \ {Global} :
              /\ SameVisits(visit) /\ current' = s
              /\ open' = Append(visit, Opened(kind, s))
              /\ scopes'[s].kind = kind /\ scopes'[s].enclosing = current
              /\ scopes'[s].chain = {s} \cup scopes[current].chain
      BY <1>4 DEF OpenPushed
    <2>. DEFINE new == Len(open) + 1
    <2>2. /\ open' # <<>> /\ Len(open') = new
          /\ \A k \in 1..Len(open) : open'[k].scope = open[k].scope /\ open'[k].kind = open[k].kind
          /\ open'[new].kind = kind /\ open'[new].scope = s
      <3>1. s \in Nat
        BY DEF ScopeId
      <3>. QED BY <2>1, <3>1, PushedProps DEF SameVisits
    <2>3. ASSUME NEW k \in 1..Len(open)
          PROVE  {open'[j].scope : j \in 1..k} = {open[j].scope : j \in 1..k}
      <3>1. \A j \in 1..k : j \in 1..Len(open)
        BY <1>1
      <3>2. \A j \in 1..k : open'[j].scope = open[j].scope
        BY <2>2, <3>1
      <3>. QED BY ONLY <3>2
    <2>4. ASSUME NEW k \in 1..Len(open)
          PROVE  /\ open'[k].scope \in ScopeId'
                 /\ open'[k].kind = scopes'[open'[k].scope].kind
                 /\ scopes'[open'[k].scope].chain = {open'[j].scope : j \in 1..k}
                 /\ k = 1 <=> open'[k].scope = Global
                 /\ k = 1 <=> open'[k].kind = "global"
                 /\ k # 1 => scopes'[open'[k].scope].enclosing = open'[k - 1].scope
      <3>1. k # 1 => k - 1 \in 1..Len(open)
        BY <1>1
      <3>2. /\ open'[k].scope = open[k].scope /\ open'[k].kind = open[k].kind
            /\ k # 1 => open'[k - 1].scope = open[k - 1].scope
        BY <2>2, <3>1
      <3>3. {open'[j].scope : j \in 1..k} = {open[j].scope : j \in 1..k}
        BY <2>3
      <3>. QED BY ONLY <1>2, <3>2, <3>3, k \in 1..Len(open)
    <2>5. scopes'[s].chain = {open'[j].scope : j \in 1..new}
      <3>1. scopes[current].chain = {open[j].scope : j \in 1..Len(open)}
        BY CurrentProps
      <3>2. 1..new = 1..Len(open) \cup {new}
        BY <1>1
      <3>. QED BY <2>1, <2>2, <3>1, <3>2
    <2>6. /\ open'[new].kind = scopes'[open'[new].scope].kind
          /\ open'[new].scope # Global /\ open'[new].kind # "global" /\ new # 1
          /\ open'[new].scope \in ScopeId'
          /\ scopes'[open'[new].scope].enclosing = open'[new - 1].scope
      BY <1>1, <2>1, <2>2
    <2>7. \A k \in 1..Len(open') : k \in 1..Len(open) \/ k = new
      BY <1>1, <2>2
    <2>8. current' = open'[Len(open')].scope
      BY <2>1, <2>2
    <2>. QED BY <2>2, <2>4, <2>5, <2>6, <2>7, <2>8 DEF OpenInv, Inner
  <1>5. CASE OpenPopped
    <2>. SUFFICES ASSUME phase' = "defining" PROVE OpenInv'
      BY DEF OpenInv
    <2>. DEFINE m == Len(open) - 1
    <2>1. /\ m \in 1..Len(open) /\ Len(open) # 1 /\ open' = SubSeq(open, 1, m)
          /\ current' = scopes[current].enclosing
      BY <1>1, <1>5 DEF OpenPopped
    <2>2. /\ Len(open') = m /\ open' # <<>>
          /\ \A k \in 1..m : open'[k] = open[k] /\ k \in 1..Len(open)
      <3>1. open \in Seq(Visit) /\ m \in Nat /\ m <= Len(open)
        BY <1>1, <2>1 DEF TypeOK
      <3>2. Len(open') = m
        BY <1>1, <2>1, <3>1
      <3>3. \A k \in 1..m : open'[k] = open[k]
        BY <1>1, <2>1, <3>1
      <3>4. \A k \in 1..m : k \in 1..Len(open)
        BY <1>1, <2>1
      <3>5. open' # <<>>
        <4>1. m # 0
          BY <1>1, <2>1
        <4>. HIDE DEF m
        <4>. QED BY ONLY <3>2, <4>1
      <3>. QED BY <3>2, <3>3, <3>4, <3>5
    <2>3. current' = open'[m].scope
      BY <1>1, <2>1, <2>2 DEF OpenInv
    <2>4. \A k \in 1..m : {open'[j].scope : j \in 1..k} = {open[j].scope : j \in 1..k}
      BY <1>1, <2>2
    <2>5. ASSUME NEW k \in 1..m
          PROVE  /\ open'[k].scope \in ScopeId'
                 /\ open'[k].kind = scopes'[open'[k].scope].kind
                 /\ scopes'[open'[k].scope].chain = {open'[j].scope : j \in 1..k}
                 /\ k = 1 <=> open'[k].scope = Global
                 /\ k = 1 <=> open'[k].kind = "global"
                 /\ k # 1 => scopes'[open'[k].scope].enclosing = open'[k - 1].scope
      <3>1. k # 1 => k - 1 \in 1..m
        BY <1>1, <2>1
      <3>2. /\ open'[k].scope = open[k].scope /\ open'[k].kind = open[k].kind
            /\ k # 1 => open'[k - 1].scope = open[k - 1].scope
            /\ k \in 1..Len(open)
        BY <2>2, <3>1
      <3>3. {open'[j].scope : j \in 1..k} = {open[j].scope : j \in 1..k}
        BY <2>4
      <3>. QED BY ONLY <1>2, <3>2, <3>3
    <2>. QED BY <2>2, <2>3, <2>5 DEF OpenInv, Inner
  <1>. QED BY <1>3, <1>4, <1>5

-----------------------------------------------------------------------------
(* The data the steps are made of.                                         *)

\* emplace defines a new name and leaves an old one.
LEMMA DefineProps ==
    ASSUME NEW names \in [Name -> Nat], NEW n \in Name, NEW i \in Nat,
           NEW d, d = Define(names, n, i)
    PROVE  /\ d \in [Name -> Nat]
           /\ names[n] = 0 => d[n] = i
           /\ \A m \in Name : m # n \/ names[n] # 0 => d[m] = names[m]
  BY DEF Define

\* A scope is given other names.
LEMMA NamesSet ==
    ASSUME NEW q \in Seq(Scope), NEW s \in 1..Len(q), NEW names \in [Name -> Nat],
           NEW r, r = [q EXCEPT ![s].names = names]
    PROVE  /\ r \in Seq(Scope) /\ Len(r) = Len(q)
           /\ \A v \in 1..Len(q) : /\ r[v].kind = q[v].kind
                                   /\ r[v].enclosing = q[v].enclosing
                                   /\ r[v].chain = q[v].chain
                                   /\ r[v].names = IF v = s THEN names ELSE q[v].names
  <1>1. \A v \in 1..Len(q) : q[v] \in Scope
    OBVIOUS
  <1>. DEFINE x == [q[s] EXCEPT !.names = names]
  <1>2. /\ x \in Scope /\ x.kind = q[s].kind /\ x.enclosing = q[s].enclosing
        /\ x.chain = q[s].chain /\ x.names = names
    BY <1>1 DEF Scope
  <1>3. r = [q EXCEPT ![s] = x]
    OBVIOUS
  <1>. HIDE DEF x
  <1>4. r \in Seq(Scope) /\ Len(r) = Len(q)
    <2>1. x \in Scope /\ q \in Seq(Scope) /\ s \in 1..Len(q)
      BY <1>2
    <2>2. [q EXCEPT ![s] = x] \in Seq(Scope)
      BY ONLY <2>1, ExceptSeq
    <2>3. Len([q EXCEPT ![s] = x]) = Len(q)
      BY ONLY <2>1, ExceptSeq
    <2>. QED BY <1>3, <2>2, <2>3
  <1>5. \A v \in 1..Len(q) : r[v] = IF v = s THEN x ELSE q[v]
    BY <1>2, <1>3, ExceptSeq
  <1>. QED BY <1>2, <1>4, <1>5

\* The scope that is pushed.
LEMMA NewScopeProps ==
    ASSUME TypeOK, NEW kind \in ScopeKind, NEW enc \in ScopeId, NEW names \in [Name -> Nat],
           NEW x, x = NewScope(kind, enc, names)
    PROVE  /\ x \in Scope /\ x.kind = kind /\ x.enclosing = enc /\ x.names = names
           /\ x.chain = {Len(scopes) + 1} \cup scopes[enc].chain
  <1>1. Len(scopes) \in Nat /\ enc \in Nat /\ scopes[enc] \in Scope
    BY LenTypes DEF ScopeId, TypeOK
  <1>2. {Len(scopes) + 1} \cup scopes[enc].chain \in SUBSET Nat
    BY <1>1 DEF Scope
  <1>. QED BY <1>1, <1>2 DEF NewScope, Scope

\* A scope is put behind others.
LEMMA ScopeAdded ==
    ASSUME NEW q \in Seq(Scope), NEW x \in Scope, NEW r, r = Append(q, x)
    PROVE  /\ r \in Seq(Scope) /\ Len(r) = Len(q) + 1 /\ r # <<>>
           /\ \A v \in 1..Len(q) : r[v] = q[v]
           /\ r[Len(q) + 1] = x
  <1>1. /\ r \in Seq(Scope) /\ Len(r) = Len(q) + 1 /\ Len(q) \in Nat
        /\ \A v \in 1..Len(q) : r[v] = q[v]
        /\ r[Len(q) + 1] = x
    OBVIOUS
  <1>2. r # <<>>
    BY <1>1
  <1>. QED BY <1>1, <1>2

\* The parameters of a subroutine.
LEMMA ParamProps ==
    ASSUME NEW params \in Params, NEW i \in Nat, NEW names, names = ParamNames(params, i)
    PROVE  /\ names \in [Name -> Nat]
           /\ \A n \in Name : names[n] # 0 =>
                 \E j \in 1..Len(params) : params[j] = n /\ names[n] = i + j
  <1>1. PICK k \in 0..MaxParams : params \in [1..k -> Name]
    BY DEF Params
  <1>2. k \in Nat /\ DOMAIN params = 1..k /\ Len(params) = k
    BY <1>1, SymbolTableAssumption
  <1>3. ASSUME NEW n \in Name
        PROVE  \/ names[n] = 0
               \/ \E j \in 1..k : params[j] = n /\ names[n] = i + j
    <2>1. CASE \A j \in 1..k : params[j] # n
      BY <1>2, <2>1 DEF ParamNames
    <2>2. CASE \E j \in 1..k : params[j] = n
      <3>. DEFINE J == {j \in Nat : j \in 1..k /\ params[j] = n}
      <3>1. J # {} /\ J \subseteq Nat
        BY <2>2
      <3>2. \E j \in J : \A m \in J : ~(<<m, j>> \in OpToRel(<, Nat))
        BY <3>1, NatLessThanWellFounded, WFMin
      <3>3. PICK j \in J : \A m \in J : ~(m < j)
        BY <3>2 DEF OpToRel
      <3>. DEFINE P(x) == params[x] = n /\ \A m \in 1..(x - 1) : params[m] # n
      <3>4. j \in 1..k /\ P(j)
        BY <1>2, <3>3
      <3>. DEFINE c == CHOOSE x \in 1..k : P(x)
      <3>5. c \in 1..k /\ P(c)
        BY <3>4
      <3>6. names[n] = i + c
        BY <1>2, <2>2 DEF ParamNames
      <3>. QED BY <3>5, <3>6
    <2>. QED BY <2>1, <2>2
  <1>4. ASSUME NEW n \in Name PROVE names[n] \in Nat
    <2>1. \A j \in 1..k : i + j \in Nat
      BY <1>2
    <2>. QED BY <1>3, <2>1
  <1>5. names \in [Name -> Nat]
    <2>. DEFINE number(n) == IF \A j \in DOMAIN params : params[j] # n THEN 0
                             ELSE i + CHOOSE j \in DOMAIN params :
                                     /\ params[j] = n
                                     /\ \A m \in 1..(j - 1) : params[m] # n
    <2>1. names = [n \in Name |-> number(n)]
      BY DEF ParamNames
    <2>. HIDE DEF number
    <2>. QED BY <1>4, <2>1
  <1>. QED BY <1>2, <1>3, <1>5

\* The symbols of the parameters.
LEMMA ParamSymbolsProps ==
    ASSUME NEW params \in Params, NEW s \in Nat, NEW q, q = ParamSymbols(params, s)
    PROVE  /\ q \in Seq(Symbol) /\ Len(q) = Len(params) /\ Len(params) \in Nat
           /\ \A j \in 1..Len(q) : /\ q[j].name = params[j] /\ q[j].scope = s
                                   /\ q[j].kind = "variable"
  <1>1. PICK k \in 0..MaxParams : params \in [1..k -> Name]
    BY DEF Params
  <1>2. k \in Nat /\ DOMAIN params = 1..k /\ Len(params) = k
    BY <1>1, SymbolTableAssumption
  <1>3. \A j \in 1..k : Variable(params[j], s) \in Symbol
    BY <1>1 DEF Variable, Symbol, SymbolKind
  <1>4. q = [j \in 1..k |-> Variable(params[j], s)]
    BY <1>2 DEF ParamSymbols
  <1>5. q \in Seq(Symbol) /\ Len(q) = k
    BY <1>2, <1>3, <1>4
  <1>. QED BY <1>2, <1>4, <1>5 DEF Variable

\* A variable is made.
LEMMA VariableAdded ==
    ASSUME TypeOK, NEW n \in Name, NEW s \in Nat, symbols' = Append(symbols, Variable(n, s))
    PROVE  /\ symbols' \in Seq(Symbol) /\ Len(symbols') = Len(symbols) + 1 /\ SymbolsKept
           /\ symbols'[Len(symbols) + 1].name = n /\ symbols'[Len(symbols) + 1].scope = s
           /\ \A i \in 1..Len(symbols') :
                 i \in 1..Len(symbols) \/ symbols'[i].kind = "variable"
           /\ \A i \in 1..Len(symbols') : Waiting(i)' => i \in 1..Len(symbols) /\ Waiting(i)
  <1>. DEFINE x == Variable(n, s)
  <1>1. /\ x \in Symbol /\ x.name = n /\ x.scope = s /\ x.kind = "variable"
        /\ symbols' = Append(symbols, x)
    BY DEF Variable, Symbol, SymbolKind
  <1>. HIDE DEF x
  <1>2. symbols \in Seq(Symbol) /\ Len(symbols) \in Nat
    BY LenTypes DEF TypeOK
  <1>3. /\ symbols' \in Seq(Symbol) /\ Len(symbols') = Len(symbols) + 1
        /\ \A i \in 1..Len(symbols) : symbols'[i] = symbols[i]
        /\ symbols'[Len(symbols) + 1] = x
    BY <1>1, <1>2
  <1>4. \A i \in 1..Len(symbols') : i \in 1..Len(symbols) \/ symbols'[i] = x
    BY <1>2, <1>3
  <1>. QED BY <1>1, <1>3, <1>4 DEF SymbolsKept, Waiting, IsSubroutine

\* No symbol is made.
LEMMA SymbolsUnchanged ==
    ASSUME UNCHANGED symbols
    PROVE  /\ SymbolsKept
           /\ \A i \in 1..Len(symbols') : i \in 1..Len(symbols)
           /\ \A i \in 1..Len(symbols') : Waiting(i)' => Waiting(i)
  BY DEF SymbolsKept, Waiting, IsSubroutine

-----------------------------------------------------------------------------
(* The steps.                                                              *)

\* A step that at most ends the walk.
Idle ==
    /\ UNCHANGED <<scopes, current, symbols, domain_variable, open, closed, lookups>>
    /\ phase' \in {"defining", "rejected", "crashed", "done"}
    /\ phase' = "defining" => phase = "defining"
    /\ nodes' \in Nat

\* Such a step keeps the invariant.
LEMMA IdleStep ==
    ASSUME IInv, Idle
    PROVE  IInv'
  <1>. USE DEF IInv, Idle
  <1>1. TypeOK'
    BY DEF TypeOK
  <1>2. TreeInv' /\ NamesInv' /\ SubroutineInv'
    BY DEF TreeInv, NamesInv, SubroutineInv, ScopeId, IsSubroutine
  <1>3. OpenInv'
    BY DEF OpenInv, ScopeId, Inner
  <1>4. PrototypeInv' /\ OwnInv'
    BY DEF PrototypeInv, OwnInv, ScopeId, IsSubroutine
  <1>5. ASSUME DeclRule = "first" PROVE ClosedInv' /\ OuterInv'
    BY <1>5 DEF ClosedInv, OuterInv, Found, Settled
  <1>. QED BY <1>1, <1>2, <1>3, <1>4, <1>5

\* The invariant holds when the walk begins.
LEMMA InitIInv ==
    ASSUME Init
    PROVE  IInv
  <1>. DEFINE root == [kind |-> "global", enclosing |-> 0, chain |-> {Global},
                       names |-> Nameless]
  <1>1. /\ root \in Scope /\ root.kind = "global" /\ root.enclosing = 0
        /\ root.chain = {Global} /\ \A n \in Name : root.names[n] = 0
    BY DEF Scope, ScopeKind, Global, Nameless
  <1>. DEFINE visit == Opened("global", Global)
  <1>2. visit \in Visit /\ visit.kind = "global" /\ visit.scope = Global
    BY DEF Opened, Visit, ScopeKind, Global
  <1>3. scopes = <<root>> /\ open = <<visit>> /\ symbols = <<>>
    BY DEF Init
  <1>. HIDE DEF root, visit
  <1>4. /\ scopes \in Seq(Scope) /\ scopes # <<>> /\ Len(scopes) = 1 /\ scopes[1] = root
        /\ open \in Seq(Visit) /\ open # <<>> /\ Len(open) = 1 /\ open[1] = visit
        /\ symbols \in Seq(Symbol) /\ Len(symbols) = 0
    BY <1>1, <1>2, <1>3
  <1>5. /\ current = 1 /\ domain_variable = NoName /\ closed = {} /\ lookups = {}
        /\ phase = "defining" /\ nodes = 0
    BY DEF Init, Global
  <1>6. TypeOK
    BY <1>4, <1>5 DEF TypeOK
  <1>7. ScopeId = {1} /\ 1..Len(symbols) = {} /\ 1..Len(open) = {1}
    BY <1>4 DEF ScopeId
  <1>8. TreeInv
    BY <1>1, <1>4, <1>7 DEF TreeInv, Global
  <1>9. NamesInv /\ SubroutineInv /\ PrototypeInv /\ OwnInv /\ OuterInv
    BY <1>1, <1>4, <1>5, <1>7 DEF NamesInv, SubroutineInv, PrototypeInv, OwnInv, OuterInv
  <1>10. OpenInv
    <2>1. {open[j].scope : j \in 1..1} = {1}
      BY <1>2, <1>4 DEF Global
    <2>. QED BY <1>1, <1>2, <1>4, <1>5, <1>7, <2>1 DEF OpenInv, Inner, Global
  <1>11. ClosedInv
    BY <1>4 DEF ClosedInv
  <1>. QED BY <1>6, <1>8, <1>9, <1>10, <1>11 DEF IInv

\* Where a statement stands.
LEMMA AtStatProps ==
    ASSUME IInv, NEW kinds, AtStat(kinds)
    PROVE  /\ phase = "defining" /\ nodes' \in Nat /\ Inner.kind \in kinds
           /\ current \in ScopeId /\ current \in Nat
           /\ scopes[current].kind = Inner.kind /\ current \in scopes[current].chain
           /\ \A i \in 1..Len(symbols) : Waiting(i) => current # symbols[i].inner
  <1>. USE DEF IInv
  <1>1. phase = "defining" /\ nodes' \in Nat /\ Inner.kind \in kinds
    BY DEF AtStat, TypeOK
  <1>2. /\ current \in ScopeId /\ Len(open) \in 1..Len(open)
        /\ current = open[Len(open)].scope
    BY <1>1, CurrentProps
  <1>3. current \in Nat
    BY <1>2, LenTypes DEF ScopeId
  <1>4. scopes[current].kind = Inner.kind
    BY <1>1, <1>2 DEF OpenInv, Inner
  <1>5. current \in scopes[current].chain
    BY <1>2 DEF TreeInv
  <1>6. \A i \in 1..Len(symbols) : Waiting(i) => current # symbols[i].inner
    BY <1>2 DEF PrototypeInv, Waiting
  <1>. QED BY <1>1, <1>2, <1>3, <1>4, <1>5, <1>6

\* A statement without a block ends the declarations of its block, in the
\* programs whose declarations come first every statement does.
LEMMA ClosesProps ==
    ASSUME TypeOK, current \in Nat, NEW has_block \in BOOLEAN
    PROVE  /\ Closes(has_block) \in SUBSET Nat /\ closed \subseteq Closes(has_block)
           /\ ~has_block \/ DeclRule = "first" => current \in Closes(has_block)
  BY SymbolTableAssumption DEF Closes, TypeOK

\* The scopes around a statement are settled once its own block is.
LEMMA SettledAround ==
    ASSUME IInv, DeclRule = "first", phase = "defining", closed \subseteq closed',
           current \in closed', \A s \in ScopeId : SameNode(s)
    PROVE  \A v \in scopes[current].chain : v # Global => Settled(v)'
  <1>. USE DEF IInv
  <1>. SUFFICES ASSUME NEW v \in scopes[current].chain, v # Global
                PROVE  Settled(v)'
    OBVIOUS
  <1>1. /\ scopes[current].chain = {open[j].scope : j \in 1..Len(open)}
        /\ current = open[Len(open)].scope
        /\ v \in ScopeId
    BY CurrentProps
  <1>2. PICK k \in 1..Len(open) : v = open[k].scope
    BY <1>1
  <1>3. Len(open) \in Nat /\ k # 1
    BY <1>2, LenTypes DEF OpenInv
  <1>4. CASE k = Len(open)
    BY <1>1, <1>2, <1>4 DEF Settled
  <1>5. CASE k # Len(open)
    <2>1. k \in 2..(Len(open) - 1)
      BY <1>3, <1>5
    <2>2. Settled(v)
      BY <1>2, <2>1 DEF ClosedInv
    <2>. QED BY <1>1, <2>2 DEF Settled, SameNode
  <1>. QED BY <1>4, <1>5

\* What resolve returns is found again from the current scope.
LEMMA FoundAround ==
    ASSUME IInv, DeclRule = "first", phase = "defining", closed \subseteq closed',
           current \in closed', UNCHANGED scopes,
           NEW n \in Name, NEW i \in Resolve(current, n), NEW how,
           NEW u, u = LookedUp(how, current, n, i)
    PROVE  \E t \in scopes'[u.scope].chain : Found(u, t)'
  <1>. USE DEF IInv
  <1>1. u.scope = current /\ u.name = n /\ u.symbol = i
    BY DEF LookedUp
  <1>2. current \in ScopeId /\ \A v \in scopes[current].chain : v \in ScopeId
    BY CurrentProps
  <1>3. PICK t \in scopes[current].chain :
            /\ scopes[t].names[n] = i
            /\ \A v \in scopes[current].chain : v > t => scopes[v].names[n] = 0
    BY <1>2, ResolveProps
  <1>4. \A v \in scopes[current].chain : v > t => v # Global
    BY <1>2, <1>3, LenTypes DEF ScopeId, Global
  <1>5. \A v \in scopes[current].chain : v # Global => Settled(v)'
    BY SettledAround DEF SameNode
  <1>6. t \in scopes'[u.scope].chain /\ Found(u, t)'
    BY <1>1, <1>3, <1>4, <1>5 DEF Found
  <1>. QED BY <1>6

\* A step that only looks names up.
LEMMA LookupsStep ==
    ASSUME IInv, phase = "defining", nodes' \in Nat,
           UNCHANGED <<scopes, current, symbols, domain_variable, open, phase>>,
           closed' \in SUBSET Nat, closed \subseteq closed', lookups \subseteq lookups',
           \A u \in lookups' \ lookups :
              /\ u \in Lookup /\ u.scope \in ScopeId /\ u.symbol # 0
              /\ u.how \notin {"assign", "call"} => scopes[u.scope].names[u.name] = u.symbol
              /\ \A i \in 1..Len(symbols) : Waiting(i) => u.scope # symbols[i].inner
              /\ DeclRule = "first" /\ u.how = "assign" =>
                    \E t \in scopes'[u.scope].chain : Found(u, t)'
    PROVE  IInv'
  <1>. USE DEF IInv
  <1>1. TypeOK'
    BY DEF TypeOK
  <1>2. TreeInv' /\ NamesInv' /\ SubroutineInv'
    BY DEF TreeInv, NamesInv, SubroutineInv, ScopeId, IsSubroutine
  <1>3. OpenInv'
    BY DEF OpenInv, ScopeId, Inner
  <1>4. PrototypeInv'
    BY DEF PrototypeInv, ScopeId, IsSubroutine, Waiting
  <1>5. OwnInv'
    BY OwnStep DEF ScopeId
  <1>6. ASSUME DeclRule = "first" PROVE ClosedInv' /\ OuterInv'
    <2>1. ClosedInv'
      BY <1>6 DEF ClosedInv, Settled
    <2>2. OuterInv'
      BY <1>6, OuterStep DEF SameNode
    <2>. QED BY <2>1, <2>2
  <1>. QED BY <1>1, <1>2, <1>3, <1>4, <1>5, <1>6

\* A thrown SymbolError.
LEMMA RejectStep ==
    ASSUME IInv, NEW kinds, AtStat(kinds), Reject
    PROVE  IInv'
  BY AtStatProps, IdleStep DEF Reject, Idle

\* An assignment or a call.
LEMMA NameStatStep ==
    ASSUME IInv, NEW how \in {"assign", "call"}, NEW n \in Name, NEW e \in Expr,
           NameStat(how, n, e)
    PROVE  IInv'
  <1>1. AtStat({"local"})
    BY DEF NameStat
  <1>2. CASE Resolve(current, n) = {} \/ ~ExprAccepted(current, e)
    BY <1>1, <1>2, RejectStep DEF NameStat
  <1>3. CASE ~(Resolve(current, n) = {} \/ ~ExprAccepted(current, e))
    <2>1. /\ lookups' = lookups \cup {LookedUp(how, current, n, i) : i \in Resolve(current, n)}
                                \cup ExprLookups(current, e)
          /\ closed' = Closes(FALSE)
          /\ UNCHANGED <<scopes, current, symbols, domain_variable, open, phase>>
      BY <1>3 DEF NameStat
    <2>2. /\ phase = "defining" /\ nodes' \in Nat /\ current \in ScopeId /\ current \in Nat
          /\ \A i \in 1..Len(symbols) : Waiting(i) => current # symbols[i].inner
      BY <1>1, AtStatProps
    <2>3. closed' \in SUBSET Nat /\ closed \subseteq closed' /\ current \in closed'
      BY <2>1, <2>2, ClosesProps DEF IInv
    <2>4. ASSUME NEW i \in Resolve(current, n), NEW u, u = LookedUp(how, current, n, i)
          PROVE  /\ u \in Lookup /\ u.scope \in ScopeId /\ u.symbol # 0
                 /\ u.how \in {"assign", "call"}
                 /\ \A j \in 1..Len(symbols) : Waiting(j) => u.scope # symbols[j].inner
                 /\ DeclRule = "first" => \E t \in scopes'[u.scope].chain : Found(u, t)'
      <3>1. u.how = how /\ u.scope = current /\ u.name = n /\ u.symbol = i
        BY <2>4 DEF LookedUp
      <3>2. i \in 1..Len(symbols)
        BY <2>2, ResolveProps DEF IInv
      <3>3. i \in Nat /\ i # 0
        BY <3>2, LenTypes DEF IInv
      <3>4. u \in Lookup
        BY <2>2, <2>4, <3>3 DEF LookedUp, Lookup
      <3>5. DeclRule = "first" => \E t \in scopes'[u.scope].chain : Found(u, t)'
        BY <2>1, <2>2, <2>3, <2>4, FoundAround
      <3>. QED BY <2>2, <3>1, <3>3, <3>4, <3>5
    <2>5. ASSUME NEW u \in ExprLookups(current, e)
          PROVE  /\ u \in Lookup /\ u.scope \in ScopeId /\ u.symbol # 0 /\ u.how = "id"
                 /\ scopes[u.scope].names[u.name] = u.symbol
                 /\ \A j \in 1..Len(symbols) : Waiting(j) => u.scope # symbols[j].inner
      BY <2>2, ExprLookupsProps DEF IInv, Waiting
    <2>6. \A u \in lookups' \ lookups :
              \/ \E i \in Resolve(current, n) : u = LookedUp(how, current, n, i)
              \/ u \in ExprLookups(current, e)
      BY <2>1
    <2>7. \A u \in lookups' \ lookups :
              /\ u \in Lookup /\ u.scope \in ScopeId /\ u.symbol # 0
              /\ u.how \notin {"assign", "call"} => scopes[u.scope].names[u.name] = u.symbol
              /\ \A i \in 1..Len(symbols) : Waiting(i) => u.scope # symbols[i].inner
              /\ DeclRule = "first" /\ u.how = "assign" =>
                    \E t \in scopes'[u.scope].chain : Found(u, t)'
      BY <2>4, <2>5, <2>6
    <2>. QED BY <2>1, <2>2, <2>3, <2>7, LookupsStep
  <1>. QED BY <1>2, <1>3

\* An output, an input or a return.
LEMMA ExprStatStep ==
    ASSUME IInv, NEW e \in Name, ExprStat(e)
    PROVE  IInv'
  <1>1. AtStat({"local"}) /\ e \in Expr
    BY DEF ExprStat, Expr
  <1>2. CASE ~ExprAccepted(current, e)
    BY <1>1, <1>2, RejectStep DEF ExprStat
  <1>3. CASE ExprAccepted(current, e)
    <2>1. /\ lookups' = lookups \cup ExprLookups(current, e)
          /\ closed' = Closes(FALSE)
          /\ UNCHANGED <<scopes, current, symbols, domain_variable, open, phase>>
      BY <1>3 DEF ExprStat
    <2>2. phase = "defining" /\ nodes' \in Nat /\ current \in ScopeId /\ current \in Nat
      BY <1>1, AtStatProps
    <2>3. closed' \in SUBSET Nat /\ closed \subseteq closed'
      BY <2>1, <2>2, ClosesProps DEF IInv
    <2>4. \A u \in lookups' \ lookups :
              /\ u \in Lookup /\ u.scope \in ScopeId /\ u.symbol # 0 /\ u.how = "id"
              /\ scopes[u.scope].names[u.name] = u.symbol
              /\ \A j \in 1..Len(symbols) : Waiting(j) => u.scope # symbols[j].inner
      BY <1>1, <2>1, <2>2, ExprLookupsProps DEF IInv, Waiting
    <2>5. \A u \in lookups' \ lookups :
              /\ u \in Lookup /\ u.scope \in ScopeId /\ u.symbol # 0
              /\ u.how \notin {"assign", "call"} => scopes[u.scope].names[u.name] = u.symbol
              /\ \A i \in 1..Len(symbols) : Waiting(i) => u.scope # symbols[i].inner
              /\ DeclRule = "first" /\ u.how = "assign" =>
                    \E t \in scopes'[u.scope].chain : Found(u, t)'
      BY <2>4
    <2>. QED BY <2>1, <2>2, <2>3, <2>5, LookupsStep
  <1>. QED BY <1>2, <1>3

\* A declaration: the name is new in its scope, which is not settled.
LEMMA DeclStep ==
    ASSUME IInv, NEW n \in Name, NEW e \in Expr, NEW c \in Expr, Decl(n, e, c)
    PROVE  IInv'
  <1>. DEFINE i == Len(symbols) + 1
  <1>1. AtStat({"global", "local"}) /\ current \notin closed
    BY DEF Decl
  <1>2. CASE scopes[current].names[n] # 0 \/ ~ExprAccepted(current, e) \/ ~CallAccepted(c)
    BY <1>1, <1>2, RejectStep DEF Decl
  <1>3. CASE ~(scopes[current].names[n] # 0 \/ ~ExprAccepted(current, e) \/ ~CallAccepted(c))
    <2>1. /\ lookups' = lookups \cup ExprLookups(current, e) \cup CallLookups(current, c)
                                \cup {LookedUp("decl", current, n, i)}
          /\ symbols' = Append(symbols, Variable(n, current))
          /\ scopes' = [scopes EXCEPT ![current].names = Define(@, n, i)]
          /\ UNCHANGED <<current, domain_variable, open, closed, phase>>
          /\ scopes[current].names[n] = 0
      BY <1>3 DEF Decl
    <2>2. /\ phase = "defining" /\ nodes' \in Nat /\ current \in ScopeId /\ current \in Nat
          /\ scopes[current].kind \in {"global", "local"}
          /\ \A j \in 1..Len(symbols) : Waiting(j) => current # symbols[j].inner
      BY <1>1, AtStatProps
    <2>3. Len(scopes) \in Nat /\ Len(symbols) \in Nat /\ i \in Nat /\ i # 0
      BY LenTypes DEF IInv
    <2>4. PICK d \in [Name -> Nat] :
              /\ d = Define(scopes[current].names, n, i)
              /\ d[n] = i /\ \A m \in Name : m # n => d[m] = scopes[current].names[m]
      <3>1. scopes \in Seq(Scope) /\ current \in 1..Len(scopes)
        BY <2>2 DEF IInv, TypeOK, ScopeId
      <3>2. scopes[current] \in Scope
        BY <3>1
      <3>3. PICK names \in [Name -> Nat] : names = scopes[current].names
        BY <3>2 DEF Scope
      <3>4. PICK d : d = Define(names, n, i)
        OBVIOUS
      <3>5. i \in Nat /\ names[n] = 0
        BY <2>1, <2>3, <3>3
      <3>. HIDE DEF i
      <3>6. /\ d \in [Name -> Nat] /\ d[n] = i
            /\ \A m \in Name : m # n => d[m] = names[m]
        BY <3>4, <3>5, DefineProps
      <3>. QED BY <3>3, <3>4, <3>6
    <2>5. /\ scopes' \in Seq(Scope) /\ Len(scopes') = Len(scopes) /\ scopes' # <<>>
          /\ \A s \in ScopeId : SameNode(s)
          /\ \A s \in ScopeId : scopes'[s].names = IF s = current THEN d ELSE scopes[s].names
      <3>1. scopes' = [scopes EXCEPT ![current].names = d]
        BY <2>1, <2>4
      <3>2. scopes \in Seq(Scope) /\ scopes # <<>> /\ current \in 1..Len(scopes)
        BY <2>2 DEF IInv, TypeOK, ScopeId
      <3>3. /\ scopes' \in Seq(Scope) /\ Len(scopes') = Len(scopes)
            /\ \A v \in 1..Len(scopes) :
                  /\ scopes'[v].kind = scopes[v].kind
                  /\ scopes'[v].enclosing = scopes[v].enclosing
                  /\ scopes'[v].chain = scopes[v].chain
                  /\ scopes'[v].names = IF v = current THEN d ELSE scopes[v].names
        <4>1. d \in [Name -> Nat]
          OBVIOUS
        <4>2. scopes' \in Seq(Scope)
          BY ONLY <3>1, <3>2, <4>1, NamesSet
        <4>3. Len(scopes') = Len(scopes)
          BY ONLY <3>1, <3>2, <4>1, NamesSet
        <4>4. \A v \in 1..Len(scopes) :
                  /\ scopes'[v].kind = scopes[v].kind
                  /\ scopes'[v].enclosing = scopes[v].enclosing
                  /\ scopes'[v].chain = scopes[v].chain
                  /\ scopes'[v].names = IF v = current THEN d ELSE scopes[v].names
          BY ONLY <3>1, <3>2, <4>1, NamesSet
        <4>. QED BY <4>2, <4>3, <4>4
      <3>4. Len(scopes) # 0
        BY <3>2
      <3>5. scopes' # <<>>
        BY ONLY <3>3, <3>4
      <3>. QED BY <3>3, <3>5 DEF SameNode, ScopeId
    <2>6. TreeKept /\ ScopeId' = ScopeId
      BY <2>5 DEF TreeKept, ScopeId
    <2>7. /\ symbols' \in Seq(Symbol) /\ Len(symbols') = i /\ SymbolsKept
          /\ symbols'[i].name = n /\ symbols'[i].scope = current
          /\ \A j \in 1..Len(symbols') : j \in 1..Len(symbols) \/ symbols'[j].kind = "variable"
          /\ \A j \in 1..Len(symbols') : Waiting(j)' => j \in 1..Len(symbols) /\ Waiting(j)
      BY <2>1, <2>2, VariableAdded DEF IInv
    <2>8. ASSUME NEW u \in lookups' \ lookups
          PROVE  /\ u \in Lookup /\ u.scope \in ScopeId /\ u.symbol # 0
                 /\ u.how \in {"id", "decl", "call"}
                 /\ u.how # "call" => scopes'[u.scope].names[u.name] = u.symbol
                 /\ \A j \in 1..Len(symbols) : Waiting(j) => u.scope # symbols[j].inner
      <3>1. CASE u = LookedUp("decl", current, n, i)
        <4>1. u.how = "decl" /\ u.scope = current /\ u.name = n /\ u.symbol = i
          BY <3>1 DEF LookedUp
        <4>2. u \in Lookup
          BY <2>2, <2>3, <3>1 DEF LookedUp, Lookup
        <4>3. scopes'[u.scope].names[u.name] = u.symbol
          BY <2>2, <2>4, <2>5, <4>1
        <4>. QED BY <2>2, <2>3, <4>1, <4>2, <4>3
      <3>2. CASE u \in ExprLookups(current, e)
        <4>1. /\ u \in Lookup /\ u.how = "id" /\ u.scope \in ScopeId /\ u.symbol # 0
              /\ scopes[u.scope].names[u.name] = u.symbol
              /\ \A j \in 1..Len(symbols) : Waiting(j) => u.scope # symbols[j].inner
          BY <2>2, <3>2, ExprLookupsProps DEF IInv, Waiting
        <4>2. u.name \in Name
          BY <4>1 DEF Lookup
        <4>3. u.scope = current => u.name # n
          BY <2>1, <4>1
        <4>4. scopes'[u.scope].names[u.name] = scopes[u.scope].names[u.name]
          <5>1. CASE u.scope = current
            BY <2>4, <2>5, <4>1, <4>2, <4>3, <5>1
          <5>2. CASE u.scope # current
            BY ONLY <2>5, <4>1, <5>2
          <5>. QED BY <5>1, <5>2
        <4>. QED BY ONLY <4>1, <4>4
      <3>3. CASE u \in CallLookups(current, c)
        BY <2>2, <3>3, CallLookupsProps DEF IInv
      <3>. QED BY <2>1, <3>1, <3>2, <3>3
    <2>9. ASSUME NEW s \in ScopeId, NEW m \in Name, scopes[s].names[m] # 0
          PROVE  scopes'[s].names[m] = scopes[s].names[m]
      <3>1. s = current => m # n
        BY <2>1, <2>9
      <3>2. /\ \A x \in Name : x # n => d[x] = scopes[current].names[x]
            /\ \A v \in ScopeId : scopes'[v].names = IF v = current THEN d ELSE scopes[v].names
        BY <2>4, <2>5
      <3>. QED BY ONLY <3>1, <3>2, s \in ScopeId, m \in Name
    <2>10. TypeOK'
      <3>1. lookups' \in SUBSET Lookup
        BY <2>8 DEF IInv, TypeOK
      <3>2. current' \in 0..Len(scopes')
        BY <2>1, <2>5 DEF IInv, TypeOK
      <3>. QED BY <2>1, <2>2, <2>5, <2>7, <3>1, <3>2 DEF IInv, TypeOK
    <2>11. TreeInv'
      BY <2>6, TreeStep DEF IInv
    <2>12. NamesInv'
      <3>1. \A s \in ScopeId', m \in Name : scopes'[s].names[m] # 0 =>
                \/ s \in ScopeId /\ scopes'[s].names[m] = scopes[s].names[m]
                \/ s = current /\ m = n /\ scopes'[s].names[m] = i
        BY <2>4, <2>5, <2>6
      <3>2. i \in 1..Len(symbols') /\ Len(symbols') >= Len(symbols) /\ Len(symbols') \in Nat
        BY <2>3, <2>7
      <3>. QED BY <2>3, <2>7, <3>1, <3>2, NamesStep DEF IInv
    <2>13. SubroutineInv'
      BY <2>5, <2>6, <2>7, SubroutineStep DEF IInv
    <2>14. OpenInv'
      BY <2>1, <2>2, <2>5, <2>6, OpenStep DEF IInv, OpenKept
    <2>15. PrototypeInv'
      <3>1. \A j \in 1..Len(symbols) : Waiting(j) =>
                \A k \in 1..Len(open') : open'[k].scope # symbols[j].inner
        BY <2>1 DEF IInv, PrototypeInv, Waiting
      <3>. QED BY <2>5, <2>6, <2>7, <2>8, <3>1, PrototypeStep DEF IInv
    <2>16. OwnInv'
      <3>1. \A u \in lookups : u.how \notin {"assign", "call"} =>
                scopes'[u.scope].names[u.name] = scopes[u.scope].names[u.name]
        <4>1. ASSUME NEW u \in lookups, u.how \notin {"assign", "call"}
              PROVE  /\ u.scope \in ScopeId /\ u.name \in Name
                     /\ scopes[u.scope].names[u.name] # 0
          BY <4>1 DEF IInv, OwnInv, TypeOK, Lookup
        <4>. QED BY <2>9, <4>1
      <3>2. lookups \subseteq lookups'
        BY <2>1
      <3>. QED BY <2>6, <2>8, <3>1, <3>2, OwnStep DEF IInv
    <2>17. ASSUME DeclRule = "first" PROVE ClosedInv' /\ OuterInv'
      <3>1. ClosedInv'
        <4>1. ASSUME NEW k \in 2..(Len(open) - 1) PROVE Settled(open[k].scope)'
          <5>1. Settled(open[k].scope)
            BY <2>2, <2>17 DEF IInv, ClosedInv
          <5>2. open[k].scope \in ScopeId
            BY <2>2, LenTypes DEF IInv, OpenInv
          <5>. QED BY <2>1, <2>5, <5>1, <5>2 DEF Settled, SameNode
        <4>. QED BY <2>1, <4>1 DEF ClosedInv
      <3>2. ASSUME NEW u \in lookups, NEW t \in ScopeId, Found(u, t),
                   NEW v \in scopes[u.scope].chain, v >= t
            PROVE  scopes'[v].names[u.name] = scopes[v].names[u.name]
        <4>1. /\ u.scope \in ScopeId /\ u.name \in Name /\ u.symbol # 0
              /\ scopes[u.scope].chain \subseteq 1..u.scope
          BY DEF IInv, OwnInv, TypeOK, Lookup, TreeInv
        <4>2. v \in ScopeId /\ v \in Nat /\ t \in Nat
          BY <2>3, <4>1 DEF ScopeId
        <4>3. ~Settled(current)
          BY <1>1, <2>2 DEF Settled
        <4>4. v = current => v = t
          BY <3>2, <4>2, <4>3 DEF Found
        <4>5. v = t => scopes[v].names[u.name] # 0
          BY <3>2, <4>1 DEF Found
        <4>. QED BY <2>5, <2>9, <4>1, <4>2, <4>4, <4>5
      <3>3. closed \subseteq closed'
        BY <2>1
      <3>. QED BY <2>5, <2>8, <2>17, <3>1, <3>2, <3>3, OuterStep DEF IInv
    <2>. QED BY <2>10, <2>11, <2>12, <2>13, <2>14, <2>15, <2>16, <2>17 DEF IInv
  <1>. QED BY <1>2, <1>3

\* A step that pushes a scope, which is left again in the same step or is
\* that of a new visit.
SymbolsGrown ==
    /\ symbols' \in Seq(Symbol) /\ Len(symbols') \in Nat /\ Len(symbols') >= Len(symbols)
    /\ SymbolsKept
    /\ \A j \in 1..Len(symbols') : j \in 1..Len(symbols) \/ symbols'[j].kind = "variable"
    /\ \A j \in 1..Len(symbols') : Waiting(j)' => j \in 1..Len(symbols) /\ Waiting(j)

NewNames(new, names) ==
    \A m \in Name : names[m] # 0 => /\ names[m] \in 1..Len(symbols')
                                    /\ symbols'[names[m]].scope = new
                                    /\ symbols'[names[m]].name = m

NewVisit(new, kind) ==
    /\ current' = new
    /\ \E visit \in Seq(Visit) : SameVisits(visit) /\ open' = Append(visit, Opened(kind, new))
    /\ DeclRule = "first" /\ Len(open) # 1 => current \in closed' \/ Settled(current)

NewLookups(new, names) ==
    /\ lookups \subseteq lookups'
    /\ \A u \in lookups' \ lookups :
          /\ u \in Lookup /\ u.how # "assign" /\ u.symbol # 0
          /\ \/ u.scope = new /\ (u.how # "call" => names[u.name] = u.symbol)
             \/ /\ u.scope \in ScopeId /\ scopes[u.scope].names[u.name] = u.symbol
                /\ \A j \in 1..Len(symbols) : Waiting(j) => u.scope # symbols[j].inner

\* A new scope is a child of the current one and nothing else is changed.
LEMMA GrownStep ==
    ASSUME IInv, phase = "defining", phase' = "defining", nodes' \in Nat,
           domain_variable' \in Name \cup {NoName},
           NEW new, NEW kind \in {"local", "loop"}, NEW names \in [Name -> Nat],
           new = Len(scopes) + 1, scopes' = Append(scopes, NewScope(kind, current, names)),
           SymbolsGrown, NewNames(new, names), NewLookups(new, names),
           OpenKept \/ NewVisit(new, kind),
           closed' \in SUBSET Nat, closed \subseteq closed'
    PROVE  IInv'
  <1>1. current \in ScopeId /\ current \in Nat /\ kind \in ScopeKind \ {"global"}
    BY CurrentProps, LenTypes DEF IInv, ScopeId, ScopeKind
  <1>2. Len(scopes) \in Nat /\ Len(symbols) \in Nat /\ Len(open) \in Nat
    BY LenTypes DEF IInv
  <1>3. /\ scopes' \in Seq(Scope) /\ Len(scopes') = new /\ scopes' # <<>>
        /\ \A v \in ScopeId : scopes'[v] = scopes[v]
        /\ scopes'[new].kind = kind /\ scopes'[new].enclosing = current
        /\ scopes'[new].chain = {new} \cup scopes[current].chain
        /\ scopes'[new].names = names
    <2>1. /\ scopes \in Seq(Scope) /\ TypeOK /\ kind \in ScopeKind /\ current \in ScopeId
          /\ names \in [Name -> Nat] /\ new = Len(scopes) + 1
          /\ scopes' = Append(scopes, NewScope(kind, current, names))
      BY <1>1 DEF IInv, TypeOK
    <2>2. PICK x : x = NewScope(kind, current, names)
      OBVIOUS
    <2>3. /\ x \in Scope /\ x.kind = kind /\ x.enclosing = current /\ x.names = names
          /\ x.chain = {Len(scopes) + 1} \cup scopes[current].chain
      BY ONLY <2>1, <2>2, NewScopeProps
    <2>4. /\ scopes' \in Seq(Scope) /\ Len(scopes') = Len(scopes) + 1 /\ scopes' # <<>>
          /\ \A v \in 1..Len(scopes) : scopes'[v] = scopes[v]
          /\ scopes'[Len(scopes) + 1] = x
      BY ONLY <2>1, <2>2, <2>3, ScopeAdded
    <2>. QED BY ONLY <2>1, <2>3, <2>4 DEF ScopeId
  <1>4. TreeGrown(current, kind) /\ \A s \in ScopeId : SameNode(s)
    BY <1>3 DEF TreeGrown, SameNode
  <1>5. /\ ScopeId' = ScopeId \cup {new} /\ new \notin ScopeId /\ new # Global /\ new \in Nat
        /\ ScopeId \subseteq ScopeId' /\ new \in ScopeId'
    <2>1. Len(scopes) # 0
      BY DEF IInv, TypeOK
    <2>. QED BY <1>2, <1>3, <2>1 DEF ScopeId, Global
  <1>6. \A j \in 1..Len(symbols) : Waiting(j) => symbols[j].inner \in ScopeId
    BY DEF IInv, SubroutineInv, Waiting
  <1>7. ASSUME NewVisit(new, kind)
        PROVE  /\ open' \in Seq(Visit) /\ Len(open') = Len(open) + 1
               /\ \A k \in 1..Len(open) : open'[k].scope = open[k].scope
               /\ open'[Len(open) + 1].scope = new
               /\ OpenPushed
    <2>1. PICK visit \in Seq(Visit) :
              SameVisits(visit) /\ open' = Append(visit, Opened(kind, new))
      BY <1>7 DEF NewVisit
    <2>2. Len(visit) = Len(open)
          /\ \A k \in 1..Len(open) : visit[k].scope = open[k].scope
      BY <2>1 DEF SameVisits
    <2>3. /\ open' \in Seq(Visit) /\ Len(open') = Len(visit) + 1
          /\ \A k \in 1..Len(visit) : open'[k] = visit[k]
          /\ open'[Len(visit) + 1].scope = new
      <3>1. kind \in ScopeKind /\ new \in Nat /\ open' = Append(visit, Opened(kind, new))
        BY <1>1, <1>5, <2>1
      <3>. QED BY ONLY <3>1, visit \in Seq(Visit), PushedProps
    <2>4. current' = new
      BY <1>7 DEF NewVisit
    <2>5. OpenPushed
      BY <1>1, <1>3, <1>5, <2>1, <2>4 DEF OpenPushed
    <2>. QED BY <2>2, <2>3, <2>5
  <1>8. OpenInv'
    BY <1>4, <1>5, <1>7, OpenStep DEF IInv
  <1>9. TypeOK'
    <2>1. lookups' \in SUBSET Lookup
      BY DEF IInv, TypeOK, NewLookups
    <2>2. current' \in 0..Len(scopes')
      BY <1>2, <1>3, <1>5 DEF IInv, TypeOK, OpenKept, NewVisit
    <2>3. open' \in Seq(Visit)
      BY <1>7 DEF IInv, TypeOK, OpenKept
    <2>. QED BY <1>3, <2>1, <2>2, <2>3 DEF IInv, TypeOK, SymbolsGrown
  <1>10. TreeInv'
    BY <1>1, <1>4, TreeStep DEF IInv
  <1>11. NamesInv'
    <2>1. ASSUME NEW s \in ScopeId', NEW m \in Name, scopes'[s].names[m] # 0
          PROVE  \/ s \in ScopeId /\ scopes'[s].names[m] = scopes[s].names[m]
                 \/ /\ scopes'[s].names[m] \in 1..Len(symbols')
                    /\ symbols'[scopes'[s].names[m]].scope = s
                    /\ symbols'[scopes'[s].names[m]].name = m
      <3>1. CASE s \in ScopeId
        BY <1>3, <3>1
      <3>2. CASE s = new
        BY <1>3, <2>1, <3>2 DEF NewNames
      <3>. QED BY <1>5, <3>1, <3>2
    <2>. QED BY <1>2, <2>1, NamesStep DEF IInv, SymbolsGrown
  <1>12. SubroutineInv'
    BY <1>4, <1>5, SubroutineStep DEF IInv, SymbolsGrown
  <1>13. PrototypeInv'
    <2>1. ASSUME NEW j \in 1..Len(symbols), Waiting(j)
          PROVE  /\ \A u \in lookups' \ lookups : u.scope # symbols[j].inner
                 /\ \A k \in 1..Len(open') : open'[k].scope # symbols[j].inner
                 /\ current # symbols[j].inner
      <3>1. \A k \in 1..Len(open) : open[k].scope # symbols[j].inner
        BY <2>1 DEF IInv, PrototypeInv, Waiting
      <3>2. symbols[j].inner # new
        BY <1>5, <1>6, <2>1
      <3>3. \A k \in 1..Len(open') : open'[k].scope # symbols[j].inner
        <4>1. CASE OpenKept
          BY <3>1, <4>1 DEF OpenKept
        <4>2. CASE NewVisit(new, kind)
          <5>1. \A k \in 1..Len(open') : k \in 1..Len(open) \/ k = Len(open) + 1
            BY <1>2, <1>7, <4>2
          <5>. QED BY <1>7, <3>1, <3>2, <4>2, <5>1
        <4>. QED BY <4>1, <4>2
      <3>4. current # symbols[j].inner
        BY <3>1, CurrentProps DEF IInv
      <3>5. \A u \in lookups' \ lookups : u.scope # symbols[j].inner
        BY <2>1, <3>2 DEF NewLookups
      <3>. QED BY <3>3, <3>4, <3>5
    <2>. QED BY <1>1, <1>4, <2>1, PrototypeStep DEF IInv, SymbolsGrown
  <1>14. OwnInv'
    <2>1. ASSUME NEW u \in lookups' \ lookups
          PROVE  /\ u.scope \in ScopeId' /\ u.symbol # 0
                 /\ u.how # "call" => scopes'[u.scope].names[u.name] = u.symbol
      <3>1. CASE u.scope = new /\ (u.how # "call" => names[u.name] = u.symbol)
        BY <1>3, <1>5, <3>1 DEF NewLookups
      <3>2. CASE u.scope \in ScopeId /\ scopes[u.scope].names[u.name] = u.symbol
        BY <1>3, <1>5, <3>2 DEF NewLookups
      <3>. QED BY <3>1, <3>2 DEF NewLookups
    <2>2. \A u \in lookups : u.how \notin {"assign", "call"} =>
              scopes'[u.scope].names[u.name] = scopes[u.scope].names[u.name]
      BY <1>3 DEF IInv, OwnInv
    <2>. QED BY <1>5, <2>1, <2>2, OwnStep DEF IInv, NewLookups
  <1>15. ASSUME DeclRule = "first" PROVE ClosedInv' /\ OuterInv'
    <2>1. \A v \in ScopeId : Settled(v) => Settled(v)'
      BY <1>3 DEF Settled
    <2>2. \A k \in 2..(Len(open) - 1) : open[k].scope \in ScopeId /\ Settled(open[k].scope)
      BY <1>2, <1>15 DEF IInv, OpenInv, ClosedInv
    <2>3. ClosedInv'
      <3>1. CASE OpenKept
        BY <2>1, <2>2, <3>1 DEF ClosedInv, OpenKept
      <3>2. CASE NewVisit(new, kind)
        <4>1. current = open[Len(open)].scope
          BY CurrentProps DEF IInv
        <4>2. \A v \in ScopeId : v = current /\ Len(open) # 1 => Settled(v)'
          BY <1>15, <2>1, <3>2 DEF NewVisit, Settled
        <4>3. \A k \in 2..(Len(open) + 1 - 1) :
                  k \in 1..Len(open) /\ (k \in 2..(Len(open) - 1) \/ (k = Len(open) /\ Len(open) # 1))
          <5>1. \A n \in Nat : \A k \in 2..(n + 1 - 1) :
                    k \in 1..n /\ (k \in 2..(n - 1) \/ (k = n /\ n # 1))
            OBVIOUS
          <5>. QED BY ONLY <1>2, <5>1
        <4>4. ASSUME NEW k \in 2..(Len(open') - 1), NEW v, v = open'[k].scope
              PROVE  Settled(v)'
          <5>1. k \in 2..(Len(open) + 1 - 1) /\ v = open[k].scope
            BY <1>2, <1>7, <3>2, <4>3, <4>4
          <5>2. CASE k \in 2..(Len(open) - 1)
            BY <2>1, <2>2, <5>1, <5>2
          <5>3. CASE k = Len(open) /\ Len(open) # 1
            BY <1>1, <4>1, <4>2, <5>1, <5>3
          <5>. QED BY <4>3, <5>1, <5>2, <5>3
        <4>. QED BY <4>4 DEF ClosedInv, Settled
      <3>. QED BY <3>1, <3>2
    <2>4. ASSUME NEW u \in lookups, NEW t \in ScopeId, Found(u, t),
                 NEW v \in scopes[u.scope].chain, v >= t
          PROVE  scopes'[v].names[u.name] = scopes[v].names[u.name]
      <3>1. u.scope \in ScopeId /\ scopes[u.scope].chain \subseteq 1..u.scope
        BY DEF IInv, OwnInv, TreeInv
      <3>2. v \in ScopeId
        BY <1>2, <3>1 DEF ScopeId
      <3>. QED BY <1>3, <3>2
    <2>. QED BY <1>4, <1>15, <2>3, <2>4, OuterStep DEF IInv, NewLookups
  <1>. QED BY <1>8, <1>9, <1>10, <1>11, <1>12, <1>13, <1>14, <1>15 DEF IInv

\* No symbol is made and no name given.
LEMMA NamelessProps ==
    ASSUME TypeOK, UNCHANGED symbols, NEW new
    PROVE  /\ Nameless \in [Name -> Nat] /\ NewNames(new, Nameless)
           /\ \A m \in Name : Nameless[m] = 0
           /\ SymbolsGrown
  <1>1. Nameless \in [Name -> Nat] /\ \A m \in Name : Nameless[m] = 0
    BY DEF Nameless
  <1>2. NewNames(new, Nameless)
    BY <1>1 DEF NewNames
  <1>3. symbols' \in Seq(Symbol) /\ Len(symbols') \in Nat /\ Len(symbols') >= Len(symbols)
    BY LenTypes DEF TypeOK
  <1>. QED BY <1>1, <1>2, <1>3, SymbolsUnchanged DEF SymbolsGrown

\* A scope is pushed with a variable in it.
LEMMA VariableProps ==
    ASSUME TypeOK, NEW n \in Name, NEW i, i = Len(symbols) + 1,
           NEW new \in Nat, symbols' = Append(symbols, Variable(n, new)),
           NEW names, names = Define(Nameless, n, i)
    PROVE  /\ names \in [Name -> Nat] /\ NewNames(new, names) /\ names[n] = i
           /\ SymbolsGrown /\ i \in Nat /\ i # 0
  <1>1. Len(symbols) \in Nat /\ i \in Nat /\ i # 0
    BY LenTypes
  <1>2. /\ symbols' \in Seq(Symbol) /\ Len(symbols') = Len(symbols) + 1 /\ SymbolsKept
        /\ symbols'[Len(symbols) + 1].name = n /\ symbols'[Len(symbols) + 1].scope = new
        /\ \A j \in 1..Len(symbols') : j \in 1..Len(symbols) \/ symbols'[j].kind = "variable"
        /\ \A j \in 1..Len(symbols') : Waiting(j)' => j \in 1..Len(symbols) /\ Waiting(j)
    BY VariableAdded
  <1>3. Len(symbols') = i /\ symbols'[i].name = n /\ symbols'[i].scope = new
    BY <1>2
  <1>4. PICK none : none = Nameless
    OBVIOUS
  <1>5. none \in [Name -> Nat] /\ \A m \in Name : none[m] = 0
    BY <1>4 DEF Nameless
  <1>6. names = Define(none, n, i)
    BY <1>4
  <1>7. /\ names \in [Name -> Nat] /\ names[n] = i
        /\ \A m \in Name : m # n => names[m] = 0
    BY ONLY <1>1, <1>5, <1>6, n \in Name, DefineProps
  <1>8. NewNames(new, names)
    BY <1>1, <1>3, <1>7 DEF NewNames
  <1>9. SymbolsGrown
    BY <1>1, <1>2 DEF SymbolsGrown
  <1>. QED BY <1>1, <1>7, <1>8, <1>9

\* The lookups of the expressions of a statement that pushes a scope.
LEMMA ExprGrown ==
    ASSUME IInv, phase = "defining", NEW e \in Expr, NEW new, NEW names,
           lookups' = lookups \cup ExprLookups(current, e)
    PROVE  NewLookups(new, names)
  <1>1. ASSUME NEW u \in lookups' \ lookups
        PROVE  /\ u \in Lookup /\ u.how = "id" /\ u.scope \in ScopeId /\ u.symbol # 0
               /\ scopes[u.scope].names[u.name] = u.symbol
               /\ \A j \in 1..Len(symbols) : Waiting(j) => u.scope # symbols[j].inner
    BY ExprLookupsProps DEF IInv, Waiting
  <1>. QED BY <1>1 DEF NewLookups

\* The push of a loop's or a block's visit.
LEMMA PushStep ==
    ASSUME IInv, NEW kind \in {"local", "loop"}, NEW visit \in Seq(Visit), SameVisits(visit),
           Push(visit, kind), NEW new, new = Len(scopes) + 1,
           DeclRule = "first" /\ Len(open) # 1 => current \in closed' \/ Settled(current)
    PROVE  NewVisit(new, kind)
  <1>1. current' = new /\ open' = Append(visit, Opened(kind, new))
    BY DEF Push
  <1>. QED BY <1>1 DEF NewVisit

\* A loop.
LEMMA LoopStep ==
    ASSUME IInv, NEW e \in Expr, NEW d \in Expr, Loop(e, d)
    PROVE  IInv'
  <1>1. AtStat({"local"})
    BY DEF Loop
  <1>2. CASE ~ExprAccepted(current, e)
    BY <1>1, <1>2, RejectStep DEF Loop
  <1>3. CASE ExprAccepted(current, e)
    <2>1. /\ scopes' = Append(scopes, NewScope("loop", current, Nameless))
          /\ Push(open, "loop") /\ lookups' = lookups \cup ExprLookups(current, e)
          /\ domain_variable' = d /\ closed' = Closes(TRUE)
          /\ UNCHANGED <<symbols, phase>>
      BY <1>3 DEF Loop
    <2>2. phase = "defining" /\ nodes' \in Nat /\ current \in Nat
      BY <1>1, AtStatProps
    <2>3. /\ closed' \in SUBSET Nat /\ closed \subseteq closed'
          /\ DeclRule = "first" => current \in closed'
      BY <2>1, <2>2, ClosesProps DEF IInv
    <2>4. PICK new : new = Len(scopes) + 1
      OBVIOUS
    <2>5. open \in Seq(Visit) /\ SameVisits(open)
      BY DEF IInv, TypeOK, SameVisits
    <2>6. NewVisit(new, "loop")
      BY <2>1, <2>3, <2>4, <2>5, PushStep
    <2>7. PICK names : names = Nameless
      OBVIOUS
    <2>8. names \in [Name -> Nat] /\ NewNames(new, names) /\ SymbolsGrown
      BY <2>1, <2>7, NamelessProps DEF IInv
    <2>9. NewLookups(new, names)
      BY <2>1, <2>2, ExprGrown
    <2>10. domain_variable' \in Name \cup {NoName}
      BY <2>1 DEF Expr
    <2>11. scopes' = Append(scopes, NewScope("loop", current, names))
      BY <2>1, <2>7
    <2>. QED BY <2>1, <2>2, <2>3, <2>4, <2>6, <2>8, <2>9, <2>10, <2>11, GrownStep
  <1>. QED BY <1>2, <1>3

\* A nested block or a conditional.
LEMMA BranchStep ==
    ASSUME IInv, NEW e \in Expr, Branch(e)
    PROVE  IInv'
  <1>1. AtStat({"local"})
    BY DEF Branch
  <1>2. CASE ~ExprAccepted(current, e)
    BY <1>1, <1>2, RejectStep DEF Branch
  <1>3. CASE ExprAccepted(current, e)
    <2>1. /\ scopes' = Append(scopes, NewScope("local", current, Nameless))
          /\ Push(open, "local") /\ lookups' = lookups \cup ExprLookups(current, e)
          /\ closed' = Closes(TRUE)
          /\ UNCHANGED <<symbols, domain_variable, phase>>
      BY <1>3 DEF Branch
    <2>2. phase = "defining" /\ nodes' \in Nat /\ current \in Nat
      BY <1>1, AtStatProps
    <2>3. /\ closed' \in SUBSET Nat /\ closed \subseteq closed'
          /\ DeclRule = "first" => current \in closed'
      BY <2>1, <2>2, ClosesProps DEF IInv
    <2>4. PICK new : new = Len(scopes) + 1
      OBVIOUS
    <2>5. open \in Seq(Visit) /\ SameVisits(open)
      BY DEF IInv, TypeOK, SameVisits
    <2>6. NewVisit(new, "local")
      BY <2>1, <2>3, <2>4, <2>5, PushStep
    <2>7. PICK names : names = Nameless
      OBVIOUS
    <2>8. names \in [Name -> Nat] /\ NewNames(new, names) /\ SymbolsGrown
      BY <2>1, <2>7, NamelessProps DEF IInv
    <2>9. NewLookups(new, names)
      BY <2>1, <2>2, ExprGrown
    <2>10. domain_variable' \in Name \cup {NoName}
      BY <2>1 DEF IInv, TypeOK
    <2>11. scopes' = Append(scopes, NewScope("local", current, names))
      BY <2>1, <2>7
    <2>. QED BY <2>1, <2>2, <2>3, <2>4, <2>6, <2>8, <2>9, <2>10, <2>11, GrownStep
  <1>. QED BY <1>2, <1>3

\* The visit of the body is noted.
LEMMA VisitedProps ==
    ASSUME TypeOK, open # <<>>, NEW visit, visit = [open EXCEPT ![Len(open)].visited = TRUE]
    PROVE  SameVisits(visit)
  <1>1. open \in Seq(Visit) /\ Len(open) \in 1..Len(open)
    BY DEF TypeOK
  <1>2. open[Len(open)] \in Visit
    BY <1>1
  <1>. DEFINE x == [open[Len(open)] EXCEPT !.visited = TRUE]
  <1>3. x \in Visit /\ x.kind = open[Len(open)].kind /\ x.scope = open[Len(open)].scope
    BY <1>2 DEF Visit
  <1>4. visit = [open EXCEPT ![Len(open)] = x]
    OBVIOUS
  <1>. HIDE DEF x
  <1>5. /\ visit \in Seq(Visit) /\ Len(visit) = Len(open)
        /\ \A k \in 1..Len(open) : visit[k] = IF k = Len(open) THEN x ELSE open[k]
    <2>1. PICK l \in 1..Len(open) : l = Len(open)
      BY <1>1
    <2>2. visit = [open EXCEPT ![l] = x]
      BY <1>4, <2>1
    <2>3. PICK visits \in Seq(Visit) : visits = open
      BY <1>1
    <2>4. l \in 1..Len(visits) /\ visit = [visits EXCEPT ![l] = x] /\ x \in Visit
      BY <1>3, <2>1, <2>2, <2>3
    <2>5. /\ visit \in Seq(Visit) /\ Len(visit) = Len(visits)
          /\ \A k \in 1..Len(visits) : visit[k] = IF k = l THEN x ELSE visits[k]
      BY ONLY <2>4, visits \in Seq(Visit), ExceptSeq
    <2>. QED BY <2>1, <2>3, <2>5
  <1>. QED BY <1>3, <1>5 DEF SameVisits

\* The body of a loop, which defines its domain variable, or of a subroutine.
LEMMA BodyStep ==
    ASSUME IInv, Body
    PROVE  IInv'
  <1>1. /\ phase = "defining" /\ open # <<>> /\ Inner.kind \in {"loop", "subroutine"}
        /\ Push([open EXCEPT ![Len(open)].visited = TRUE], "local")
        /\ domain_variable' = NoName
        /\ UNCHANGED <<closed, phase, nodes>>
    BY DEF Body
  <1>2. PICK new : new = Len(scopes) + 1
    OBVIOUS
  <1>3. new \in Nat /\ TypeOK
    BY <1>2, LenTypes DEF IInv
  <1>4. NewVisit(new, "local")
    <2>1. PICK visit : visit = [open EXCEPT ![Len(open)].visited = TRUE]
      OBVIOUS
    <2>2. visit \in Seq(Visit) /\ SameVisits(visit)
      BY <1>1, <1>3, <2>1, VisitedProps DEF SameVisits
    <2>3. Push(visit, "local")
      BY <1>1, <2>1
    <2>4. Settled(current)
      <3>1. Len(open) \in 1..Len(open) /\ current = open[Len(open)].scope
        BY <1>1, CurrentProps DEF IInv
      <3>2. scopes[current].kind = Inner.kind
        BY <1>1, <3>1 DEF IInv, OpenInv, Inner
      <3>. QED BY <1>1, <3>2 DEF Settled
    <2>. QED BY <1>2, <2>2, <2>3, <2>4, PushStep
  <1>5. /\ phase' = "defining" /\ nodes' \in Nat /\ domain_variable' \in Name \cup {NoName}
        /\ closed' \in SUBSET Nat /\ closed \subseteq closed'
    BY <1>1, <1>3 DEF TypeOK
  <1>6. CASE domain_variable = NoName
    <2>1. /\ scopes' = Append(scopes, NewScope("local", current, Nameless))
          /\ UNCHANGED <<symbols, lookups>>
      BY <1>6 DEF Body
    <2>2. PICK names : names = Nameless
      OBVIOUS
    <2>3. names \in [Name -> Nat] /\ NewNames(new, names) /\ SymbolsGrown
      BY <1>3, <2>1, <2>2, NamelessProps
    <2>4. NewLookups(new, names)
      BY <2>1 DEF NewLookups
    <2>5. scopes' = Append(scopes, NewScope("local", current, names))
      BY <2>1, <2>2
    <2>. QED BY <1>1, <1>2, <1>4, <1>5, <2>3, <2>4, <2>5, GrownStep
  <1>7. CASE domain_variable # NoName
    <2>1. PICK n, i, names :
              /\ n \in Name /\ n = domain_variable
              /\ i = Len(symbols) + 1 /\ names = Define(Nameless, n, i)
      BY <1>3, <1>7 DEF TypeOK
    <2>2. /\ scopes' = Append(scopes, NewScope("local", current, names))
          /\ symbols' = Append(symbols, Variable(n, new))
          /\ lookups' = lookups \cup {LookedUp("domain", new, n, i)}
      BY <1>2, <1>7, <2>1 DEF Body
    <2>3. /\ names \in [Name -> Nat] /\ NewNames(new, names) /\ names[n] = i
          /\ SymbolsGrown /\ i \in Nat /\ i # 0
      BY <1>3, <2>1, <2>2, VariableProps
    <2>4. NewLookups(new, names)
      <3>1. ASSUME NEW u, u = LookedUp("domain", new, n, i)
            PROVE  /\ u \in Lookup /\ u.how = "domain" /\ u.symbol # 0
                   /\ u.scope = new /\ names[u.name] = u.symbol
        BY <1>3, <2>1, <2>3, <3>1 DEF LookedUp, Lookup
      <3>. QED BY <2>2, <3>1 DEF NewLookups
    <2>. QED BY <1>1, <1>2, <1>4, <1>5, <2>2, <2>3, <2>4, GrownStep
  <1>. QED BY <1>6, <1>7

\* A generator or a filter, whose scope is left again at once.
LEMMA ComprehensionStep ==
    ASSUME IInv, NEW n \in Name, NEW e \in Expr, NEW c \in Expr, NEW rhs \in Expr,
           Comprehension(n, e, c, rhs)
    PROVE  IInv'
  <1>. DEFINE refused == \/ ~ExprAccepted(current, e) \/ ~CallAccepted(c)
                         \/ rhs # n /\ ~ExprAccepted(current, rhs)
  <1>1. AtStat({"local"})
    BY DEF Comprehension
  <1>2. CASE refused
    BY <1>1, <1>2, RejectStep DEF Comprehension
  <1>3. CASE ~refused
    <2>1. PICK i, new, names : /\ i = Len(symbols) + 1 /\ new = Len(scopes) + 1
                               /\ names = Define(Nameless, n, i)
      OBVIOUS
    <2>2. /\ scopes' = Append(scopes, NewScope("local", current, names))
          /\ symbols' = Append(symbols, Variable(n, new))
          /\ lookups' = lookups \cup ExprLookups(current, e) \cup CallLookups(new, c) \cup
                           IF rhs = n THEN {LookedUp("id", new, n, i)}
                                      ELSE ExprLookups(current, rhs)
          /\ closed' = Closes(FALSE)
          /\ UNCHANGED <<current, domain_variable, open, phase>>
      BY <1>3, <2>1 DEF Comprehension
    <2>3. /\ phase = "defining" /\ nodes' \in Nat /\ current \in Nat /\ new \in Nat /\ TypeOK
      BY <1>1, <2>1, AtStatProps, LenTypes DEF IInv
    <2>4. closed' \in SUBSET Nat /\ closed \subseteq closed'
      BY <2>2, <2>3, ClosesProps
    <2>5. /\ names \in [Name -> Nat] /\ NewNames(new, names) /\ names[n] = i
          /\ SymbolsGrown /\ i \in Nat /\ i # 0
      BY <2>1, <2>2, <2>3, VariableProps
    <2>6. NewLookups(new, names)
      <3>1. ASSUME NEW u, u = LookedUp("id", new, n, i)
            PROVE  /\ u \in Lookup /\ u.how = "id" /\ u.symbol # 0
                   /\ u.scope = new /\ names[u.name] = u.symbol
        BY <2>3, <2>5, <3>1 DEF LookedUp, Lookup
      <3>2. ASSUME NEW x \in {e, rhs}, NEW u \in ExprLookups(current, x)
            PROVE  /\ u \in Lookup /\ u.how = "id" /\ u.symbol # 0 /\ u.scope \in ScopeId
                   /\ scopes[u.scope].names[u.name] = u.symbol
                   /\ \A j \in 1..Len(symbols) : Waiting(j) => u.scope # symbols[j].inner
        BY <2>3, ExprLookupsProps DEF IInv, Waiting
      <3>3. ASSUME NEW u \in CallLookups(new, c)
            PROVE  u \in Lookup /\ u.how = "call" /\ u.scope = new /\ u.symbol # 0
        BY <2>3, <3>3, CallLookupsProps DEF IInv
      <3>4. \A u \in lookups' \ lookups :
                \/ u = LookedUp("id", new, n, i)
                \/ \E x \in {e, rhs} : u \in ExprLookups(current, x)
                \/ u \in CallLookups(new, c)
        BY <2>2
      <3>. QED BY <2>2, <3>1, <3>2, <3>3, <3>4 DEF NewLookups
    <2>7. OpenKept /\ phase' = "defining" /\ domain_variable' \in Name \cup {NoName}
      BY <2>2, <2>3 DEF OpenKept, TypeOK
    <2>. QED BY <2>1, <2>2, <2>3, <2>4, <2>5, <2>6, <2>7, GrownStep
  <1>. QED BY <1>2, <1>3

\* The end of a visit.
LEMMA LeaveStep ==
    ASSUME IInv, Leave
    PROVE  IInv'
  <1>1. /\ phase = "defining" /\ open # <<>> /\ current' = scopes[current].enclosing
        /\ open' = SubSeq(open, 1, Len(open) - 1)
        /\ phase' \in {"defining", "rejected", "done"}
        /\ phase' = "defining" => Inner.kind # "global"
        /\ UNCHANGED <<scopes, symbols, domain_variable, closed, lookups, nodes>>
    BY DEF Leave, Popped
  <1>2. /\ current \in ScopeId /\ Len(open) \in 1..Len(open) /\ Len(open) \in Nat
        /\ Len(scopes) \in Nat /\ open \in Seq(Visit)
    BY <1>1, CurrentProps, LenTypes DEF IInv, TypeOK
  <1>3. PICK m \in Nat : m = Len(open) - 1 /\ m <= Len(open) /\ (m = 0 \/ Len(open) > 1)
    <2>1. \A n \in Nat : n \in 1..n => n - 1 \in Nat /\ n - 1 <= n /\ (n - 1 = 0 \/ n > 1)
      OBVIOUS
    <2>. QED BY ONLY <1>2, <2>1
  <1>4. /\ open' \in Seq(Visit) /\ Len(open') = m
        /\ \A k \in 1..m : open'[k] = open[k] /\ k \in 1..Len(open)
    <2>1. PICK visits \in Seq(Visit) : visits = open
      BY <1>2
    <2>2. open' = SubSeq(visits, 1, m) /\ m <= Len(visits)
      BY <1>1, <1>3, <2>1
    <2>3. open' \in Seq(Visit) /\ Len(open') = m /\ \A k \in 1..m : open'[k] = visits[k]
      BY ONLY <2>2, visits \in Seq(Visit), m \in Nat
    <2>. QED BY <1>2, <1>3, <2>1, <2>3
  <1>5. TypeOK'
    <2>1. scopes[current].enclosing \in 0..Len(scopes)
      <3>1. scopes[current].enclosing = 0 \/ scopes[current].enclosing \in 1..Len(scopes)
        BY <1>2 DEF IInv, TreeInv, ScopeId
      <3>. QED BY <1>2, <3>1
    <2>. QED BY <1>1, <1>4, <2>1 DEF IInv, TypeOK
  <1>6. TreeInv' /\ NamesInv' /\ SubroutineInv' /\ OwnInv'
    BY <1>1 DEF IInv, TreeInv, NamesInv, SubroutineInv, OwnInv, ScopeId, IsSubroutine
  <1>7. OpenInv'
    <2>1. OpenPopped
      <3>1. phase' = "defining" => Len(open) # 1
        BY <1>1, <1>2 DEF IInv, OpenInv, Inner
      <3>2. phase' = "defining" => Len(open) > 1
        BY ONLY <1>2, <1>3, <3>1
      <3>. QED BY <1>1, <3>2 DEF OpenPopped
    <2>. QED BY <1>1, <2>1, OpenStep DEF IInv, SameNode, ScopeId
  <1>8. PrototypeInv'
    BY <1>1, <1>4 DEF IInv, PrototypeInv, ScopeId, IsSubroutine
  <1>9. ASSUME DeclRule = "first" PROVE ClosedInv' /\ OuterInv'
    <2>1. OuterInv'
      BY <1>1, <1>9 DEF IInv, OuterInv, Found, Settled
    <2>2. \A v : Settled(v) => Settled(v)'
      BY <1>1 DEF Settled
    <2>3. ASSUME NEW k \in 2..(m - 1), NEW v, v = open'[k].scope PROVE Settled(v)'
      <3>1. k \in 1..m /\ k \in 2..(Len(open) - 1)
        BY <1>2, <1>3
      <3>2. Settled(open[k].scope)
        BY <1>1, <1>9, <3>1 DEF IInv, ClosedInv
      <3>. QED BY <1>4, <2>2, <2>3, <3>1, <3>2
    <2>4. ClosedInv'
      BY <1>4, <2>3 DEF ClosedInv, Settled
    <2>. QED BY <2>1, <2>4
  <1>. QED BY <1>5, <1>6, <1>7, <1>8, <1>9 DEF IInv

\* Symbols are put behind others.
LEMMA ConcatProps ==
    ASSUME NEW q \in Seq(Symbol), NEW p \in Seq(Symbol), NEW r, r = q \o p
    PROVE  /\ r \in Seq(Symbol) /\ Len(r) = Len(q) + Len(p)
           /\ \A j \in 1..Len(q) : r[j] = q[j]
           /\ \A k \in 1..Len(p) : r[Len(q) + k] = p[k]
           /\ \A j \in 1..Len(r) :
                 j \in 1..Len(q) \/ \E k \in 1..Len(p) : j = Len(q) + k
  <1>1. Len(q) \in Nat /\ Len(p) \in Nat
    OBVIOUS
  <1>2. /\ r \in Seq(Symbol) /\ Len(r) = Len(q) + Len(p)
        /\ \A j \in 1..(Len(q) + Len(p)) :
              r[j] = IF j <= Len(q) THEN q[j] ELSE p[j - Len(q)]
    BY ConcatProperties
  <1>3. \A j \in 1..Len(q) : r[j] = q[j]
    BY <1>1, <1>2
  <1>4. ASSUME NEW k \in 1..Len(p) PROVE r[Len(q) + k] = p[k]
    <2>1. /\ Len(q) + k \in 1..(Len(q) + Len(p)) /\ ~(Len(q) + k <= Len(q))
          /\ (Len(q) + k) - Len(q) = k
      BY <1>1
    <2>. QED BY <1>2, <2>1
  <1>5. ASSUME NEW j \in 1..Len(r), j \notin 1..Len(q)
        PROVE  \E k \in 1..Len(p) : j = Len(q) + k
    <2>1. j - Len(q) \in 1..Len(p) /\ j = Len(q) + (j - Len(q))
      BY <1>1, <1>2, <1>5
    <2>. QED BY <2>1
  <1>. QED BY <1>2, <1>3, <1>4, <1>5

\* The subroutine symbol and its parameters.
SymbolsOf(i, sub, params, new) ==
    /\ symbols' \in Seq(Symbol) /\ Len(symbols') = i + Len(params) /\ Len(params) \in Nat
    /\ \A j \in 1..Len(symbols) : symbols'[j] = symbols[j]
    /\ symbols'[i] = sub
    /\ \A k \in 1..Len(params) : /\ symbols'[i + k].name = params[k]
                                 /\ symbols'[i + k].scope = new
    /\ \A j \in 1..Len(symbols') :
          j \in 1..Len(symbols) \/ j = i \/ symbols'[j].kind = "variable"

\* They are what visitFuncDefNode and visitProcDefNode make.
LEMMA SubroutineSymbols ==
    ASSUME TypeOK, NEW params \in Params, NEW sub \in Symbol, NEW new \in Nat,
           NEW i, i = Len(symbols) + 1,
           symbols' = Append(symbols, sub) \o ParamSymbols(params, new)
    PROVE  SymbolsOf(i, sub, params, new)
  <1>1. PICK q, p : q = Append(symbols, sub) /\ p = ParamSymbols(params, new)
    OBVIOUS
  <1>2. symbols \in Seq(Symbol) /\ Len(symbols) \in Nat
    BY LenTypes DEF TypeOK
  <1>3. /\ q \in Seq(Symbol) /\ Len(q) = i /\ q[i] = sub
        /\ \A j \in 1..Len(symbols) : q[j] = symbols[j]
    BY <1>1, <1>2
  <1>4. /\ p \in Seq(Symbol) /\ Len(p) = Len(params) /\ Len(params) \in Nat
        /\ \A k \in 1..Len(p) : /\ p[k].name = params[k] /\ p[k].scope = new
                                /\ p[k].kind = "variable"
    BY <1>1, ParamSymbolsProps
  <1>5. symbols' = q \o p
    BY <1>1
  <1>6. /\ symbols' \in Seq(Symbol) /\ Len(symbols') = i + Len(params)
        /\ \A j \in 1..i : symbols'[j] = q[j]
        /\ \A k \in 1..Len(params) : symbols'[i + k] = p[k]
        /\ \A j \in 1..Len(symbols') : j \in 1..i \/ \E k \in 1..Len(params) : j = i + k
    <2>1. /\ symbols' \in Seq(Symbol) /\ Len(symbols') = Len(q) + Len(p)
          /\ \A j \in 1..Len(q) : symbols'[j] = q[j]
          /\ \A k \in 1..Len(p) : symbols'[Len(q) + k] = p[k]
          /\ \A j \in 1..Len(symbols') :
                j \in 1..Len(q) \/ \E k \in 1..Len(p) : j = Len(q) + k
      <3>1. q \in Seq(Symbol) /\ p \in Seq(Symbol)
        BY ONLY <1>3, <1>4
      <3>2. PICK r : r = symbols'
        OBVIOUS
      <3>3. r = q \o p
        BY ONLY <1>5, <3>2
      <3>4. r \in Seq(Symbol)
        BY ONLY <3>1, <3>3, ConcatProps
      <3>5. Len(r) = Len(q) + Len(p)
        BY ONLY <3>1, <3>3, ConcatProps
      <3>6. \A j \in 1..Len(q) : r[j] = q[j]
        BY ONLY <3>1, <3>3, ConcatProps
      <3>7. \A k \in 1..Len(p) : r[Len(q) + k] = p[k]
        BY ONLY <3>1, <3>3, ConcatProps
      <3>8. \A j \in 1..Len(r) : j \in 1..Len(q) \/ \E k \in 1..Len(p) : j = Len(q) + k
        BY ONLY <3>1, <3>3, ConcatProps
      <3>. QED BY ONLY <3>2, <3>4, <3>5, <3>6, <3>7, <3>8
    <2>. QED BY ONLY <1>3, <1>4, <2>1
  <1>7. /\ \A j \in 1..i : j \in 1..Len(symbols) \/ j = i
        /\ \A j \in 1..Len(symbols) : j \in 1..i
        /\ i \in 1..i
    BY <1>2
  <1>8. ASSUME NEW j \in 1..Len(symbols')
        PROVE  j \in 1..Len(symbols) \/ j = i \/ symbols'[j].kind = "variable"
    <2>1. ASSUME NEW k \in 1..Len(params), j = i + k PROVE symbols'[j].kind = "variable"
      BY ONLY <1>4, <1>6, <2>1, k \in 1..Len(params)
    <2>. QED BY <1>6, <1>7, <2>1
  <1>9. \A k \in 1..Len(params) : /\ symbols'[i + k].name = params[k]
                                  /\ symbols'[i + k].scope = new
    BY ONLY <1>4, <1>6
  <1>. QED BY <1>3, <1>4, <1>6, <1>7, <1>8, <1>9 DEF SymbolsOf

\* The parameters of a definition behind those of its prototype.
DefinitionOf(i, params, new) ==
    /\ symbols' \in Seq(Symbol) /\ SymbolsKept /\ ~symbols'[i].prototype
    /\ Len(symbols') = Len(symbols) + Len(params) /\ Len(params) \in Nat
    /\ \A j \in 1..Len(symbols) : j # i => symbols'[j] = symbols[j]
    /\ \A k \in 1..Len(params) : /\ symbols'[Len(symbols) + k].name = params[k]
                                 /\ symbols'[Len(symbols) + k].scope = new
    /\ \A j \in 1..Len(symbols') : j \in 1..Len(symbols) \/ symbols'[j].kind = "variable"

\* They are what the definition makes.
LEMMA DefinitionSymbols ==
    ASSUME TypeOK, NEW params \in Params, NEW new \in Nat, NEW i \in 1..Len(symbols),
           symbols' = [symbols EXCEPT ![i].prototype = FALSE] \o ParamSymbols(params, new)
    PROVE  DefinitionOf(i, params, new)
  <1>1. PICK q, p, x : /\ q = [symbols EXCEPT ![i].prototype = FALSE]
                       /\ p = ParamSymbols(params, new)
                       /\ x = [symbols[i] EXCEPT !.prototype = FALSE]
    OBVIOUS
  <1>2. symbols \in Seq(Symbol) /\ Len(symbols) \in Nat /\ symbols[i] \in Symbol
    BY LenTypes DEF TypeOK
  <1>3. /\ x \in Symbol /\ x.prototype = FALSE /\ x.kind = symbols[i].kind
        /\ x.name = symbols[i].name /\ x.scope = symbols[i].scope /\ x.inner = symbols[i].inner
    BY <1>1, <1>2 DEF Symbol
  <1>4. /\ q \in Seq(Symbol) /\ Len(q) = Len(symbols)
        /\ \A j \in 1..Len(symbols) : q[j] = IF j = i THEN x ELSE symbols[j]
    <2>1. q = [symbols EXCEPT ![i] = x]
      BY <1>1
    <2>. QED BY ONLY <1>2, <1>3, <2>1, i \in 1..Len(symbols), ExceptSeq
  <1>5. /\ p \in Seq(Symbol) /\ Len(p) = Len(params) /\ Len(params) \in Nat
        /\ \A k \in 1..Len(p) : /\ p[k].name = params[k] /\ p[k].scope = new
                                /\ p[k].kind = "variable"
    BY <1>1, ParamSymbolsProps
  <1>6. symbols' = q \o p
    BY <1>1
  <1>7. /\ symbols' \in Seq(Symbol) /\ Len(symbols') = Len(symbols) + Len(params)
        /\ \A j \in 1..Len(symbols) : symbols'[j] = q[j]
        /\ \A k \in 1..Len(params) : symbols'[Len(symbols) + k] = p[k]
        /\ \A j \in 1..Len(symbols') :
              j \in 1..Len(symbols) \/ \E k \in 1..Len(params) : j = Len(symbols) + k
    <2>1. /\ symbols' \in Seq(Symbol) /\ Len(symbols') = Len(q) + Len(p)
          /\ \A j \in 1..Len(q) : symbols'[j] = q[j]
          /\ \A k \in 1..Len(p) : symbols'[Len(q) + k] = p[k]
          /\ \A j \in 1..Len(symbols') :
                j \in 1..Len(q) \/ \E k \in 1..Len(p) : j = Len(q) + k
      <3>1. q \in Seq(Symbol) /\ p \in Seq(Symbol)
        BY ONLY <1>4, <1>5
      <3>2. PICK r : r = symbols'
        OBVIOUS
      <3>3. r = q \o p
        BY ONLY <1>6, <3>2
      <3>4. r \in Seq(Symbol)
        BY ONLY <3>1, <3>3, ConcatProps
      <3>5. Len(r) = Len(q) + Len(p)
        BY ONLY <3>1, <3>3, ConcatProps
      <3>6. \A j \in 1..Len(q) : r[j] = q[j]
        BY ONLY <3>1, <3>3, ConcatProps
      <3>7. \A k \in 1..Len(p) : r[Len(q) + k] = p[k]
        BY ONLY <3>1, <3>3, ConcatProps
      <3>8. \A j \in 1..Len(r) : j \in 1..Len(q) \/ \E k \in 1..Len(p) : j = Len(q) + k
        BY ONLY <3>1, <3>3, ConcatProps
      <3>. QED BY ONLY <3>2, <3>4, <3>5, <3>6, <3>7, <3>8
    <2>. QED BY ONLY <1>4, <1>5, <2>1
  <1>8. SymbolsKept /\ ~symbols'[i].prototype
    BY <1>3, <1>4, <1>7 DEF SymbolsKept
  <1>9. ASSUME NEW j \in 1..Len(symbols'), j \notin 1..Len(symbols)
        PROVE  symbols'[j].kind = "variable"
    <2>1. PICK k \in 1..Len(params) : j = Len(symbols) + k
      BY <1>7, <1>9
    <2>. QED BY ONLY <1>5, <1>7, <2>1, k \in 1..Len(params)
  <1>10. \A k \in 1..Len(params) : /\ symbols'[Len(symbols) + k].name = params[k]
                                   /\ symbols'[Len(symbols) + k].scope = new
    BY ONLY <1>5, <1>7
  <1>. QED BY <1>4, <1>5, <1>7, <1>8, <1>9, <1>10 DEF DefinitionOf

\* A subroutine is defined where no subroutine and no block is around it.
LEMMA GlobalProps ==
    ASSUME IInv, AtStat({"global"})
    PROVE  /\ phase = "defining" /\ nodes' \in Nat /\ current = Global /\ Len(open) = 1
           /\ Global \in ScopeId /\ Len(scopes) \in Nat /\ Len(symbols) \in Nat
           /\ scopes \in Seq(Scope) /\ open \in Seq(Visit) /\ SameVisits(open)
  <1>1. phase = "defining" /\ nodes' \in Nat /\ Inner.kind = "global"
    BY AtStatProps
  <1>2. Len(open) \in 1..Len(open) /\ current = open[Len(open)].scope
    BY <1>1, CurrentProps DEF IInv
  <1>3. Len(open) = 1 /\ current = Global
    BY <1>1, <1>2 DEF IInv, OpenInv, Inner
  <1>4. Len(scopes) \in Nat /\ Len(symbols) \in Nat
    BY LenTypes DEF IInv
  <1>. QED BY <1>1, <1>3, <1>4 DEF IInv, TypeOK, TreeInv, SameVisits

\* A step of a program that is outside of all blocks settles nothing.
LEMMA ClosedAtGlobal ==
    ASSUME Len(open) = 1, open \in Seq(Visit), OpenKept \/ OpenPushed
    PROVE  ClosedInv'
  <1>1. Len(open') \in {1, 2}
    <2>1. CASE OpenKept
      BY <2>1 DEF OpenKept
    <2>2. CASE OpenPushed
      <3>1. PICK visit, kind, s : /\ visit \in Seq(Visit) /\ Len(visit) = Len(open)
                                  /\ open' = Append(visit, Opened(kind, s))
        BY <2>2 DEF OpenPushed, SameVisits
      <3>. QED BY <3>1
    <2>. QED BY <2>1, <2>2
  <1>2. 2..(Len(open') - 1) = {}
    <2>1. \A m \in {1, 2} : 2..(m - 1) = {}
      OBVIOUS
    <2>. QED BY ONLY <1>1, <2>1
  <1>. QED BY <1>2 DEF ClosedInv

\* The lookup that is noted of a definition.
LEMMA SubroutineLookup ==
    ASSUME IInv, NEW n \in Name, NEW i \in Nat, i # 0,
           lookups' = lookups \cup {LookedUp("subroutine", Global, n, i)}
    PROVE  /\ lookups' \in SUBSET Lookup /\ lookups \subseteq lookups'
           /\ \A u \in lookups' \ lookups : /\ u.how = "subroutine" /\ u.scope = Global
                                            /\ u.name = n /\ u.symbol = i
  <1>1. ASSUME NEW u, u = LookedUp("subroutine", Global, n, i)
        PROVE  /\ u \in Lookup /\ u.how = "subroutine" /\ u.scope = Global
               /\ u.name = n /\ u.symbol = i
    BY <1>1 DEF LookedUp, Lookup, Global
  <1>. QED BY <1>1 DEF IInv, TypeOK

\* A subroutine with a new name, or a prototype.
LEMMA NewSubroutineStep ==
    ASSUME IInv, AtStat({"global"}), NEW n \in Name, NEW kind \in {"function", "procedure"},
           NEW params \in Params, NEW prototype \in BOOLEAN,
           Resolve(Global, n) = {}, NewSubroutine(n, kind, params, prototype),
           UNCHANGED <<domain_variable, closed, phase>>
    PROVE  IInv'
  <1>1. /\ phase = "defining" /\ nodes' \in Nat /\ current = Global /\ Len(open) = 1
        /\ Global \in ScopeId /\ Len(scopes) \in Nat /\ Len(symbols) \in Nat
        /\ scopes \in Seq(Scope) /\ open \in Seq(Visit) /\ SameVisits(open)
    BY GlobalProps
  <1>2. PICK i, new : i = Len(symbols) + 1 /\ new = Len(scopes) + 1
    OBVIOUS
  <1>3. i \in Nat /\ i # 0 /\ new \in Nat /\ new \notin ScopeId /\ new # Global
    BY <1>1, <1>2 DEF ScopeId
  <1>4. PICK sub : sub = [name |-> n, kind |-> kind, scope |-> Global, inner |-> new,
                          prototype |-> prototype]
    OBVIOUS
  <1>5. /\ sub \in Symbol /\ sub.name = n /\ sub.kind = kind /\ sub.scope = Global
        /\ sub.inner = new /\ sub.prototype = prototype
    BY <1>3, <1>4 DEF Symbol, SymbolKind, Global
  <1>6. PICK pn : pn = ParamNames(params, i)
    OBVIOUS
  <1>7. /\ symbols' = Append(symbols, sub) \o ParamSymbols(params, new)
        /\ scopes' = Append([scopes EXCEPT ![Global].names = Define(@, n, i)],
                            NewScope("subroutine", Global, pn))
        /\ lookups' = lookups \cup {LookedUp("subroutine", Global, n, i)}
        /\ IF prototype THEN UNCHANGED <<current, open>> ELSE Push(open, "subroutine")
    BY <1>2, <1>4, <1>6 DEF NewSubroutine
  <1>8. /\ symbols' \in Seq(Symbol) /\ Len(symbols') = i + Len(params) /\ Len(params) \in Nat
        /\ \A j \in 1..Len(symbols) : symbols'[j] = symbols[j]
        /\ symbols'[i] = sub
        /\ \A k \in 1..Len(params) : /\ symbols'[i + k].name = params[k]
                                     /\ symbols'[i + k].scope = new
        /\ \A j \in 1..Len(symbols') :
              j \in 1..Len(symbols) \/ j = i \/ symbols'[j].kind = "variable"
    <2>1. TypeOK /\ sub \in Symbol /\ new \in Nat /\ params \in Params
      BY <1>3, <1>5 DEF IInv
    <2>2. i = Len(symbols) + 1
      BY <1>2
    <2>3. symbols' = Append(symbols, sub) \o ParamSymbols(params, new)
      BY <1>7
    <2>4. SymbolsOf(i, sub, params, new)
      BY ONLY <2>1, <2>2, <2>3, SubroutineSymbols
    <2>. QED BY ONLY <2>4 DEF SymbolsOf
  <1>9. SymbolsKept
    BY <1>8 DEF SymbolsKept
  <1>10. /\ pn \in [Name -> Nat]
         /\ \A m \in Name : pn[m] # 0 =>
               \E j \in 1..Len(params) : params[j] = m /\ pn[m] = i + j
    BY <1>3, <1>6, ParamProps
  <1>11. scopes[Global].names[n] = 0 /\ scopes[Global].names \in [Name -> Nat]
    <2>1. scopes[Global] \in Scope /\ scopes[Global].chain = {Global}
      BY <1>1 DEF IInv, TreeInv, ScopeId
    <2>2. scopes[Global].names[n] = 0
      <3>1. SUFFICES ASSUME scopes[Global].names[n] # 0 PROVE Resolve(Global, n) # {}
        OBVIOUS
      <3>2. Having(Global, n) = {Global}
        BY <2>1, <3>1 DEF Having
      <3>3. Global <= Global
        BY DEF Global
      <3>. QED BY <3>2, <3>3 DEF Resolve
    <2>. QED BY <2>1, <2>2 DEF Scope
  <1>12. PICK d \in [Name -> Nat] :
             /\ d = Define(scopes[Global].names, n, i)
             /\ d[n] = i /\ \A m \in Name : m # n => d[m] = scopes[Global].names[m]
    <2>1. PICK names \in [Name -> Nat] : names = scopes[Global].names
      BY <1>11
    <2>2. PICK d : d = Define(names, n, i)
      OBVIOUS
    <2>3. names[n] = 0
      BY <1>11, <2>1
    <2>4. /\ d \in [Name -> Nat] /\ d[n] = i
          /\ \A m \in Name : m # n => d[m] = names[m]
      BY <1>3, <2>2, <2>3, DefineProps
    <2>. QED BY <2>1, <2>2, <2>4
  <1>13. /\ scopes' \in Seq(Scope) /\ Len(scopes') = new /\ scopes' # <<>>
         /\ TreeGrown(Global, "subroutine") /\ \A s \in ScopeId : SameNode(s)
         /\ \A s \in ScopeId : scopes'[s].names = IF s = Global THEN d ELSE scopes[s].names
         /\ scopes'[new].names = pn /\ scopes'[new].kind = "subroutine"
         /\ scopes'[new].enclosing = Global
         /\ scopes'[new].chain = {new} \cup scopes[Global].chain
    <2>1. PICK q, x : /\ q = [scopes EXCEPT ![Global].names = d]
                      /\ x = NewScope("subroutine", Global, pn)
      OBVIOUS
    <2>2. scopes' = Append(q, x)
      BY <1>7, <1>12, <2>1
    <2>3. /\ q \in Seq(Scope) /\ Len(q) = Len(scopes)
          /\ \A v \in 1..Len(scopes) :
                /\ q[v].kind = scopes[v].kind /\ q[v].enclosing = scopes[v].enclosing
                /\ q[v].chain = scopes[v].chain
                /\ q[v].names = IF v = Global THEN d ELSE scopes[v].names
      <3>1. PICK g \in 1..Len(scopes) : g = Global
        BY <1>1 DEF ScopeId
      <3>2. q = [scopes EXCEPT ![g].names = d] /\ scopes \in Seq(Scope)
        BY <1>1, <2>1, <3>1
      <3>3. q \in Seq(Scope)
        BY <3>2, NamesSet
      <3>5. Len(q) = Len(scopes)
        BY <3>2, NamesSet
      <3>4. \A v \in 1..Len(scopes) :
                  /\ q[v].kind = scopes[v].kind /\ q[v].enclosing = scopes[v].enclosing
                  /\ q[v].chain = scopes[v].chain
                  /\ q[v].names = IF v = g THEN d ELSE scopes[v].names
        BY <3>2, NamesSet
      <3>. QED BY <3>1, <3>3, <3>4, <3>5
    <2>4. /\ x \in Scope /\ x.kind = "subroutine" /\ x.enclosing = Global /\ x.names = pn
          /\ x.chain = {Len(scopes) + 1} \cup scopes[Global].chain
      <3>1. /\ TypeOK /\ "subroutine" \in ScopeKind /\ Global \in ScopeId
            /\ pn \in [Name -> Nat]
        BY <1>1, <1>10 DEF IInv, ScopeKind
      <3>2. x = NewScope("subroutine", Global, pn)
        BY <2>1
      <3>3. x \in Scope /\ x.kind = "subroutine" /\ x.enclosing = Global
        BY ONLY <3>1, <3>2, NewScopeProps
      <3>4. x.names = pn /\ x.chain = {Len(scopes) + 1} \cup scopes[Global].chain
        BY ONLY <3>1, <3>2, NewScopeProps
      <3>. QED BY <3>3, <3>4
    <2>5. /\ scopes' \in Seq(Scope) /\ Len(scopes') = Len(q) + 1 /\ scopes' # <<>>
          /\ \A v \in 1..Len(q) : scopes'[v] = q[v]
          /\ scopes'[Len(q) + 1] = x
      BY ONLY <2>2, <2>3, <2>4, ScopeAdded
    <2>6. /\ Len(scopes') = Len(scopes) + 1
          /\ \A v \in ScopeId : scopes'[v] = q[v]
          /\ scopes'[Len(scopes) + 1] = x
      BY ONLY <2>3, <2>5 DEF ScopeId
    <2>7. \A s \in ScopeId : SameNode(s)
      BY <2>3, <2>6 DEF SameNode, ScopeId
    <2>8. TreeGrown(Global, "subroutine")
      BY <2>4, <2>6, <2>7 DEF TreeGrown
    <2>9. \A s \in ScopeId : scopes'[s].names = IF s = Global THEN d ELSE scopes[s].names
      BY <2>3, <2>6 DEF ScopeId
    <2>. QED BY <1>2, <2>4, <2>5, <2>6, <2>7, <2>8, <2>9
  <1>14. ScopeId' = ScopeId \cup {new} /\ ScopeId \subseteq ScopeId'
    BY <1>1, <1>2, <1>13 DEF ScopeId
  <1>15. /\ lookups' \in SUBSET Lookup /\ lookups \subseteq lookups'
         /\ \A u \in lookups' \ lookups : /\ u.how = "subroutine" /\ u.scope = Global
                                          /\ u.name = n /\ u.symbol = i
    BY <1>3, <1>7, SubroutineLookup
  <1>16. /\ open' \in Seq(Visit) /\ current' \in ScopeId'
         /\ prototype => OpenKept
         /\ ~prototype => /\ OpenPushed /\ Len(open') = 2
                          /\ open'[1].scope = Global /\ open'[2].scope = new
    <2>1. CASE prototype
      BY <1>1, <1>7, <1>14, <2>1 DEF OpenKept
    <2>2. CASE ~prototype
      <3>1. current' = new /\ open' = Append(open, Opened("subroutine", new))
        BY <1>2, <1>7, <2>2 DEF Push
      <3>2. new \in ScopeId' \ {Global} /\ "subroutine" \in ScopeKind \ {"global"}
        BY <1>3, <1>14 DEF ScopeKind
      <3>3. OpenPushed
        <4>1. /\ open \in Seq(Visit) /\ SameVisits(open) /\ scopes'[new].kind = "subroutine"
              /\ scopes'[new].enclosing = current
              /\ scopes'[new].chain = {new} \cup scopes[current].chain
          BY <1>1, <1>13
        <4>. QED BY ONLY <3>1, <3>2, <4>1 DEF OpenPushed
      <3>4. /\ open' \in Seq(Visit) /\ Len(open') = Len(open) + 1
            /\ \A k \in 1..Len(open) : open'[k] = open[k]
            /\ open'[Len(open) + 1].scope = new
        <4>1. "subroutine" \in ScopeKind /\ new \in Nat /\ open \in Seq(Visit)
          BY <1>1, <1>3, <3>2
        <4>2. open' = Append(open, Opened("subroutine", new))
          BY <3>1
        <4>. QED BY ONLY <4>1, <4>2, PushedProps
      <3>5. open[1].scope = Global
        BY <1>1 DEF IInv, OpenInv
      <3>. QED BY <1>1, <2>2, <3>1, <3>2, <3>3, <3>4, <3>5
    <2>. QED BY <2>1, <2>2
  <1>17. ASSUME NEW s \in ScopeId, NEW m \in Name, scopes[s].names[m] # 0
         PROVE  scopes'[s].names[m] = scopes[s].names[m]
    BY <1>11, <1>12, <1>13, <1>17
  <1>18. TypeOK'
    <2>1. current' \in 0..Len(scopes')
      BY <1>3, <1>13, <1>16 DEF ScopeId
    <2>. QED BY <1>1, <1>8, <1>13, <1>15, <1>16, <2>1 DEF IInv, TypeOK
  <1>19. TreeInv'
    BY <1>1, <1>13, TreeStep DEF IInv, ScopeKind
  <1>20. NamesInv'
    <2>1. ASSUME NEW s \in ScopeId', NEW m \in Name, scopes'[s].names[m] # 0
          PROVE  \/ s \in ScopeId /\ scopes'[s].names[m] = scopes[s].names[m]
                 \/ /\ scopes'[s].names[m] \in 1..Len(symbols')
                    /\ symbols'[scopes'[s].names[m]].scope = s
                    /\ symbols'[scopes'[s].names[m]].name = m
      <3>1. CASE s = new
        <4>1. PICK j \in 1..Len(params) : params[j] = m /\ pn[m] = i + j
          BY <1>10, <1>13, <2>1, <3>1
        <4>2. i + j \in 1..Len(symbols')
          BY <1>3, <1>8
        <4>. QED BY <1>8, <1>13, <3>1, <4>1, <4>2
      <3>2. CASE s = Global /\ m = n
        <4>1. i \in 1..Len(symbols')
          BY <1>3, <1>8
        <4>. QED BY <1>1, <1>5, <1>8, <1>12, <1>13, <3>2, <4>1
      <3>3. CASE s \in ScopeId /\ ~(s = Global /\ m = n)
        BY <1>12, <1>13, <3>3
      <3>. QED BY <1>14, <3>1, <3>2, <3>3
    <2>2. Len(symbols') \in Nat /\ Len(symbols') >= Len(symbols)
      BY <1>1, <1>2, <1>8
    <2>. QED BY <1>1, <1>9, <2>1, <2>2, NamesStep DEF IInv
  <1>21. SubroutineInv'
    BY <1>2, <1>5, <1>8, <1>9, <1>13, <1>14, SubroutineStep DEF IInv
  <1>22. OpenInv'
    BY <1>1, <1>13, <1>14, <1>16, OpenStep DEF IInv
  <1>23. PrototypeInv'
    <2>1. ASSUME NEW j \in 1..Len(symbols'), Waiting(j)'
          PROVE  \/ j \in 1..Len(symbols) /\ Waiting(j)
                 \/ j = i /\ prototype
      <3>1. symbols'[j].kind # "variable" /\ symbols'[j].prototype
        BY <2>1 DEF Waiting, IsSubroutine
      <3>2. j = i => prototype
        BY <1>5, <1>8, <3>1
      <3>3. j \in 1..Len(symbols) => Waiting(j)
        BY <1>8, <3>1 DEF Waiting, IsSubroutine
      <3>. QED BY <1>8, <3>1, <3>2, <3>3
    <2>2. \A u \in lookups' : u.scope \in ScopeId
      BY <1>1, <1>15 DEF IInv, OwnInv
    <2>3. prototype => \A k \in 1..Len(open') : open'[k].scope \in ScopeId
      BY <1>1, <1>16 DEF IInv, OpenInv, OpenKept
    <2>4. ASSUME NEW j \in 1..Len(symbols), Waiting(j)
          PROVE  /\ \A u \in lookups' \ lookups : u.scope # symbols[j].inner
                 /\ \A k \in 1..Len(open') : open'[k].scope # symbols[j].inner
                 /\ Global # symbols[j].inner
      <3>1. symbols[j].inner \in ScopeId \ {Global}
        BY <2>4 DEF IInv, SubroutineInv, Waiting
      <3>2. \A k \in 1..Len(open) : open[k].scope # symbols[j].inner
        BY <2>4 DEF IInv, PrototypeInv, Waiting
      <3>3. \A k \in 1..Len(open') : open'[k].scope # symbols[j].inner
        <4>1. CASE prototype
          BY <1>16, <3>2, <4>1 DEF OpenKept
        <4>2. CASE ~prototype
          <5>1. \A k \in 1..2 : k = 1 \/ k = 2
            OBVIOUS
          <5>. QED BY <1>3, <1>16, <3>1, <4>2, <5>1
        <4>. QED BY <4>1, <4>2
      <3>. QED BY <1>15, <3>1, <3>3
    <2>5. symbols'[i].inner = Len(scopes) + 1 /\ i = Len(symbols) + 1
      BY <1>2, <1>5, <1>8
    <2>. QED BY <1>1, <1>9, <1>13, <2>1, <2>2, <2>3, <2>4, <2>5, PrototypeStep
             DEF IInv, ScopeKind
  <1>24. OwnInv'
    <2>1. \A u \in lookups : u.how \notin {"assign", "call"} =>
              scopes'[u.scope].names[u.name] = scopes[u.scope].names[u.name]
      <3>1. ASSUME NEW u \in lookups, u.how \notin {"assign", "call"}
            PROVE  /\ u.scope \in ScopeId /\ u.name \in Name
                   /\ scopes[u.scope].names[u.name] # 0
        BY <3>1 DEF IInv, OwnInv, TypeOK, Lookup
      <3>. QED BY <1>17, <3>1
    <2>2. \A u \in lookups' \ lookups : /\ u.scope \in ScopeId' /\ u.symbol # 0
                                        /\ scopes'[u.scope].names[u.name] = u.symbol
      BY <1>1, <1>3, <1>12, <1>13, <1>14, <1>15
    <2>. QED BY <1>14, <1>15, <2>1, <2>2, OwnStep DEF IInv
  <1>25. ASSUME DeclRule = "first" PROVE ClosedInv' /\ OuterInv'
    <2>1. ClosedInv'
      BY <1>1, <1>16, ClosedAtGlobal
    <2>2. ASSUME NEW u \in lookups, NEW t \in ScopeId, Found(u, t),
                 NEW v \in scopes[u.scope].chain, v >= t
          PROVE  scopes'[v].names[u.name] = scopes[v].names[u.name]
      <3>1. /\ u.scope \in ScopeId /\ scopes[u.scope].chain \subseteq 1..u.scope
            /\ u.symbol # 0 /\ u.name \in Name
        BY DEF IInv, OwnInv, TreeInv, TypeOK, Lookup
      <3>2. v \in ScopeId /\ v \in Nat /\ t \in Nat /\ t >= 1
        BY <1>1, <3>1 DEF ScopeId
      <3>3. CASE v # Global
        BY <1>13, <3>2, <3>3
      <3>4. CASE v = Global
        <4>1. t = v
          BY <2>2, <3>2, <3>4 DEF Global
        <4>2. scopes[v].names[u.name] # 0
          BY <2>2, <3>1, <4>1 DEF Found
        <4>. QED BY <1>17, <3>1, <3>2, <4>2
      <3>. QED BY <3>3, <3>4
    <2>3. closed \subseteq closed'
      OBVIOUS
    <2>. QED BY <1>13, <1>15, <1>25, <2>1, <2>2, <2>3, OuterStep DEF IInv
  <1>. QED BY <1>18, <1>19, <1>20, <1>21, <1>22, <1>23, <1>24, <1>25 DEF IInv

\* The definition behind a prototype, whose scope is entered again.
LEMMA OfPrototypeStep ==
    ASSUME IInv, AtStat({"global"}), NEW n \in Name, NEW params \in Params,
           NEW i \in Resolve(Global, n), IsSubroutine(i), symbols[i].prototype,
           OfPrototype(n, i, params), UNCHANGED <<domain_variable, closed, phase>>
    PROVE  IInv'
  <1>1. /\ phase = "defining" /\ nodes' \in Nat /\ current = Global /\ Len(open) = 1
        /\ Global \in ScopeId /\ Len(scopes) \in Nat /\ Len(symbols) \in Nat
        /\ scopes \in Seq(Scope) /\ open \in Seq(Visit) /\ SameVisits(open)
    BY GlobalProps
  <1>2. i \in 1..Len(symbols) /\ i # 0 /\ scopes[Global].names[n] = i
    <2>1. i \in 1..Len(symbols) /\ scopes[symbols[i].scope].names[n] = i
          /\ symbols[i].scope \in scopes[Global].chain
      BY <1>1, ResolveProps DEF IInv
    <2>2. scopes[Global].chain = {Global}
      BY <1>1 DEF IInv, TreeInv
    <2>. QED BY <1>1, <2>1, <2>2
  <1>3. PICK s : s = symbols[i].inner
    OBVIOUS
  <1>4. /\ s \in ScopeId \ {Global} /\ s \in Nat /\ scopes[s].kind = "subroutine"
        /\ scopes[s].enclosing = Global
        /\ scopes[s].chain = {s} \cup scopes[Global].chain
    <2>1. /\ s \in ScopeId \ {Global} /\ scopes[s].kind = "subroutine"
          /\ scopes[s].enclosing = Global
      BY <1>2, <1>3 DEF IInv, SubroutineInv
    <2>2. s \in Nat
      BY <1>1, <2>1 DEF ScopeId
    <2>3. scopes[s].chain = {s} \cup scopes[Global].chain
      BY <2>1 DEF IInv, TreeInv
    <2>. QED BY <2>1, <2>2, <2>3
  <1>5. PICK m, pn : m \in Nat /\ m = Len(symbols) /\ pn = ParamNames(params, m)
    BY <1>1
  <1>6. /\ symbols' = [symbols EXCEPT ![i].prototype = FALSE] \o ParamSymbols(params, s)
        /\ scopes' = [scopes EXCEPT ![s].names = pn]
        /\ lookups' = lookups \cup {LookedUp("subroutine", Global, n, i)}
        /\ current' = s /\ open' = Append(open, Opened("subroutine", s))
    BY <1>3, <1>5 DEF OfPrototype
  <1>7. /\ symbols' \in Seq(Symbol) /\ SymbolsKept /\ ~symbols'[i].prototype
        /\ Len(symbols') = Len(symbols) + Len(params) /\ Len(params) \in Nat
        /\ \A j \in 1..Len(symbols) : j # i => symbols'[j] = symbols[j]
        /\ \A k \in 1..Len(params) : /\ symbols'[Len(symbols) + k].name = params[k]
                                     /\ symbols'[Len(symbols) + k].scope = s
        /\ \A j \in 1..Len(symbols') :
              j \in 1..Len(symbols) \/ symbols'[j].kind = "variable"
    <2>1. TypeOK /\ s \in Nat /\ params \in Params /\ i \in 1..Len(symbols)
      BY <1>2, <1>4 DEF IInv
    <2>2. symbols' = [symbols EXCEPT ![i].prototype = FALSE] \o ParamSymbols(params, s)
      BY <1>6
    <2>3. DefinitionOf(i, params, s)
      BY ONLY <2>1, <2>2, DefinitionSymbols
    <2>. QED BY ONLY <2>3 DEF DefinitionOf
  <1>8. /\ pn \in [Name -> Nat]
        /\ \A x \in Name : pn[x] # 0 =>
              \E j \in 1..Len(params) : params[j] = x /\ pn[x] = m + j
    <2>1. pn = ParamNames(params, m) /\ m \in Nat /\ params \in Params
      BY <1>5
    <2>. QED BY ONLY <2>1, ParamProps
  <1>9. /\ scopes' \in Seq(Scope) /\ Len(scopes') = Len(scopes) /\ scopes' # <<>>
        /\ \A v \in ScopeId : SameNode(v)
        /\ \A v \in ScopeId : scopes'[v].names = IF v = s THEN pn ELSE scopes[v].names
    <2>1. s \in 1..Len(scopes) /\ Len(scopes) # 0
      BY <1>1, <1>4 DEF ScopeId
    <2>2. scopes' \in Seq(Scope)
      BY <1>1, <1>6, <1>8, <2>1, NamesSet
    <2>3. Len(scopes') = Len(scopes)
      BY <1>1, <1>6, <1>8, <2>1, NamesSet
    <2>4. \A v \in 1..Len(scopes) :
              /\ scopes'[v].kind = scopes[v].kind
              /\ scopes'[v].enclosing = scopes[v].enclosing
              /\ scopes'[v].chain = scopes[v].chain
              /\ scopes'[v].names = IF v = s THEN pn ELSE scopes[v].names
      BY <1>1, <1>6, <1>8, <2>1, NamesSet
    <2>5. scopes' # <<>>
      BY ONLY <2>1, <2>3
    <2>. QED BY <2>2, <2>3, <2>4, <2>5 DEF SameNode, ScopeId
  <1>10. TreeKept /\ ScopeId' = ScopeId
    BY <1>9 DEF TreeKept, ScopeId
  <1>11. /\ lookups' \in SUBSET Lookup /\ lookups \subseteq lookups'
         /\ \A u \in lookups' \ lookups : /\ u.how = "subroutine" /\ u.scope = Global
                                          /\ u.name = n /\ u.symbol = i
    <2>1. i \in Nat /\ i # 0 /\ IInv /\ n \in Name
      BY <1>1, <1>2
    <2>2. lookups' = lookups \cup {LookedUp("subroutine", Global, n, i)}
      BY <1>6
    <2>. QED BY ONLY <2>1, <2>2, SubroutineLookup
  <1>12. /\ open' \in Seq(Visit) /\ OpenPushed /\ Len(open') = 2
         /\ open'[1].scope = Global /\ open'[2].scope = s
    <2>1. "subroutine" \in ScopeKind \ {"global"} /\ s \in ScopeId' \ {Global}
      BY <1>4, <1>10 DEF ScopeKind
    <2>2. /\ scopes'[s].kind = "subroutine" /\ scopes'[s].enclosing = current
          /\ scopes'[s].chain = {s} \cup scopes[current].chain
      BY <1>1, <1>4, <1>9 DEF SameNode
    <2>3. OpenPushed
      BY <1>1, <1>6, <2>1, <2>2 DEF OpenPushed
    <2>4. /\ open' \in Seq(Visit) /\ Len(open') = Len(open) + 1
          /\ \A k \in 1..Len(open) : open'[k] = open[k]
          /\ open'[Len(open) + 1].scope = s
      <3>1. "subroutine" \in ScopeKind /\ s \in Nat /\ open \in Seq(Visit)
        BY <1>1, <1>4, <2>1
      <3>2. open' = Append(open, Opened("subroutine", s))
        BY <1>6
      <3>. QED BY ONLY <3>1, <3>2, PushedProps
    <2>5. open[1].scope = Global
      BY <1>1 DEF IInv, OpenInv
    <2>. QED BY <1>1, <2>3, <2>4, <2>5
  <1>13. /\ \A v \in ScopeId : v # s => s \notin scopes[v].chain
         /\ \A u \in lookups : u.scope # s
    BY <1>2, <1>3 DEF IInv, PrototypeInv
  <1>14. TypeOK'
    <2>1. current' \in 0..Len(scopes')
      BY <1>1, <1>4, <1>6, <1>9 DEF ScopeId
    <2>. QED BY <1>1, <1>7, <1>9, <1>11, <1>12, <2>1 DEF IInv, TypeOK
  <1>15. TreeInv'
    BY <1>10, TreeStep DEF IInv
  <1>16. NamesInv'
    <2>1. ASSUME NEW v \in ScopeId', NEW x \in Name, scopes'[v].names[x] # 0
          PROVE  \/ v \in ScopeId /\ scopes'[v].names[x] = scopes[v].names[x]
                 \/ /\ scopes'[v].names[x] \in 1..Len(symbols')
                    /\ symbols'[scopes'[v].names[x]].scope = v
                    /\ symbols'[scopes'[v].names[x]].name = x
      <3>1. CASE v = s
        <4>1. PICK j \in 1..Len(params) : params[j] = x /\ pn[x] = m + j
          BY <1>4, <1>8, <1>9, <2>1, <3>1
        <4>2. m + j \in 1..Len(symbols')
          BY <1>1, <1>5, <1>7
        <4>3. symbols'[m + j].scope = s /\ symbols'[m + j].name = x
          BY <1>5, <1>7, <4>1
        <4>. QED BY <1>4, <1>9, <3>1, <4>1, <4>2, <4>3
      <3>2. CASE v # s
        BY <1>9, <1>10, <3>2
      <3>. QED BY <3>1, <3>2
    <2>2. Len(symbols') \in Nat /\ Len(symbols') >= Len(symbols)
      BY <1>1, <1>7
    <2>. QED BY <1>1, <1>7, <2>1, <2>2, NamesStep DEF IInv
  <1>17. SubroutineInv'
    BY <1>7, <1>9, <1>10, SubroutineStep DEF IInv
  <1>18. OpenInv'
    BY <1>1, <1>9, <1>10, <1>12, OpenStep DEF IInv
  <1>19. PrototypeInv'
    <2>1. ASSUME NEW j \in 1..Len(symbols'), Waiting(j)'
          PROVE  j \in 1..Len(symbols) /\ j # i /\ Waiting(j)
      <3>1. symbols'[j].kind # "variable" /\ symbols'[j].prototype
        BY <2>1 DEF Waiting, IsSubroutine
      <3>2. j \in 1..Len(symbols) /\ j # i
        BY <1>7, <3>1
      <3>. QED BY <1>7, <3>1, <3>2 DEF Waiting, IsSubroutine
    <2>2. ASSUME NEW j \in 1..Len(symbols), Waiting(j), j # i
          PROVE  /\ \A u \in lookups' \ lookups : u.scope # symbols[j].inner
                 /\ \A k \in 1..Len(open') : open'[k].scope # symbols[j].inner
      <3>1. symbols[j].inner # s /\ symbols[j].inner # Global
        BY <1>2, <1>3, <2>2 DEF IInv, SubroutineInv, Waiting
      <3>2. \A k \in 1..2 : k = 1 \/ k = 2
        OBVIOUS
      <3>. QED BY <1>11, <1>12, <3>1, <3>2
    <2>3. \A j \in 1..Len(symbols) : Waiting(j)' => j # i
      BY <1>7 DEF Waiting
    <2>. QED BY <1>7, <1>9, <1>10, <2>1, <2>2, <2>3, PrototypeStep DEF IInv
  <1>20. OwnInv'
    <2>1. \A u \in lookups : u.how \notin {"assign", "call"} =>
              scopes'[u.scope].names[u.name] = scopes[u.scope].names[u.name]
      BY <1>9, <1>13 DEF IInv, OwnInv
    <2>2. \A u \in lookups' \ lookups : /\ u.scope \in ScopeId' /\ u.symbol # 0
                                        /\ scopes'[u.scope].names[u.name] = u.symbol
      BY <1>1, <1>2, <1>4, <1>9, <1>10, <1>11
    <2>. QED BY <1>10, <1>11, <2>1, <2>2, OwnStep DEF IInv
  <1>21. ASSUME DeclRule = "first" PROVE ClosedInv' /\ OuterInv'
    <2>1. ClosedInv'
      BY <1>1, <1>12, ClosedAtGlobal
    <2>2. ASSUME NEW u \in lookups, NEW t \in ScopeId, Found(u, t),
                 NEW v \in scopes[u.scope].chain, v >= t
          PROVE  scopes'[v].names[u.name] = scopes[v].names[u.name]
      <3>1. u.scope \in ScopeId /\ scopes[u.scope].chain \subseteq 1..u.scope
        BY DEF IInv, OwnInv, TreeInv
      <3>2. v \in ScopeId
        BY <1>1, <3>1 DEF ScopeId
      <3>3. v # s
        BY <1>13, <3>1
      <3>. QED BY <1>9, <3>2, <3>3
    <2>3. closed \subseteq closed'
      OBVIOUS
    <2>. QED BY <1>9, <1>11, <1>21, <2>1, <2>2, <2>3, OuterStep DEF IInv
  <1>. QED BY <1>14, <1>15, <1>16, <1>17, <1>18, <1>19, <1>20, <1>21 DEF IInv

\* The definition of a function or a procedure.
LEMMA DefinitionStep ==
    ASSUME IInv, NEW n \in Name, NEW kind \in {"function", "procedure"},
           NEW params \in Params, NEW prototype \in BOOLEAN,
           Subroutine(n, kind, params, prototype)
    PROVE  IInv'
  <1>1. AtStat({"global"}) /\ DefinitionAccepted(n, kind, prototype)
    BY DEF Subroutine
  <1>2. CASE /\ Resolve(Global, n) = {} /\ NewSubroutine(n, kind, params, prototype)
             /\ UNCHANGED <<domain_variable, closed, phase>>
    BY <1>1, <1>2, NewSubroutineStep
  <1>3. ASSUME NEW i \in Resolve(Global, n), IsSubroutine(i), OfPrototype(n, i, params),
               UNCHANGED <<domain_variable, closed, phase>>
        PROVE  IInv'
    <2>1. i \in 1..Len(symbols) /\ symbols[i].name = n
      BY <1>1, GlobalProps, ResolveProps DEF IInv
    <2>2. symbols[i].prototype
      BY <1>1, <1>3, <2>1 DEF DefinitionAccepted, IInv, TypeOK
    <2>. QED BY <1>1, <1>3, <2>2, OfPrototypeStep
  <1>4. CASE \/ Reject
             \/ /\ phase' = "crashed"
                /\ UNCHANGED <<scopes, current, symbols, domain_variable, open, closed, lookups>>
    <2>1. nodes' \in Nat
      BY <1>1, GlobalProps
    <2>. QED BY <1>4, <2>1, IdleStep DEF Reject, Idle
  <1>. QED BY <1>2, <1>3, <1>4 DEF Subroutine

\* Every step keeps the invariant.
LEMMA NextIInv ==
    ASSUME IInv, [Next]_vars
    PROVE  IInv'
  <1>1. CASE UNCHANGED vars
    BY <1>1, IdleStep DEF vars, Idle, IInv, TypeOK
  <1>2. CASE \E n \in Name, e \in Expr, c \in Expr : Decl(n, e, c)
    BY <1>2, DeclStep
  <1>3. CASE \E n \in Name, e \in Expr, how \in {"assign", "call"} : NameStat(how, n, e)
    BY <1>3, NameStatStep
  <1>4. CASE \E e \in Name : ExprStat(e)
    BY <1>4, ExprStatStep
  <1>5. CASE \E n \in Name, e \in Expr, c \in Expr, rhs \in Expr : Comprehension(n, e, c, rhs)
    BY <1>5, ComprehensionStep
  <1>6. CASE \E e \in Expr, d \in Expr : Loop(e, d)
    BY <1>6, LoopStep
  <1>7. CASE \E e \in Expr : Branch(e)
    BY <1>7, BranchStep
  <1>8. CASE \E n \in Name, kind \in {"function", "procedure"}, params \in Params,
                prototype \in BOOLEAN : Subroutine(n, kind, params, prototype)
    BY <1>8, DefinitionStep
  <1>9. CASE Body
    BY <1>9, BodyStep
  <1>10. CASE Leave
    BY <1>10, LeaveStep
  <1>11. CASE Done
    BY <1>1, <1>11 DEF Done
  <1>. QED
    BY <1>1, <1>2, <1>3, <1>4, <1>5, <1>6, <1>7, <1>8, <1>9, <1>10, <1>11 DEF Next

-----------------------------------------------------------------------------
(* What the walk keeps, whatever the program.                              *)

\* The inductive invariant.
THEOREM Invariance == Spec => []IInv
  <1>1. Init => IInv
    BY InitIInv
  <1>2. IInv /\ [Next]_vars => IInv'
    BY NextIInv
  <1>. QED BY <1>1, <1>2, PTL DEF Spec

\* The variables of DefineSymbols have their types.
THEOREM TypeCorrect == Spec => []TypeOK
  <1>1. IInv => TypeOK
    BY DEF IInv
  <1>. QED BY <1>1, Invariance, PTL

\* Every pop_scope returns to the scope of the visit around.
THEOREM ScopesNestAlways == Spec => []ScopesNest
  <1>1. ASSUME IInv PROVE ScopesNest
    <2>. SUFFICES ASSUME phase = "defining"
                  PROVE  /\ open # <<>> /\ current = Inner.scope
                         /\ scopes[current].chain = {open[k].scope : k \in DOMAIN open}
      BY DEF ScopesNest
    <2>1. /\ open # <<>> /\ current = open[Len(open)].scope
          /\ scopes[current].chain = {open[j].scope : j \in 1..Len(open)}
      BY <1>1, CurrentProps DEF IInv
    <2>2. DOMAIN open = 1..Len(open)
      BY <1>1 DEF IInv, TypeOK
    <2>. QED BY <2>1, <2>2 DEF Inner
  <1>. QED BY <1>1, Invariance, PTL

\* What resolve returns when the scope t of the chain has the name and the
\* scopes between do not.
LEMMA ResolvesTo ==
    ASSUME TypeOK, TreeInv, NEW s \in ScopeId, NEW n \in Name, NEW i, i # 0,
           NEW t \in scopes[s].chain, scopes[t].names[n] = i,
           \A v \in scopes[s].chain : v > t => scopes[v].names[n] = 0
    PROVE  Resolve(s, n) = {i}
  <1>1. scopes[s].chain \subseteq 1..s /\ s \in Nat
    BY LenTypes DEF TreeInv, ScopeId
  <1>2. \A v \in scopes[s].chain : v \in Nat
    BY <1>1
  <1>3. t \in Having(s, n)
    BY DEF Having
  <1>4. ASSUME NEW r \in Having(s, n) PROVE r <= t
    <2>1. r \in scopes[s].chain /\ scopes[r].names[n] # 0
      BY DEF Having
    <2>2. r \in Nat /\ t \in Nat /\ ~(r > t)
      BY <1>2, <2>1
    <2>. QED BY <2>2
  <1>5. ASSUME NEW v \in Having(s, n), \A r \in Having(s, n) : r <= v PROVE v = t
    <2>1. v <= t /\ t <= v /\ v \in Nat /\ t \in Nat
      BY <1>2, <1>3, <1>4, <1>5 DEF Having
    <2>. QED BY <2>1
  <1>6. {v \in Having(s, n) : \A r \in Having(s, n) : r <= v} = {t}
    BY <1>3, <1>4, <1>5
  <1>. QED BY <1>6 DEF Resolve

\* No symbol that a node refers to is replaced or hidden in its own scope.
THEOREM OwnLookupsAgreeAlways == Spec => []OwnLookupsAgree
  <1>1. ASSUME IInv PROVE OwnLookupsAgree
    <2>. SUFFICES ASSUME NEW u \in lookups, u.how \notin {"assign", "call"}
                  PROVE  Resolve(u.scope, u.name) = {u.symbol}
      BY DEF OwnLookupsAgree, Agrees
    <2>1. /\ u.scope \in ScopeId /\ u.name \in Name /\ u.symbol # 0
          /\ scopes[u.scope].names[u.name] = u.symbol
      BY <1>1 DEF IInv, OwnInv, TypeOK, Lookup
    <2>2. u.scope \in scopes[u.scope].chain /\ scopes[u.scope].chain \subseteq 1..u.scope
      BY <1>1, <2>1 DEF IInv, TreeInv
    <2>3. u.scope \in Nat
      BY <1>1, <2>1, LenTypes DEF IInv, ScopeId
    <2>4. \A v \in scopes[u.scope].chain : ~(v > u.scope)
      BY <2>2, <2>3
    <2>. QED BY <1>1, <2>1, <2>2, <2>4, ResolvesTo DEF IInv
  <1>. QED BY <1>1, Invariance, PTL

\* When declarations come first, what an assignment names is found again by
\* every later pass.
THEOREM OuterLookupsAgreeAlways ==
    ASSUME DeclRule = "first"
    PROVE  Spec => []OuterLookupsAgree
  <1>1. ASSUME IInv PROVE OuterLookupsAgree
    <2>. SUFFICES ASSUME NEW u \in lookups, u.how = "assign"
                  PROVE  Resolve(u.scope, u.name) = {u.symbol}
      BY DEF OuterLookupsAgree, Agrees
    <2>1. u.scope \in ScopeId /\ u.name \in Name /\ u.symbol # 0
      BY <1>1 DEF IInv, OwnInv, TypeOK, Lookup
    <2>2. PICK t \in scopes[u.scope].chain : Found(u, t)
      BY <1>1 DEF IInv, OuterInv
    <2>3. /\ scopes[t].names[u.name] = u.symbol
          /\ \A v \in scopes[u.scope].chain : v > t => scopes[v].names[u.name] = 0
      BY <2>2 DEF Found
    <2>4. PICK s, n, i : s = u.scope /\ n = u.name /\ i = u.symbol
      OBVIOUS
    <2>5. /\ TypeOK /\ TreeInv /\ s \in ScopeId /\ n \in Name /\ i # 0
          /\ t \in scopes[s].chain /\ scopes[t].names[n] = i
          /\ \A v \in scopes[s].chain : v > t => scopes[v].names[n] = 0
      BY <1>1, <2>1, <2>3, <2>4 DEF IInv
    <2>6. Resolve(s, n) = {i}
      BY ONLY <2>5, ResolvesTo
    <2>. QED BY <2>4, <2>6
  <1>. QED BY <1>1, Invariance, PTL

-----------------------------------------------------------------------------
(* Calls.                                                                  *)

\* Subroutines are symbols of the global scope; what a call noted is a symbol
\* and, when it is a subroutine, the one the global scope has of that name.
RoutineInv ==
    /\ \A i \in 1..Len(symbols) : IsSubroutine(i) => symbols[i].scope = Global
    /\ \A u \in lookups : u.how = "call" =>
          /\ u.symbol \in 1..Len(symbols)
          /\ IsSubroutine(u.symbol) => scopes[Global].names[u.name] = u.symbol

\* A step that makes no subroutine outside the global scope, takes no name
\* away from it and notes the calls it meets.
RoutinesKept ==
    /\ Len(symbols) \in Nat /\ Len(symbols') \in Nat /\ Len(symbols') >= Len(symbols)
    /\ SymbolsKept
    /\ \A i \in 1..Len(symbols') :
          i \in 1..Len(symbols) \/ symbols'[i].kind = "variable" \/ symbols'[i].scope = Global
    /\ \A n \in Name : scopes[Global].names[n] # 0 =>
          scopes'[Global].names[n] = scopes[Global].names[n]
    /\ \A u \in lookups' \ lookups : u.how = "call" =>
          u.name \in Name /\ u.symbol \in Resolve(current, u.name)

\* Such a step keeps the invariant.
LEMMA RoutineStep ==
    ASSUME IInv, RoutineInv, phase = "defining", RoutinesKept
    PROVE  RoutineInv'
  <1>1. ASSUME NEW i \in 1..Len(symbols'), IsSubroutine(i)'
        PROVE  symbols'[i].scope = Global
    <2>1. CASE i \in 1..Len(symbols)
      BY <1>1, <2>1 DEF RoutineInv, RoutinesKept, SymbolsKept, IsSubroutine
    <2>2. CASE i \notin 1..Len(symbols)
      BY <1>1, <2>2 DEF RoutinesKept, IsSubroutine
    <2>. QED BY <2>1, <2>2
  <1>2. ASSUME NEW u \in lookups', u.how = "call"
        PROVE  /\ u.symbol \in 1..Len(symbols') /\ u.name \in Name
               /\ IsSubroutine(u.symbol)' => scopes'[Global].names[u.name] = u.symbol
    <2>1. ASSUME u.symbol \in 1..Len(symbols), u.name \in Name,
                 IsSubroutine(u.symbol) => scopes[Global].names[u.name] = u.symbol
          PROVE  /\ u.symbol \in 1..Len(symbols')
                 /\ IsSubroutine(u.symbol)' => scopes'[Global].names[u.name] = u.symbol
      <3>1. u.symbol \in 1..Len(symbols') /\ u.symbol # 0
        BY <2>1 DEF RoutinesKept
      <3>2. IsSubroutine(u.symbol)' => IsSubroutine(u.symbol)
        BY <2>1 DEF RoutinesKept, SymbolsKept, IsSubroutine
      <3>. QED BY <2>1, <3>1, <3>2 DEF RoutinesKept
    <2>2. CASE u \in lookups
      <3>1. u.name \in Name
        BY <2>2 DEF IInv, TypeOK, Lookup
      <3>. QED BY <1>2, <2>1, <2>2, <3>1 DEF RoutineInv
    <2>3. CASE u \notin lookups
      <3>1. u.name \in Name /\ u.symbol \in Resolve(current, u.name)
        BY <1>2, <2>3 DEF RoutinesKept
      <3>2. current \in ScopeId
        BY CurrentProps DEF IInv
      <3>3. /\ u.symbol \in 1..Len(symbols)
            /\ scopes[symbols[u.symbol].scope].names[u.name] = u.symbol
        BY <3>1, <3>2, ResolveProps DEF IInv
      <3>. QED BY <2>1, <3>1, <3>3 DEF RoutineInv
    <2>. QED BY <2>2, <2>3
  <1>. QED BY <1>1, <1>2 DEF RoutineInv

\* The calls of an expression are noted with what their name stands for.
LEMMA CallsNoted ==
    ASSUME NEW c \in Expr, NEW s, NEW u \in CallLookups(s, c)
    PROVE  u.name \in Name /\ u.symbol \in Resolve(current, u.name)
  BY DEF CallLookups, Expr, LookedUp

LEMMA NoCalls ==
    ASSUME NEW e \in Expr, NEW s, NEW u \in ExprLookups(s, e)
    PROVE  u.how = "id"
  BY DEF ExprLookups, LookedUp

\* A step that makes no symbol and at most one scope.
LEMMA NoNewSymbols ==
    ASSUME IInv, UNCHANGED symbols,
           \/ UNCHANGED scopes
           \/ \E x : scopes' = Append(scopes, x),
           \A u \in lookups' \ lookups : u.how = "call" =>
              u.name \in Name /\ u.symbol \in Resolve(current, u.name)
    PROVE  RoutinesKept
  <1>1. /\ Len(symbols) \in Nat /\ Len(symbols') \in Nat /\ Len(symbols') >= Len(symbols)
        /\ SymbolsKept /\ \A i \in 1..Len(symbols') : i \in 1..Len(symbols)
    BY LenTypes, SymbolsUnchanged DEF IInv
  <1>2. scopes'[Global] = scopes[Global]
    BY DEF IInv, TypeOK, TreeInv, ScopeId
  <1>. QED BY <1>1, <1>2 DEF RoutinesKept

\* A step that makes one variable, in a scope of its own or in the current one.
LEMMA OneVariable ==
    ASSUME IInv, NEW n \in Name, NEW s \in Nat, symbols' = Append(symbols, Variable(n, s)),
           \/ \E x : scopes' = Append(scopes, x)
           \/ /\ current \in ScopeId /\ scopes[current].names[n] = 0
              /\ scopes' = [scopes EXCEPT ![current].names = Define(@, n, Len(symbols) + 1)],
           \A u \in lookups' \ lookups : u.how = "call" =>
              u.name \in Name /\ u.symbol \in Resolve(current, u.name)
    PROVE  RoutinesKept
  <1>1. /\ Len(symbols) \in Nat /\ Len(symbols') = Len(symbols) + 1 /\ SymbolsKept
        /\ \A i \in 1..Len(symbols') : i \in 1..Len(symbols) \/ symbols'[i].kind = "variable"
    BY LenTypes, VariableAdded DEF IInv
  <1>2. scopes \in Seq(Scope) /\ Global \in 1..Len(scopes)
    BY DEF IInv, TypeOK, TreeInv, ScopeId
  <1>3. ASSUME NEW m \in Name, scopes[Global].names[m] # 0
        PROVE  scopes'[Global].names[m] = scopes[Global].names[m]
    <2>1. CASE \E x : scopes' = Append(scopes, x)
      BY <1>2, <2>1
    <2>2. CASE /\ current \in ScopeId /\ scopes[current].names[n] = 0
               /\ scopes' = [scopes EXCEPT ![current].names = Define(@, n, Len(symbols) + 1)]
      <3>1. PICK names : names = Define(scopes[current].names, n, Len(symbols) + 1)
        OBVIOUS
      <3>2. scopes[current].names \in [Name -> Nat]
        <4>1. scopes[current] \in Scope
          BY ONLY <1>2, <2>2 DEF ScopeId
        <4>. QED BY ONLY <4>1 DEF Scope
      <3>3. /\ names \in [Name -> Nat]
            /\ \A k \in Name : k # n => names[k] = scopes[current].names[k]
        <4>1. PICK old, j : old = scopes[current].names /\ j = Len(symbols) + 1
          OBVIOUS
        <4>2. old \in [Name -> Nat] /\ j \in Nat /\ names = Define(old, n, j)
          BY <1>1, <3>1, <3>2, <4>1
        <4>3. names \in [Name -> Nat] /\ \A k \in Name : k # n => names[k] = old[k]
          BY ONLY <4>2, n \in Name, DefineProps
        <4>. QED BY <4>1, <4>3
      <3>4. scopes' = [scopes EXCEPT ![current].names = names]
        BY <2>2, <3>1
      <3>5. scopes'[Global].names = IF Global = current THEN names ELSE scopes[Global].names
        <4>1. PICK q, r, v : q = scopes /\ r = scopes' /\ v = current
          OBVIOUS
        <4>2. /\ q \in Seq(Scope) /\ v \in 1..Len(q) /\ names \in [Name -> Nat]
              /\ r = [q EXCEPT ![v].names = names]
          BY <1>2, <2>2, <3>3, <3>4, <4>1 DEF ScopeId
        <4>3. \A w \in 1..Len(q) : r[w].names = IF w = v THEN names ELSE q[w].names
          BY ONLY <4>2, NamesSet
        <4>. QED BY <1>2, <4>1, <4>3
      <3>. QED BY <1>3, <2>2, <3>3, <3>5
    <2>. QED BY <2>1, <2>2
  <1>. QED BY <1>1, <1>3 DEF RoutinesKept

\* A step that ends the walk, or nothing.
LEMMA NoRoutines ==
    ASSUME RoutineInv, UNCHANGED <<scopes, symbols, lookups>>
    PROVE  RoutineInv'
  BY DEF RoutineInv, IsSubroutine

\* A declaration.
LEMMA DeclRoutines ==
    ASSUME IInv, RoutineInv, NEW n \in Name, NEW e \in Expr, NEW c \in Expr, Decl(n, e, c)
    PROVE  RoutineInv'
  <1>1. phase = "defining" /\ current \in ScopeId /\ current \in Nat
    BY AtStatProps DEF Decl
  <1>2. CASE UNCHANGED <<scopes, symbols, lookups>>
    BY <1>2, NoRoutines
  <1>3. CASE ~UNCHANGED <<scopes, symbols, lookups>>
    <2>1. /\ scopes[current].names[n] = 0
          /\ lookups' = lookups \cup ExprLookups(current, e) \cup CallLookups(current, c)
                                \cup {LookedUp("decl", current, n, Len(symbols) + 1)}
          /\ symbols' = Append(symbols, Variable(n, current))
          /\ scopes' = [scopes EXCEPT ![current].names = Define(@, n, Len(symbols) + 1)]
      BY <1>3 DEF Decl, Reject
    <2>2. LookedUp("decl", current, n, Len(symbols) + 1).how = "decl"
      BY DEF LookedUp
    <2>3. \A u \in lookups' \ lookups : u.how = "call" =>
              u.name \in Name /\ u.symbol \in Resolve(current, u.name)
      BY <2>1, <2>2, CallsNoted, NoCalls
    <2>4. RoutinesKept
      BY <1>1, <2>1, <2>3, OneVariable
    <2>. QED BY <1>1, <2>4, RoutineStep
  <1>. QED BY <1>2, <1>3

\* An assignment or a call, and a statement that only reads.
LEMMA NameStatRoutines ==
    ASSUME IInv, RoutineInv, NEW how \in {"assign", "call"}, NEW n \in Name, NEW e \in Expr,
           NameStat(how, n, e)
    PROVE  RoutineInv'
  <1>1. phase = "defining"
    BY AtStatProps DEF NameStat
  <1>2. CASE UNCHANGED <<scopes, symbols, lookups>>
    BY <1>2, NoRoutines
  <1>3. CASE ~UNCHANGED <<scopes, symbols, lookups>>
    <2>1. /\ lookups' = lookups \cup {LookedUp(how, current, n, i) : i \in Resolve(current, n)}
                                \cup ExprLookups(current, e)
          /\ UNCHANGED <<scopes, symbols>>
      BY <1>3 DEF NameStat, Reject
    <2>2. ASSUME NEW i \in Resolve(current, n), NEW u, u = LookedUp(how, current, n, i)
          PROVE  u.name \in Name /\ u.symbol \in Resolve(current, u.name)
      BY <2>2 DEF LookedUp
    <2>3. \A u \in lookups' \ lookups : u.how = "call" =>
              u.name \in Name /\ u.symbol \in Resolve(current, u.name)
      BY <2>1, <2>2, NoCalls
    <2>. QED BY <1>1, <2>1, <2>3, NoNewSymbols, RoutineStep
  <1>. QED BY <1>2, <1>3

LEMMA ExprStatRoutines ==
    ASSUME IInv, RoutineInv, NEW e \in Name, ExprStat(e)
    PROVE  RoutineInv'
  <1>1. phase = "defining" /\ e \in Expr
    BY AtStatProps DEF ExprStat, Expr
  <1>2. CASE UNCHANGED <<scopes, symbols, lookups>>
    BY <1>2, NoRoutines
  <1>3. CASE ~UNCHANGED <<scopes, symbols, lookups>>
    <2>1. lookups' = lookups \cup ExprLookups(current, e) /\ UNCHANGED <<scopes, symbols>>
      BY <1>3 DEF ExprStat, Reject
    <2>. QED BY <1>1, <2>1, NoCalls, NoNewSymbols, RoutineStep
  <1>. QED BY <1>2, <1>3

\* A generator or a filter: the call is noted in the new scope, but was looked
\* up outside of it.
LEMMA ComprehensionRoutines ==
    ASSUME IInv, RoutineInv, NEW n \in Name, NEW e \in Expr, NEW c \in Expr, NEW rhs \in Expr,
           Comprehension(n, e, c, rhs)
    PROVE  RoutineInv'
  <1>1. phase = "defining" /\ Len(scopes) + 1 \in Nat
    BY AtStatProps, LenTypes DEF Comprehension, IInv
  <1>2. CASE UNCHANGED <<scopes, symbols, lookups>>
    BY <1>2, NoRoutines
  <1>3. CASE ~UNCHANGED <<scopes, symbols, lookups>>
    <2>1. PICK i, new : i = Len(symbols) + 1 /\ new = Len(scopes) + 1
      OBVIOUS
    <2>2. /\ scopes' = Append(scopes, NewScope("local", current, Define(Nameless, n, i)))
          /\ symbols' = Append(symbols, Variable(n, new))
          /\ lookups' = lookups \cup ExprLookups(current, e) \cup CallLookups(new, c) \cup
                           IF rhs = n THEN {LookedUp("id", new, n, i)}
                                      ELSE ExprLookups(current, rhs)
      BY <1>3, <2>1 DEF Comprehension, Reject
    <2>3. LookedUp("id", new, n, i).how = "id"
      BY DEF LookedUp
    <2>4. \A u \in lookups' \ lookups : u.how = "call" =>
              u.name \in Name /\ u.symbol \in Resolve(current, u.name)
      BY <2>2, <2>3, CallsNoted, NoCalls
    <2>5. RoutinesKept
      BY <1>1, <2>1, <2>2, <2>4, OneVariable
    <2>. QED BY <1>1, <2>5, RoutineStep
  <1>. QED BY <1>2, <1>3

\* The visits with a scope.
LEMMA LoopRoutines ==
    ASSUME IInv, RoutineInv, NEW e \in Expr, NEW d \in Expr, Loop(e, d) \/ Branch(e)
    PROVE  RoutineInv'
  <1>1. phase = "defining"
    BY AtStatProps DEF Loop, Branch
  <1>2. CASE UNCHANGED <<scopes, symbols, lookups>>
    BY <1>2, NoRoutines
  <1>3. CASE ~UNCHANGED <<scopes, symbols, lookups>>
    <2>1. /\ \E x : scopes' = Append(scopes, x)
          /\ lookups' = lookups \cup ExprLookups(current, e)
          /\ UNCHANGED symbols
      BY <1>3 DEF Loop, Branch, Reject
    <2>. QED BY <1>1, <2>1, NoCalls, NoNewSymbols, RoutineStep
  <1>. QED BY <1>2, <1>3

LEMMA BodyRoutines ==
    ASSUME IInv, RoutineInv, Body
    PROVE  RoutineInv'
  <1>1. phase = "defining" /\ Len(scopes) + 1 \in Nat
    BY LenTypes DEF Body, IInv
  <1>2. CASE domain_variable = NoName
    <2>1. (\E x : scopes' = Append(scopes, x)) /\ UNCHANGED <<symbols, lookups>>
      BY <1>2 DEF Body
    <2>. QED BY <1>1, <2>1, NoNewSymbols, RoutineStep
  <1>3. CASE domain_variable # NoName
    <2>1. PICK n, i, s : /\ n \in Name /\ n = domain_variable
                         /\ i = Len(symbols) + 1 /\ s = Len(scopes) + 1
      BY <1>3 DEF IInv, TypeOK
    <2>2. /\ \E x : scopes' = Append(scopes, x)
          /\ symbols' = Append(symbols, Variable(n, s))
          /\ lookups' = lookups \cup {LookedUp("domain", s, n, i)}
      BY <1>3, <2>1 DEF Body
    <2>3. LookedUp("domain", s, n, i).how = "domain"
      BY DEF LookedUp
    <2>4. RoutinesKept
      BY <1>1, <2>1, <2>2, <2>3, OneVariable
    <2>. QED BY <1>1, <2>4, RoutineStep
  <1>. QED BY <1>2, <1>3

\* A subroutine with a new name: nothing in the global scope had it.
LEMMA NewSubroutineRoutines ==
    ASSUME IInv, RoutineInv, phase = "defining",
           NEW n \in Name, NEW kind \in {"function", "procedure"},
           NEW params \in Params, NEW prototype \in BOOLEAN,
           Resolve(Global, n) = {}, NewSubroutine(n, kind, params, prototype)
    PROVE  RoutineInv'
  <1>1. /\ Len(scopes) \in Nat /\ Len(symbols) \in Nat
        /\ scopes \in Seq(Scope) /\ Global \in ScopeId /\ Global \in 1..Len(scopes)
    BY LenTypes DEF IInv, TypeOK, TreeInv, ScopeId
  <1>2. PICK i, new : i = Len(symbols) + 1 /\ new = Len(scopes) + 1
    OBVIOUS
  <1>3. PICK sub : sub = [name |-> n, kind |-> kind, scope |-> Global, inner |-> new,
                          prototype |-> prototype]
    OBVIOUS
  <1>4. sub \in Symbol /\ sub.scope = Global /\ i \in Nat /\ i # 0 /\ new \in Nat
    BY <1>1, <1>2, <1>3 DEF Symbol, SymbolKind, Global
  <1>5. /\ symbols' = Append(symbols, sub) \o ParamSymbols(params, new)
        /\ \E x : scopes' = Append([scopes EXCEPT ![Global].names = Define(@, n, i)], x)
        /\ lookups' = lookups \cup {LookedUp("subroutine", Global, n, i)}
    BY <1>2, <1>3 DEF NewSubroutine
  <1>6. SymbolsOf(i, sub, params, new)
    BY <1>2, <1>4, <1>5, SubroutineSymbols DEF IInv
  <1>7. /\ Len(symbols') \in Nat /\ Len(symbols') >= Len(symbols) /\ SymbolsKept
        /\ \A j \in 1..Len(symbols') : \/ j \in 1..Len(symbols) \/ symbols'[j].kind = "variable"
                                       \/ symbols'[j].scope = Global
    BY <1>1, <1>2, <1>4, <1>6 DEF SymbolsOf, SymbolsKept
  <1>8. ASSUME NEW m \in Name, scopes[Global].names[m] # 0
        PROVE  scopes'[Global].names[m] = scopes[Global].names[m]
    <2>1. ASSUME scopes[Global].names[n] # 0 PROVE FALSE
      <3>1. scopes[Global].chain = {Global} /\ ~(Global > Global)
        BY <1>1 DEF IInv, TreeInv, Global
      <3>2. Having(Global, n) = {Global}
        BY <2>1, <3>1 DEF Having
      <3>3. {t \in Having(Global, n) : \A r \in Having(Global, n) : r <= t} = {Global}
        BY <3>2 DEF Global
      <3>. QED BY <3>3 DEF Resolve
    <2>2. scopes[Global].names \in [Name -> Nat]
      <3>1. scopes[Global] \in Scope
        BY ONLY <1>1
      <3>. QED BY ONLY <3>1 DEF Scope
    <2>3. PICK names : names = Define(scopes[Global].names, n, i)
      OBVIOUS
    <2>4. /\ names \in [Name -> Nat]
          /\ \A k \in Name : k # n => names[k] = scopes[Global].names[k]
      <3>1. i \in Nat /\ n \in Name
        BY ONLY <1>4, n \in Name
      <3>2. PICK old : old = scopes[Global].names
        OBVIOUS
      <3>3. old \in [Name -> Nat] /\ names = Define(old, n, i)
        BY ONLY <2>2, <2>3, <3>2
      <3>4. /\ names \in [Name -> Nat]
            /\ \A k \in Name : k # n \/ old[n] # 0 => names[k] = old[k]
        BY ONLY <3>1, <3>3 DEF Define
      <3>. QED BY <3>2, <3>4
    <2>5. PICK q, g : g = Global /\ q = [scopes EXCEPT ![g].names = names]
      OBVIOUS
    <2>6. q \in Seq(Scope) /\ Len(q) = Len(scopes) /\ q[Global].names = names
      <3>1. scopes \in Seq(Scope) /\ g \in 1..Len(scopes)
        BY <1>1, <2>5
      <3>2. /\ q \in Seq(Scope) /\ Len(q) = Len(scopes)
            /\ \A v \in 1..Len(scopes) : v = g => q[v].names = names
        BY ONLY <2>4, <2>5, <3>1, NamesSet
      <3>. QED BY <2>5, <3>1, <3>2
    <2>7. \E x : scopes' = Append(q, x)
      BY <1>5, <2>3, <2>5
    <2>8. scopes'[Global] = q[Global]
      BY <1>1, <2>6, <2>7
    <2>. QED BY <1>8, <2>1, <2>4, <2>6, <2>8
  <1>9. LookedUp("subroutine", Global, n, i).how = "subroutine"
    BY DEF LookedUp
  <1>10. RoutinesKept
    BY <1>1, <1>5, <1>7, <1>8, <1>9 DEF RoutinesKept
  <1>. QED BY <1>10, RoutineStep

\* A definition after its prototype only changes the names in the subroutine's
\* own scope.
LEMMA OfPrototypeRoutines ==
    ASSUME IInv, RoutineInv, phase = "defining", NEW n \in Name, NEW params \in Params,
           NEW i \in Resolve(Global, n), IsSubroutine(i), OfPrototype(n, i, params)
    PROVE  RoutineInv'
  <1>1. /\ Len(scopes) \in Nat /\ Len(symbols) \in Nat
        /\ scopes \in Seq(Scope) /\ Global \in ScopeId /\ Global \in 1..Len(scopes)
    BY LenTypes DEF IInv, TypeOK, TreeInv, ScopeId
  <1>2. i \in 1..Len(symbols)
    BY <1>1, ResolveProps DEF IInv
  <1>3. PICK new, names : new = symbols[i].inner /\ names = ParamNames(params, Len(symbols))
    OBVIOUS
  <1>4. new \in 1..Len(scopes) /\ new # Global /\ new \in Nat
    BY <1>1, <1>2, <1>3 DEF IInv, SubroutineInv, ScopeId
  <1>5. /\ symbols' = [symbols EXCEPT ![i].prototype = FALSE] \o ParamSymbols(params, new)
        /\ scopes' = [scopes EXCEPT ![new].names = names]
        /\ lookups' = lookups \cup {LookedUp("subroutine", Global, n, i)}
    BY <1>3 DEF OfPrototype
  <1>6. DefinitionOf(i, params, new)
    BY <1>2, <1>4, <1>5, DefinitionSymbols DEF IInv
  <1>7. /\ Len(symbols') \in Nat /\ Len(symbols') >= Len(symbols) /\ SymbolsKept
        /\ \A j \in 1..Len(symbols') : j \in 1..Len(symbols) \/ symbols'[j].kind = "variable"
    BY <1>1, <1>6 DEF DefinitionOf
  <1>8. names \in [Name -> Nat]
    BY <1>1, <1>3, ParamProps
  <1>9. scopes'[Global].names = scopes[Global].names
    BY <1>1, <1>4, <1>5, <1>8, NamesSet
  <1>10. LookedUp("subroutine", Global, n, i).how = "subroutine"
    BY DEF LookedUp
  <1>11. RoutinesKept
    BY <1>1, <1>5, <1>7, <1>9, <1>10 DEF RoutinesKept
  <1>. QED BY <1>11, RoutineStep

\* Every step keeps the invariant of the calls.
LEMMA NextRoutineInv ==
    ASSUME IInv, RoutineInv, [Next]_vars
    PROVE  RoutineInv'
  <1>1. CASE UNCHANGED vars \/ Leave \/ Done
    BY <1>1, NoRoutines DEF vars, Leave, Done
  <1>2. CASE \E n \in Name, e \in Expr, c \in Expr : Decl(n, e, c)
    BY <1>2, DeclRoutines
  <1>3. CASE \E n \in Name, e \in Expr, how \in {"assign", "call"} : NameStat(how, n, e)
    BY <1>3, NameStatRoutines
  <1>4. CASE \E e \in Name : ExprStat(e)
    BY <1>4, ExprStatRoutines
  <1>5. CASE \E n \in Name, e \in Expr, c \in Expr, rhs \in Expr : Comprehension(n, e, c, rhs)
    BY <1>5, ComprehensionRoutines
  <1>6. CASE \E e \in Expr, d \in Expr : Loop(e, d)
    BY <1>6, LoopRoutines
  <1>7. CASE \E e \in Expr : Branch(e)
    BY <1>7, LoopRoutines
  <1>8. ASSUME NEW n \in Name, NEW kind \in {"function", "procedure"},
               NEW params \in Params, NEW prototype \in BOOLEAN,
               Subroutine(n, kind, params, prototype)
        PROVE  RoutineInv'
    <2>1. phase = "defining"
      BY <1>8, AtStatProps DEF Subroutine
    <2>. QED BY <1>8, <2>1, NewSubroutineRoutines, OfPrototypeRoutines, NoRoutines
             DEF Subroutine, Reject
  <1>9. CASE Body
    BY <1>9, BodyRoutines
  <1>. QED
    BY <1>1, <1>2, <1>3, <1>4, <1>5, <1>6, <1>7, <1>8, <1>9 DEF Next

\* The global scope is around every scope.
LEMMA GlobalAround ==
    ASSUME IInv, NEW s \in ScopeId
    PROVE  Global \in scopes[s].chain
  <1>. DEFINE Outside == {t \in Nat : t \in ScopeId /\ Global \notin scopes[t].chain}
  <1>1. ASSUME Outside # {} PROVE FALSE
    <2>0. Outside # {} /\ Outside \subseteq Nat
      BY <1>1
    <2>. HIDE DEF Outside
    <2>1. \E t \in Outside : \A r \in Outside : ~(<<r, t>> \in OpToRel(<, Nat))
      BY <2>0, NatLessThanWellFounded, WFMin
    <2>. USE DEF Outside
    <2>2. PICK t \in Outside : \A r \in Outside : ~(r < t)
      BY <2>1 DEF OpToRel
    <2>3. t \in ScopeId /\ t \in Nat /\ Global \notin scopes[t].chain
      BY <2>2
    <2>4. t # Global
      BY <2>3 DEF IInv, TreeInv
    <2>5. /\ scopes[t].enclosing \in ScopeId /\ scopes[t].enclosing < t
          /\ scopes[t].chain = {t} \cup scopes[scopes[t].enclosing].chain
      BY <2>3, <2>4 DEF IInv, TreeInv
    <2>6. scopes[t].enclosing \in Nat
      BY <2>5, LenTypes DEF IInv, ScopeId
    <2>7. scopes[t].enclosing \in Outside
      BY <2>3, <2>5, <2>6
    <2>. QED BY <2>2, <2>5, <2>7
  <1>2. s \in Nat
    BY LenTypes DEF IInv, ScopeId
  <1>. QED BY <1>1, <1>2

\* A call of a subroutine means the same subroutine to every later pass.
THEOREM CallsAgreeAlways == Spec => []CallsAgree
  <1>1. ASSUME IInv, RoutineInv PROVE CallsAgree
    <2>. SUFFICES ASSUME NEW u \in lookups, u.how = "call", IsSubroutine(u.symbol)
                  PROVE  ResolveProcFunc(u.scope, u.name) = {u.symbol}
      BY DEF CallsAgree
    <2>1. PICK s, n, i : s = u.scope /\ n = u.name /\ i = u.symbol
      OBVIOUS
    <2>2. s \in ScopeId /\ n \in Name /\ i # 0 /\ Len(scopes) \in Nat
      BY <1>1, <2>1, LenTypes DEF IInv, OwnInv, TypeOK, Lookup
    <2>3. IsSubroutine(i) /\ scopes[Global].names[n] = i
      BY <1>1, <2>1 DEF RoutineInv
    <2>4. Global \in scopes[s].chain /\ scopes[s].chain \subseteq ScopeId
      BY <1>1, <2>2, GlobalAround DEF IInv, TreeInv, ScopeId
    <2>5. Global \in HavingRoutine(s, n)
      BY <2>2, <2>3, <2>4 DEF HavingRoutine, Having
    <2>6. ASSUME NEW t \in HavingRoutine(s, n) PROVE t = Global
      <3>1. t \in ScopeId /\ scopes[t].names[n] # 0 /\ IsSubroutine(scopes[t].names[n])
        BY <2>4 DEF HavingRoutine, Having
      <3>2. scopes[t].names[n] \in 1..Len(symbols) /\ symbols[scopes[t].names[n]].scope = t
        BY <1>1, <2>2, <3>1 DEF IInv, NamesInv
      <3>. QED BY <1>1, <3>1, <3>2 DEF RoutineInv
    <2>7. HavingRoutine(s, n) = {Global} /\ Global <= Global
      BY <2>5, <2>6 DEF Global
    <2>8. {t \in HavingRoutine(s, n) : \A r \in HavingRoutine(s, n) : r <= t} = {Global}
      BY <2>7
    <2>. QED BY <2>1, <2>3, <2>8 DEF ResolveProcFunc
  <1>2. Init => RoutineInv
    BY DEF Init, RoutineInv
  <1>3. IInv /\ RoutineInv /\ [Next]_vars => RoutineInv'
    BY NextRoutineInv
  <1>. QED BY <1>1, <1>2, <1>3, Invariance, PTL DEF Spec
=============================================================================
