----------------------------- MODULE Subroutines -----------------------------
(***************************************************************************)
(* Prototypes, definitions and calls of subroutines.  A call is checked by *)
(* seven passes, each with a map of its own that it fills while it walks:  *)
(* what a pass knows of a subroutine depends on which of its headers stand *)
(* before the call, and one pass relies on what another has rejected.  The *)
(* last three read the symbol of the definition instead.                   *)
(***************************************************************************)
EXTENDS Naturals, Sequences, FiniteSetsExt

CONSTANTS
    Names, Main,            \* the names of subroutines, "main" among them
    Variables,              \* what can be given by reference
    Mutables, Tuples,       \* those that are var, those that are tuples
    NoVariable,             \* what a literal or an operation is given as
    Integer, Boolean,       \* two types of results
    MaxNodes,               \* bound: headers and calls in a text
    MaxCalls,               \* bound: calls in a text
    MaxParams               \* bound: parameters of a header, arguments of a call

ASSUME SubroutinesAssumption ==
    /\ Main \in Names /\ Mutables \cup Tuples \subseteq Variables /\ NoVariable \notin Variables
    /\ Integer # Boolean /\ {MaxNodes, MaxCalls, MaxParams} \subseteq Nat

VARIABLES
    text,       \* the headers and the calls, each in the definition before it
    pass,       \* the pass that is next
    outcome     \* "running", "rejected", "crashed" or "generated"

vars == <<text, pass, outcome>>

-----------------------------------------------------------------------------
(* The text.                                                               *)

None == "none"      \* the null pointer of a procedure without result

UpTo(S, n) == UNION {[1..k -> S] : k \in 0..n}

\* A qualifier is TRUE for var.  A function has a result and no var, and is
\* not called main: there must be a procedure of that name.
Header ==
    {h \in [kind: {"prototype", "definition"}, name: Names, func: BOOLEAN,
            quals: UpTo(BOOLEAN, MaxParams), returns: {Integer, Boolean, None}] :
        h.func => h.name # Main /\ h.returns # None /\ \A p \in DOMAIN h.quals : ~h.quals[p]}

\* A variable (elem = 0) or the element of one that is a tuple.
Arg   == [of: Variables \cup {NoVariable}, elem: {0}] \cup [of: Tuples, elem: {1}]
Value == [of |-> NoVariable, elem |-> 0]

\* "assigned" is all of what is assigned or declared with a type, "inferred"
\* all of what is declared without; an operation there has a call as one
\* "operand", as both ("operands"), or is "unary".  "elsewhere" is behind
\* anything else, the argument of another call for example.
Place == {"statement", "assigned", "inferred", "operand", "operands", "unary",
          "returned", "control", "output", "elsewhere"}

\* Which variables are given makes a difference to call statements only, but
\* others may be given them too.
Call ==
    {c \in [kind: {"call"}, name: Names, args: UpTo(Arg, MaxParams), place: Place] :
        c.place = "statement" \/ \A p \in DOMAIN c.args : c.args[p] = Value}

Headers == {i \in DOMAIN text : text[i].kind # "call"}
Calls   == DOMAIN text \ Headers

\* Where the definition starts that a call is in.
Inside(i) == Max({j \in Headers : j < i})

\* The headers of what a call names that stand before it.
Seen(i) == {j \in Headers : j < i /\ text[j].name = text[i].name}

Definitions(n) == {j \in Headers : text[j].name = n /\ text[j].kind = "definition"}

\* The header its symbol has in the end: the definition's.
Callee(i) == text[CHOOSE j \in Definitions(text[i].name) : TRUE]

\* What reading behind the end of a vector, or through a null pointer into
\* an object, may lead to.
Undefined == {"running", "rejected", "crashed"}

Verdict(ok) == IF ok THEN {"running"} ELSE {"rejected"}

-----------------------------------------------------------------------------
(* MainErrorWalker and DefinitionErrorWalker look at headers only; the     *)
(* text is read as they come along.                                        *)

Init == text = <<>> /\ pass = "headers" /\ outcome = "running"

Of(h, kind) == {j \in Headers : text[j].name = h.name /\ text[j].kind = kind}

\* The first procedure that is called main.
MainAccepted(h) ==
    h.name = Main /\ ~h.func /\ ~(\E j \in Headers : text[j].name = Main /\ ~text[j].func)
        => h.quals = <<>> /\ h.returns = Integer

\* The loop over the parameters of a procedure's definition.
Qualifiers(old, new) ==
    IF \E p \in DOMAIN old \cap DOMAIN new : old[p] # new[p] THEN {"rejected"}
    ELSE IF Len(new) > Len(old) THEN Undefined ELSE {"running"}

Agrees(h, j) == text[j].func = h.func /\ text[j].returns = h.returns

DefinitionVerdict(h) ==
    IF \/ Of(h, "definition") # {}
       \/ h.kind = "prototype" /\ Of(h, "prototype") # {}
       \/ \E j \in Of(h, "prototype") : ~Agrees(h, j)
    THEN {"rejected"}
    ELSE IF h.func \/ Of(h, "prototype") = {} THEN {"running"}
    ELSE UNION {Qualifiers(text[j].quals, h.quals) : j \in Of(h, "prototype")}

Read(n) == pass = "headers" /\ outcome = "running" /\ Len(text) < MaxNodes /\ text' = Append(text, n)

\* These two do not look at calls: what they reject is read without.
ReadHeader(h) ==
    /\ Read(h)
    /\ outcome' \in IF MainAccepted(h) THEN DefinitionVerdict(h) ELSE {"rejected"}
    /\ outcome' = "running" \/ Calls = {}
    /\ UNCHANGED pass

ReadCall(c) ==
    /\ Read(c) /\ Headers # {} /\ text[Max(Headers)].kind = "definition"
    /\ Cardinality(Calls) < MaxCalls
    /\ UNCHANGED <<pass, outcome>>

HasMain       == \E j \in Headers : text[j].name = Main /\ ~text[j].func
AllAreDefined == \A j \in Headers : Definitions(text[j].name) # {}

EndOfText ==
    /\ pass = "headers" /\ outcome = "running"
    /\ outcome' \in Verdict(HasMain /\ AllAreDefined)
    /\ pass' = "control"
    /\ UNCHANGED text

-----------------------------------------------------------------------------
(* What each pass makes of the call at i, in the definition text[Inside(i)].*)

At(i, places) == text[i].place \in places

\* ControlExpressionsWalker: subroutinesReturns is set when the body has
\* been visited; a call nothing is known of passes for a boolean.
Visited(i) == Seen(i) \ {Inside(i)}
ControlAt(i) ==
    IF ~At(i, {"control", "inferred"}) \/ Visited(i) = {} THEN {"running"}
    ELSE LET type == text[Max(Visited(i))].returns
         IN IF type = None THEN {"crashed"}
            ELSE Verdict(At(i, {"inferred"}) \/ type = Boolean)

\* StdInOutStatementErrorWalker
StreamsAt(i) == Verdict(~(At(i, {"output"}) /\ text[Inside(i)].func))

\* Mutant: functionNames is set when the body has been visited.
InFunctionNamesAfter(i) == \E j \in Visited(i) : text[j].func

\* CallFuncCallErrorWalker
InFunctionNames(i) == \E j \in Seen(i) : text[j].func

\* procCountInExpr is 1 for an operand and 2 for both; only 2 is rejected
\* (CallFuncCallErrorWalker.cpp:79, 90), though tests/Part1Failed/CallError3.test:14
\* has "procedures can not be used in binary expressions" and wants a CallError
\* for i = math(69, 420) + 1 (line 21).
CallsAt(i) ==
    Verdict(/\ At(i, {"statement"}) => ~InFunctionNames(i) /\ ~text[Inside(i)].func
            /\ At(i, {"operands", "returned"}) => InFunctionNames(i))

\* ProcReturnCallErrorWalker walks the bodies of procedures, and keeps what
\* the first header says.
ResultsAt(i) ==
    LET procs == {j \in Seen(i) : ~text[j].func}
    IN Verdict(/\ At(i, {"assigned", "inferred", "operand", "operands", "unary"})
               /\ ~text[Inside(i)].func /\ procs # {}
               => text[Min(procs)].returns # None)

\* Mutant: the expressions of declarations are not visited.
CountedButDeclared == {"statement", "assigned", "operand", "operands"}

Counted == {"statement", "assigned", "inferred", "operand", "operands"}

\* FuncProcCallWithSameNumberOfParamsWalker keeps what the last one says.
CountsAt(i) ==
    Verdict(At(i, Counted) /\ Seen(i) # {} => Len(text[i].args) = Len(text[Max(Seen(i))].quals))

\* DefineSymbols
SymbolsAt(i) == Verdict(Seen(i) # {})

(***************************************************************************)
(* AliasingErrorWalker, of call statements in procedures.  An argument is  *)
(* entered in param_map under its name when its parameter is var, and is   *)
(* looked for there under its name and, an element, under its tuple's.     *)
(***************************************************************************)
SameName(a, b) == a = b
TupleOf(a)     == IF a.elem = 0 THEN Value ELSE [a EXCEPT !.elem = 0]

\* Mutant: an element is not looked for under its tuple.
ByNameOnly(a, entered) == a # Value /\ SameName(a, entered)

Aliases(a, entered) == \/ a # Value /\ SameName(a, entered)
                       \/ SameName(TupleOf(a), entered)

AliasingAt(i) ==
    LET args  == text[i].args
        quals == Callee(i).quals
    IN IF ~At(i, {"statement"}) \/ Callee(i).func THEN {"running"}
       ELSE IF \E q \in DOMAIN args \cap DOMAIN quals : \E p \in 1..(q - 1) :
                   quals[p] /\ Aliases(args[q], args[p])
       THEN {"rejected"}
       ELSE IF Len(args) > Len(quals) THEN Undefined ELSE {"running"}

\* TypeInferWalker and BinaryOpTypeErrorWalker read the type of operands and
\* of what is assigned.
TypesAt(i) ==
    IF At(i, {"assigned", "inferred", "operand", "operands", "unary"}) /\ Callee(i).returns = None
    THEN {"crashed"} ELSE {"running"}

\* ArgumentMutabilityErrorWalker, of an argument for a var parameter.  The
\* parameter of an element is taken for a tuple.
Mutability(a) ==
    IF a.of \notin Mutables THEN {"rejected"} ELSE IF a.elem = 1 THEN Undefined ELSE {"running"}

MutabilityAt(i) ==
    LET args  == text[i].args
        ByRef == {p \in DOMAIN Callee(i).quals : Callee(i).quals[p]}
        At1(p) == IF p \in DOMAIN args THEN Mutability(args[p]) ELSE Undefined
    IN IF ~At(i, {"statement"}) \/ Callee(i).func THEN {"running"}
       ELSE {v \in {"rejected", "crashed"} : \E p \in ByRef :
                v \in At1(p) /\ \A q \in ByRef : q < p => "running" \in At1(q)}
            \cup (IF \A p \in ByRef : "running" \in At1(p) THEN {"running"} ELSE {})

\* visitFuncProcCallNode and emitFuncProcCall take as many arguments as the
\* definition has parameters; those of a procedure each read their parameter.
GenerationAt(i) ==
    LET given == Len(text[i].args)
        taken == Len(Callee(i).quals)
    IN IF Callee(i).returns = None /\ ~At(i, {"statement"}) THEN {"crashed"}
       ELSE IF given < taken \/ (given > taken /\ ~Callee(i).func) THEN Undefined \ {"rejected"}
       ELSE {"running"}

-----------------------------------------------------------------------------
(* The passes, in the order of main.cpp.                                   *)

\* A pass ends with the first call that does not let it go on.
Pass(name, VerdictAt(_), next) ==
    /\ pass = name /\ outcome = "running"
    /\ \/ /\ \A i \in Calls : "running" \in VerdictAt(i)
          /\ outcome' = IF next = "done" THEN "generated" ELSE "running"
          /\ pass' = next
       \/ \E i \in Calls :
             /\ \A j \in Calls : j < i => "running" \in VerdictAt(j)
             /\ outcome' \in VerdictAt(i) \ {"running"}
             /\ UNCHANGED pass
    /\ UNCHANGED text

ControlExpressions == Pass("control", ControlAt, "streams")
StdInOut           == Pass("streams", StreamsAt, "calls")
CallFuncCall       == Pass("calls", CallsAt, "results")
ProcReturnCall     == Pass("results", ResultsAt, "counts")
SameNumberOfParams == Pass("counts", CountsAt, "symbols")
DefineSymbols      == Pass("symbols", SymbolsAt, "aliasing")
Aliasing           == Pass("aliasing", AliasingAt, "types")
Types              == Pass("types", TypesAt, "mutability")
ArgumentMutability == Pass("mutability", MutabilityAt, "generation")
CodeGen            == Pass("generation", GenerationAt, "done")

Done == outcome # "running" /\ UNCHANGED vars

Next ==
    \/ \E h \in Header : ReadHeader(h)
    \/ \E c \in Call : ReadCall(c)
    \/ EndOfText
    \/ ControlExpressions \/ StdInOut \/ CallFuncCall \/ ProcReturnCall \/ SameNumberOfParams
    \/ DefineSymbols \/ Aliasing \/ Types \/ ArgumentMutability \/ CodeGen
    \/ Done

Spec == Init /\ [][Next]_vars

-----------------------------------------------------------------------------
(* Properties                                                              *)

\* The rules, as the passes' messages state them.
HeaderIsLegal(i) ==
    /\ \A j \in Headers : j < i /\ text[j].name = text[i].name =>
          [text[j] EXCEPT !.kind = "definition"] = text[i] /\ text[j].kind = "prototype"
    /\ text[i].name = Main =>
          ~text[i].func /\ text[i].quals = <<>> /\ text[i].returns = Integer

Share(a, b) == /\ a.of = b.of /\ a.of # NoVariable
               /\ a.elem = b.elem \/ 0 \in {a.elem, b.elem}

CallIsLegal(i) ==
    LET c == text[i]
        h == Callee(i)
        in_func == text[Inside(i)].func
    IN /\ Seen(i) # {} /\ Len(c.args) = Len(h.quals)
       /\ IF h.func THEN c.place # "statement"
                    ELSE ~in_func /\ At(i, {"statement", "assigned", "inferred", "unary"})
       /\ c.place # "statement" => h.returns # None
       /\ c.place = "control" => h.returns = Boolean
       /\ c.place = "output" => ~in_func
       /\ \A p \in DOMAIN c.args : h.quals[p] =>
             /\ c.args[p].of \in Mutables
             /\ \A q \in DOMAIN c.args \ {p} : ~Share(c.args[p], c.args[q])

Legal == /\ \A i \in Headers : HeaderIsLegal(i)
         /\ HasMain /\ AllAreDefined /\ \A i \in Calls : CallIsLegal(i)

GivesElement(i) == \E p \in DOMAIN text[i].args \cap DOMAIN Callee(i).quals :
                       Callee(i).quals[p] /\ text[i].args[p].elem = 1

(***************************************************************************)
(* A text that obeys the rules is compiled, with and without prototypes,   *)
(* for recursive calls, calls before the definition and in every place:    *)
(* no map of a pass is behind (or ahead) of what stands before the call.   *)
(* ArgumentMutabilityErrorWalker takes the parameter of a tuple's element  *)
(* for a tuple (ArgumentMutabilityErrorWalker.cpp:115), so what happens    *)
(* when an element is given to a var parameter is not promised.  Nor is    *)
(* anything of a procedure's call as an operand of a binary operation: the *)
(* rules forbid it (tests/Part1Failed/CallError3.test:14), CallsAt takes   *)
(* one such operand, and a text that has one is not a legal text.          *)
(***************************************************************************)
LegalIsAccepted ==
    outcome \in {"rejected", "crashed"} =>
        IF pass = "headers" THEN \E i \in Headers : ~HeaderIsLegal(i)
        ELSE Legal => \E i \in Calls : GivesElement(i)

(***************************************************************************)
(* A call that code was generated for suits the definition it will run,    *)
(* although four passes judged it by other headers: it has its number of   *)
(* arguments if it stands where calls are counted and no prototype had     *)
(* announced another number (which nobody compares), is a statement only   *)
(* of a procedure in a procedure, gives no result that is not there, and   *)
(* is a condition only as a boolean, unless it was met in the body of what *)
(* it calls, of which the pass knew nothing.  A procedure is never both    *)
(* operands of an operation; that it is not one either, which              *)
(* tests/Part1Failed/CallError3.test:14-21 asks, the passes do not see to. *)
(***************************************************************************)
CallsFit ==
    outcome = "generated" => \A i \in Calls :
        LET h == Callee(i)
        IN /\ At(i, {"statement", "assigned", "inferred", "operand", "operands"})
              /\ Len(text[Max(Seen(i))].quals) = Len(h.quals)
              => Len(text[i].args) = Len(h.quals)
           /\ IF At(i, {"statement"}) THEN ~h.func /\ ~text[Inside(i)].func
                                      ELSE h.returns # None
           /\ At(i, {"returned", "operands"}) => h.func
           /\ At(i, {"control"}) /\ Visited(i) # {} => h.returns = Boolean

(***************************************************************************)
(* What a call statement gives to a var parameter is a variable that may   *)
(* change and that no other argument shares.  An earlier const argument    *)
(* may share it, and so may a whole tuple behind its element: only what    *)
(* was given to var is remembered, and '?' + tuple_id is looked for when   *)
(* tuple_id is empty (AliasingErrorWalker.cpp:111).                        *)
(***************************************************************************)
VarArgumentsAreExclusive ==
    outcome = "generated" => \A i \in Calls : At(i, {"statement"}) =>
        LET args  == text[i].args
            quals == Callee(i).quals
            both  == DOMAIN args \cap DOMAIN quals
        IN \A p \in both : quals[p] =>
              /\ args[p].of \in Mutables
              /\ \A q \in both \ {p} : Share(args[p], args[q]) =>
                    \/ q < p /\ ~quals[q]
                    \/ args[IF p < q THEN p ELSE q].elem = 1 /\ args[IF p < q THEN q ELSE p].elem = 0
=============================================================================
