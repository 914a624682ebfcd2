------------------------- MODULE SubroutinesProofs -------------------------
(***************************************************************************)
(* Proofs about Subroutines, for any number of headers, calls, parameters  *)
(* and names: no map of a pass is behind what stands before a call.        *)
(***************************************************************************)
EXTENDS Subroutines, SequenceTheorems, WellFoundedInduction, TLAPS

-----------------------------------------------------------------------------
(* The inductive invariant.                                                *)

TextInv ==
    /\ text \in Seq(Header \cup Call)
    /\ pass \in {"headers", "control", "streams", "calls", "results", "counts", "symbols",
                 "aliasing", "types", "mutability", "generation", "done"}
    /\ outcome \in {"running", "rejected", "crashed", "generated"}
    /\ outcome = "generated" <=> pass = "done"

\* A name has one prototype and one definition behind it, of the same kind
\* and with the same result.
HeadersAgree ==
    \A j \in Headers : \A k \in Headers : j < k /\ text[j].name = text[k].name =>
        /\ text[j].kind = "prototype" /\ text[k].kind = "definition"
        /\ text[j].func = text[k].func /\ text[j].returns = text[k].returns

HeadersInv ==
    /\ pass # "headers" \/ outcome = "running" => HeadersAgree
    /\ pass # "headers" /\ outcome \in {"running", "generated"} => AllAreDefined

\* What the passes that are over have let through ...
ControlPassed    == \A i \in Calls : "running" \in ControlAt(i)
CallsPassed      == \A i \in Calls : "running" \in CallsAt(i)
CountsPassed     == \A i \in Calls : "running" \in CountsAt(i)
SymbolsPassed    == \A i \in Calls : "running" \in SymbolsAt(i)
AliasingPassed   == \A i \in Calls : "running" \in AliasingAt(i)
MutabilityPassed == \A i \in Calls : "running" \in MutabilityAt(i)
GenerationPassed == \A i \in Calls : "running" \in GenerationAt(i)

PassedInv ==
    /\ pass \notin {"headers", "control"} => ControlPassed
    /\ pass \notin {"headers", "control", "streams", "calls"} => CallsPassed
    /\ pass \in {"symbols", "aliasing", "types", "mutability", "generation", "done"} => CountsPassed
    /\ pass \in {"aliasing", "types", "mutability", "generation", "done"} => SymbolsPassed
    /\ pass \in {"types", "mutability", "generation", "done"} => AliasingPassed
    /\ pass \in {"generation", "done"} => MutabilityPassed
    /\ pass = "done" => GenerationPassed

\* ... and what the pass that stopped has met.
StoppedInv ==
    outcome \in {"rejected", "crashed"} =>
        \/ pass = "headers" /\ \E i \in Headers : ~HeaderIsLegal(i)
        \/ pass = "control" /\ ~(HasMain /\ AllAreDefined)
        \/ \E i \in Calls :
              \/ pass = "control"    /\ ControlAt(i) # {"running"}
              \/ pass = "streams"    /\ StreamsAt(i) # {"running"}
              \/ pass = "calls"      /\ CallsAt(i) # {"running"}
              \/ pass = "results"    /\ ResultsAt(i) # {"running"}
              \/ pass = "counts"     /\ CountsAt(i) # {"running"}
              \/ pass = "symbols"    /\ SymbolsAt(i) # {"running"}
              \/ pass = "aliasing"   /\ AliasingAt(i) # {"running"}
              \/ pass = "types"      /\ TypesAt(i) # {"running"}
              \/ pass = "mutability" /\ MutabilityAt(i) # {"running"}
              \/ pass = "generation" /\ GenerationAt(i) # {"running"}

IInv == TextInv /\ HeadersInv /\ PassedInv /\ StoppedInv

-----------------------------------------------------------------------------
(* Facts about the operators.                                              *)

\* The last and the first of some places in a text.
LEMMA LastIsOne ==
    ASSUME NEW n \in Nat, NEW S \in SUBSET (1..n), S # {}
    PROVE  Max(S) \in S /\ \A k \in S : k <= Max(S)
<1>. DEFINE T == {n - k : k \in S}
<1>1. T # {} /\ T \subseteq Nat
  <2>1. \A k \in S : k \in 1..n /\ n - k \in Nat
    OBVIOUS
  <2>. QED
    BY <2>1
<1>2. \E t \in T : \A u \in T : ~(<<u, t>> \in OpToRel(<, Nat))
  BY <1>1, NatLessThanWellFounded, WFMin
<1>3. PICK t \in T : \A u \in T : ~(u < t)
  BY <1>1, <1>2 DEF OpToRel
<1>4. PICK k \in S : t = n - k
  OBVIOUS
<1>5. ASSUME NEW j \in S PROVE k >= j
  <2>1. n - j \in T /\ j \in Int /\ k \in Int
    OBVIOUS
  <2>. QED
    BY <1>3, <1>4, <2>1
<1>. QED
  BY <1>5 DEF Max

LEMMA FirstIsOne ==
    ASSUME NEW S \in SUBSET Nat, S # {}
    PROVE  Min(S) \in S
<1>1. \E k \in S : \A j \in S : ~(<<j, k>> \in OpToRel(<, Nat))
  BY NatLessThanWellFounded, WFMin
<1>2. PICK k \in S : \A j \in S : ~(j < k)
  BY <1>1 DEF OpToRel
<1>3. \A j \in S : k <= j
  BY <1>2
<1>. QED
  BY <1>3 DEF Min

LEMMA UpToAreSequences ==
    ASSUME NEW S, NEW n \in Nat, NEW s \in UpTo(S, n)
    PROVE  s \in Seq(S)
<1>1. PICK k \in 0..n : s \in [1..k -> S]
  BY DEF UpTo
<1>. QED
  BY <1>1

\* What a text consists of.
LEMMA HeaderHas ==
    ASSUME TextInv, NEW i \in Headers
    PROVE  /\ i \in DOMAIN text /\ text[i] \in Header
           /\ text[i].kind \in {"prototype", "definition"}
           /\ text[i].func \in BOOLEAN /\ text[i].quals \in Seq(BOOLEAN)
           /\ text[i].name \in Names
<1>1. i \in DOMAIN text /\ text[i] \in Header \cup Call /\ text[i].kind # "call"
  BY DEF TextInv, Headers
<1>2. text[i] \in Header
  BY <1>1 DEF Call
<1>3. MaxParams \in Nat
  BY SubroutinesAssumption
<1>. HIDE DEF UpTo
<1>4. text[i].quals \in UpTo(BOOLEAN, MaxParams)
  BY <1>2 DEF Header
<1>. QED
  BY <1>1, <1>2, <1>3, <1>4, UpToAreSequences DEF Header

LEMMA CallHas ==
    ASSUME TextInv, NEW i \in Calls
    PROVE  /\ i \in DOMAIN text /\ text[i] \in Call /\ text[i].kind = "call"
           /\ text[i].args \in Seq(Arg) /\ text[i].place \in Place
<1>1. i \in DOMAIN text /\ text[i] \in Header \cup Call /\ text[i].kind = "call"
  BY DEF TextInv, Headers, Calls
<1>2. text[i] \in Call
  BY <1>1 DEF Header
<1>3. MaxParams \in Nat
  BY SubroutinesAssumption
<1>. HIDE DEF UpTo
<1>4. text[i].args \in UpTo(Arg, MaxParams)
  BY <1>2 DEF Call
<1>. QED
  BY <1>1, <1>2, <1>3, <1>4, UpToAreSequences DEF Call

LEMMA SeenHas ==
    ASSUME TextInv, NEW i \in Calls
    PROVE  /\ Seen(i) \in SUBSET Headers /\ Seen(i) \in SUBSET (1..Len(text))
           /\ Visited(i) \in SUBSET Seen(i) /\ Len(text) \in Nat
           /\ Seen(i) # {}    => Max(Seen(i)) \in Seen(i)
           /\ Visited(i) # {} => Max(Visited(i)) \in Visited(i)
<1>1. Len(text) \in Nat /\ DOMAIN text = 1..Len(text)
  BY DEF TextInv
<1>2. Seen(i) \in SUBSET (1..Len(text)) /\ Seen(i) \in SUBSET Headers
  BY <1>1 DEF Seen, Headers
<1>3. Visited(i) \in SUBSET Seen(i) /\ Visited(i) \in SUBSET (1..Len(text))
  BY <1>2 DEF Visited
<1>. QED
  BY <1>1, <1>2, <1>3, LastIsOne

\* The header a call's symbol has in the end, and those seen before it.
LEMMA CalleeIs ==
    ASSUME TextInv, HeadersAgree, AllAreDefined, NEW i \in Calls, Seen(i) # {}
    PROVE  \E d \in Headers :
               /\ Callee(i) = text[d] /\ text[d].name = text[i].name
               /\ text[d].kind = "definition"
               /\ \A j \in Seen(i) : text[j].func = text[d].func
                                     /\ text[j].returns = text[d].returns
<1>1. PICK j \in Headers : text[j].name = text[i].name
  BY DEF Seen
<1>2. Definitions(text[i].name) # {}
  BY <1>1 DEF AllAreDefined
<1>3. PICK d \in Definitions(text[i].name) : Callee(i) = text[d]
  BY <1>2 DEF Callee
<1>4. d \in Headers /\ text[d].name = text[i].name /\ text[d].kind = "definition"
  BY <1>3 DEF Definitions
<1>5. ASSUME NEW k \in Seen(i)
      PROVE  text[k].func = text[d].func /\ text[k].returns = text[d].returns
  <2>1. k \in Headers /\ text[k].name = text[d].name /\ k \in Nat /\ d \in Nat
    BY <1>4, HeaderHas DEF Seen, Headers, TextInv
  <2>2. k < d \/ d < k \/ k = d
    BY <2>1
  <2>. QED
    BY <1>4, <2>1, <2>2 DEF HeadersAgree
<1>. QED
  BY <1>3, <1>4, <1>5

-----------------------------------------------------------------------------
(* The invariant is kept.                                                  *)

\* Headers, calls and what is said of them depend on the text only.
LEMMA SameText ==
    ASSUME text' = text
    PROVE  /\ Headers' = Headers /\ Calls' = Calls
           /\ (HeadersAgree' <=> HeadersAgree) /\ (AllAreDefined' <=> AllAreDefined)
           /\ (HasMain' <=> HasMain)
           /\ \A i : HeaderIsLegal(i)' <=> HeaderIsLegal(i)
<1>1. Headers' = Headers
  BY DEF Headers
<1>. QED
  BY <1>1 DEF Headers, Calls, HeadersAgree, AllAreDefined, Definitions, HasMain, HeaderIsLegal

LEMMA SameVerdicts ==
    ASSUME text' = text, NEW i
    PROVE  /\ ControlAt(i)' = ControlAt(i) /\ StreamsAt(i)' = StreamsAt(i)
           /\ CallsAt(i)' = CallsAt(i) /\ ResultsAt(i)' = ResultsAt(i)
           /\ CountsAt(i)' = CountsAt(i) /\ SymbolsAt(i)' = SymbolsAt(i)
           /\ AliasingAt(i)' = AliasingAt(i) /\ TypesAt(i)' = TypesAt(i)
           /\ MutabilityAt(i)' = MutabilityAt(i) /\ GenerationAt(i)' = GenerationAt(i)
<1>1. Headers' = Headers
  BY DEF Headers
<1>2. Seen(i)' = Seen(i) /\ Inside(i)' = Inside(i)
  BY <1>1 DEF Seen, Inside
<1>3. Visited(i)' = Visited(i)
  BY <1>2 DEF Visited
<1>4. Callee(i)' = Callee(i)
  BY <1>1 DEF Callee, Definitions
<1>5. \A places : At(i, places)' <=> At(i, places)
  BY DEF At
<1>6. InFunctionNames(i)' <=> InFunctionNames(i)
  BY <1>2 DEF InFunctionNames
<1>7. ControlAt(i)' = ControlAt(i) /\ StreamsAt(i)' = StreamsAt(i) /\ CallsAt(i)' = CallsAt(i)
  BY <1>2, <1>3, <1>5, <1>6 DEF ControlAt, StreamsAt, CallsAt, Verdict
<1>8. ResultsAt(i)' = ResultsAt(i) /\ CountsAt(i)' = CountsAt(i) /\ SymbolsAt(i)' = SymbolsAt(i)
  BY <1>2, <1>5 DEF ResultsAt, CountsAt, SymbolsAt, Verdict
<1>9. AliasingAt(i)' = AliasingAt(i) /\ TypesAt(i)' = TypesAt(i)
  BY <1>4, <1>5 DEF AliasingAt, TypesAt
<1>10. MutabilityAt(i)' = MutabilityAt(i)
  BY <1>4, <1>5 DEF MutabilityAt
<1>11. GenerationAt(i)' = GenerationAt(i)
  BY <1>4, <1>5 DEF GenerationAt
<1>. QED
  BY <1>7, <1>8, <1>9, <1>10, <1>11

LEMMA SamePassed ==
    ASSUME text' = text
    PROVE  /\ (ControlPassed' <=> ControlPassed) /\ (CallsPassed' <=> CallsPassed)
           /\ (CountsPassed' <=> CountsPassed) /\ (SymbolsPassed' <=> SymbolsPassed)
           /\ (AliasingPassed' <=> AliasingPassed) /\ (MutabilityPassed' <=> MutabilityPassed)
           /\ (GenerationPassed' <=> GenerationPassed)
BY SameText, SameVerdicts DEF ControlPassed, CallsPassed, CountsPassed, SymbolsPassed,
   AliasingPassed, MutabilityPassed, GenerationPassed

LEMMA VerdictsAre ==
    ASSUME NEW i
    PROVE  /\ ControlAt(i) \subseteq Undefined /\ StreamsAt(i) \subseteq Undefined
           /\ CallsAt(i) \subseteq Undefined /\ ResultsAt(i) \subseteq Undefined
           /\ CountsAt(i) \subseteq Undefined /\ SymbolsAt(i) \subseteq Undefined
           /\ AliasingAt(i) \subseteq Undefined /\ TypesAt(i) \subseteq Undefined
           /\ MutabilityAt(i) \subseteq Undefined /\ GenerationAt(i) \subseteq Undefined
<1>1. \A ok : Verdict(ok) \subseteq Undefined
  BY DEF Verdict, Undefined
<1>2. ControlAt(i) \subseteq Undefined
  BY <1>1 DEF ControlAt, Undefined
<1>3. /\ StreamsAt(i) \subseteq Undefined /\ CallsAt(i) \subseteq Undefined
      /\ ResultsAt(i) \subseteq Undefined /\ CountsAt(i) \subseteq Undefined
      /\ SymbolsAt(i) \subseteq Undefined
  BY <1>1 DEF StreamsAt, CallsAt, ResultsAt, CountsAt, SymbolsAt
<1>4. AliasingAt(i) \subseteq Undefined /\ TypesAt(i) \subseteq Undefined
  BY DEF AliasingAt, TypesAt, Undefined
<1>5. MutabilityAt(i) \subseteq Undefined
  BY DEF MutabilityAt, Undefined
<1>6. GenerationAt(i) \subseteq Undefined
  BY DEF GenerationAt, Undefined
<1>. QED
  BY <1>2, <1>3, <1>4, <1>5, <1>6

\* One more header or call at the end.
LEMMA OneMore ==
    ASSUME TextInv, NEW n \in Header \cup Call, text' = Append(text, n)
    PROVE  /\ text' \in Seq(Header \cup Call) /\ Len(text) \in Nat
           /\ DOMAIN text = 1..Len(text) /\ DOMAIN text' = 1..(Len(text) + 1)
           /\ \A i \in DOMAIN text : text'[i] = text[i]
           /\ text'[Len(text) + 1] = n
           /\ Headers' = Headers \cup (IF n.kind = "call" THEN {} ELSE {Len(text) + 1})
           /\ Headers \subseteq DOMAIN text
<1>1. text \in Seq(Header \cup Call)
  BY DEF TextInv
<1>2. /\ text' \in Seq(Header \cup Call) /\ Len(text) \in Nat
      /\ DOMAIN text = 1..Len(text) /\ DOMAIN text' = 1..(Len(text) + 1)
      /\ \A i \in DOMAIN text : text'[i] = text[i]
      /\ text'[Len(text) + 1] = n
  BY <1>1
<1>3. DOMAIN text' = DOMAIN text \cup {Len(text) + 1}
  BY <1>2
<1>. QED
  BY <1>2, <1>3 DEF Headers

LEMMA InitKeeps == Init => IInv
<1>. SUFFICES ASSUME Init PROVE IInv
  OBVIOUS
<1>1. text = <<>> /\ DOMAIN text = {} /\ text \in Seq(Header \cup Call)
  BY DEF Init
<1>2. TextInv
  BY <1>1 DEF Init, TextInv
<1>3. HeadersInv
  BY <1>1 DEF Init, HeadersInv, HeadersAgree, Headers
<1>4. PassedInv /\ StoppedInv
  BY DEF Init, PassedInv, StoppedInv
<1>. QED
  BY <1>2, <1>3, <1>4 DEF IInv

LEMMA ReadHeaderKeeps ==
    ASSUME IInv, NEW h \in Header, ReadHeader(h)
    PROVE  IInv'
<1>0. PICK k : k = Len(text) + 1
  OBVIOUS
<1>1. /\ pass = "headers" /\ pass' = pass /\ outcome = "running" /\ text' = Append(text, h)
      /\ outcome' \in IF MainAccepted(h) THEN DefinitionVerdict(h) ELSE {"rejected"}
  BY DEF ReadHeader, Read
<1>2. TextInv /\ HeadersAgree
  BY <1>1 DEF IInv, HeadersInv
<1>3. h.kind \in {"prototype", "definition"} /\ h.kind # "call"
  BY DEF Header
<1>4. /\ text' \in Seq(Header \cup Call) /\ Headers' = Headers \cup {k}
      /\ \A i \in Headers : text'[i] = text[i] /\ i < k /\ i \in Nat
      /\ text'[k] = h /\ k \in Nat
  BY <1>0, <1>1, <1>2, <1>3, OneMore
<1>5. \A j \in Headers : Qualifiers(text[j].quals, h.quals) \subseteq Undefined
  BY DEF Qualifiers, Undefined
<1>6. DefinitionVerdict(h) \subseteq Undefined
  <2>. SUFFICES ASSUME NEW v \in DefinitionVerdict(h) PROVE v \in Undefined
    OBVIOUS
  <2>1. \/ v \in {"running", "rejected"}
        \/ v \in UNION {Qualifiers(text[j].quals, h.quals) : j \in Of(h, "prototype")}
    BY DEF DefinitionVerdict
  <2>. QED
    BY <1>5, <2>1 DEF Of, Undefined
<1>7. outcome' \in Undefined
  BY <1>1, <1>6 DEF Undefined
<1>8. TextInv'
  BY <1>1, <1>4, <1>7 DEF TextInv, Undefined
<1>9. outcome' = "running" => HeadersAgree'
  <2>. SUFFICES ASSUME outcome' = "running",
                       NEW i \in Headers', NEW j \in Headers', i < j, text'[i].name = text'[j].name
                PROVE  /\ text'[i].kind = "prototype" /\ text'[j].kind = "definition"
                       /\ text'[i].func = text'[j].func /\ text'[i].returns = text'[j].returns
    BY DEF HeadersAgree
  <2>1. CASE j \in Headers
    <3>1. i \in Headers
      BY <1>4, <2>1
    <3>. QED
      BY <1>2, <1>4, <2>1, <3>1 DEF HeadersAgree
  <2>2. CASE j = k
    <3>1. i \in Headers
      BY <1>4, <2>2
    <3>2. text[i].name = h.name /\ text[i].kind \in {"prototype", "definition"}
      BY <1>2, <1>4, <2>2, <3>1, HeaderHas
    <3>3. DefinitionVerdict(h) # {"rejected"}
      BY <1>1
    <3>4. /\ Of(h, "definition") = {}
          /\ ~(h.kind = "prototype" /\ Of(h, "prototype") # {})
          /\ \A p \in Of(h, "prototype") : Agrees(h, p)
      BY <3>3 DEF DefinitionVerdict
    <3>5. text[i].kind = "prototype" /\ i \in Of(h, "prototype")
      BY <3>1, <3>2, <3>4 DEF Of
    <3>6. h.kind = "definition" /\ Agrees(h, i)
      BY <1>3, <3>4, <3>5
    <3>. QED
      BY <1>4, <2>2, <3>1, <3>5, <3>6 DEF Agrees
  <2>. QED
    BY <1>4, <2>1, <2>2
<1>10. HeadersInv'
  BY <1>1, <1>9 DEF HeadersInv
<1>11. PassedInv'
  BY <1>1 DEF PassedInv
<1>12. outcome' # "running" => ~HeaderIsLegal(k)'
  <2>. SUFFICES ASSUME outcome' # "running", HeaderIsLegal(k)' PROVE FALSE
    OBVIOUS
  <2>1. /\ \A j \in Headers : text[j].name = h.name =>
               [text[j] EXCEPT !.kind = "definition"] = h /\ text[j].kind = "prototype"
        /\ h.name = Main => ~h.func /\ h.quals = <<>> /\ h.returns = Integer
    BY <1>4 DEF HeaderIsLegal
  <2>2. MainAccepted(h)
    BY <2>1 DEF MainAccepted
  <2>3. ASSUME NEW j \in Headers, text[j].name = h.name
        PROVE  /\ h.kind = "definition" /\ text[j].func = h.func /\ text[j].quals = h.quals
               /\ text[j].returns = h.returns /\ text[j].kind = "prototype"
    <3>1. text[j] \in Header
      BY <1>2, HeaderHas
    <3>2. [text[j] EXCEPT !.kind = "definition"] = h /\ text[j].kind = "prototype"
      BY <2>1, <2>3
    <3>. HIDE DEF UpTo
    <3>3. text[j] \in [kind: {"prototype", "definition"}, name: Names, func: BOOLEAN,
                       quals: UpTo(BOOLEAN, MaxParams), returns: {Integer, Boolean, None}]
      BY <3>1 DEF Header
    <3>. QED
      BY <3>2, <3>3
  <2>4. Of(h, "definition") = {} /\ (Of(h, "prototype") # {} => h.kind = "definition")
    BY <2>3 DEF Of
  <2>5. \A j \in Of(h, "prototype") : Agrees(h, j) /\ Qualifiers(text[j].quals, h.quals) = {"running"}
    <3>. SUFFICES ASSUME NEW j \in Of(h, "prototype")
                  PROVE  Agrees(h, j) /\ Qualifiers(text[j].quals, h.quals) = {"running"}
      OBVIOUS
    <3>1. j \in Headers /\ text[j].name = h.name
      BY DEF Of
    <3>2. text[j].quals = h.quals /\ text[j].func = h.func /\ text[j].returns = h.returns
      BY <2>3, <3>1
    <3>3. h.quals \in Seq(BOOLEAN)
      BY <1>2, <3>1, <3>2, HeaderHas
    <3>4. Len(h.quals) \in Nat
      BY <3>3
    <3>. QED
      BY <3>2, <3>4 DEF Agrees, Qualifiers
  <2>6. DefinitionVerdict(h) \subseteq {"running"}
    <3>. SUFFICES ASSUME NEW v \in DefinitionVerdict(h) PROVE v = "running"
      OBVIOUS
    <3>1. ~(\/ Of(h, "definition") # {}
            \/ h.kind = "prototype" /\ Of(h, "prototype") # {}
            \/ \E j \in Of(h, "prototype") : ~Agrees(h, j))
      BY <2>4, <2>5
    <3>2. \/ v = "running"
          \/ v \in UNION {Qualifiers(text[j].quals, h.quals) : j \in Of(h, "prototype")}
      BY <3>1 DEF DefinitionVerdict
    <3>. QED
      BY <2>5, <3>2
  <2>. QED
    BY <1>1, <2>2, <2>6
<1>13. StoppedInv'
  <2>1. outcome' # "running" => \E i \in Headers' : ~HeaderIsLegal(i)'
    BY <1>4, <1>12
  <2>. QED
    BY <1>1, <2>1 DEF StoppedInv
<1>. QED
  BY <1>8, <1>10, <1>11, <1>13 DEF IInv

LEMMA ReadCallKeeps ==
    ASSUME IInv, NEW c \in Call, ReadCall(c)
    PROVE  IInv'
<1>1. pass = "headers" /\ UNCHANGED <<pass, outcome>> /\ outcome = "running" /\ text' = Append(text, c)
  BY DEF ReadCall, Read
<1>2. TextInv /\ HeadersAgree /\ c.kind = "call"
  BY <1>1 DEF IInv, HeadersInv, Call
<1>3. /\ text' \in Seq(Header \cup Call) /\ Headers' = Headers
      /\ \A i \in Headers : text'[i] = text[i]
  BY <1>1, <1>2, OneMore
<1>4. TextInv'
  BY <1>1, <1>2, <1>3 DEF TextInv
<1>5. HeadersInv'
  <2>1. HeadersAgree'
    BY <1>2, <1>3 DEF HeadersAgree
  <2>. QED
    BY <1>1, <2>1 DEF HeadersInv
<1>6. PassedInv' /\ StoppedInv'
  BY <1>1 DEF PassedInv, StoppedInv
<1>. QED
  BY <1>4, <1>5, <1>6 DEF IInv

LEMMA EndOfTextKeeps ==
    ASSUME IInv, EndOfText
    PROVE  IInv'
<1>1. /\ pass = "headers" /\ outcome = "running" /\ pass' = "control" /\ text' = text
      /\ outcome' = IF HasMain /\ AllAreDefined THEN "running" ELSE "rejected"
  BY DEF EndOfText, Verdict
<1>2. TextInv /\ HeadersAgree
  BY <1>1 DEF IInv, HeadersInv
<1>3. TextInv'
  BY <1>1, <1>2 DEF TextInv
<1>4. HeadersInv'
  BY <1>1, <1>2, SameText DEF HeadersInv
<1>5. PassedInv'
  BY <1>1 DEF PassedInv
<1>6. StoppedInv'
  BY <1>1, SameText DEF StoppedInv
<1>. QED
  BY <1>3, <1>4, <1>5, <1>6 DEF IInv

\* What the passes have in common.
LEMMA PassKeeps ==
    ASSUME IInv, text' = text, pass # "headers", outcome = "running",
           pass' # "headers", pass' \in {"control", "streams", "calls", "results", "counts",
               "symbols", "aliasing", "types", "mutability", "generation", "done"},
           \/ outcome' = (IF pass' = "done" THEN "generated" ELSE "running")
           \/ pass' # "done" /\ outcome' \in Undefined \ {"running"}
    PROVE  TextInv' /\ HeadersInv'
<1>1. TextInv /\ HeadersAgree /\ AllAreDefined
  BY DEF IInv, HeadersInv
<1>2. TextInv'
  BY <1>1 DEF TextInv, Undefined
<1>3. HeadersInv'
  BY <1>1, SameText DEF HeadersInv
<1>. QED
  BY <1>2, <1>3

LEMMA ControlExpressionsKeeps ==
    ASSUME IInv, ControlExpressions
    PROVE  IInv'
<1>1. pass = "control" /\ outcome = "running" /\ text' = text
  BY DEF ControlExpressions, Pass
<1>2. CASE pass' = "streams" /\ outcome' = "running" /\ \A i \in Calls : "running" \in ControlAt(i)
  <2>1. TextInv' /\ HeadersInv'
    BY <1>1, <1>2, PassKeeps
  <2>2. PassedInv'
    BY <1>1, <1>2, SamePassed DEF IInv, PassedInv, ControlPassed
  <2>3. StoppedInv'
    BY <1>2 DEF StoppedInv
  <2>. QED
    BY <2>1, <2>2, <2>3 DEF IInv
<1>3. ASSUME NEW i \in Calls, pass' = pass, outcome' \in ControlAt(i) \ {"running"}
      PROVE  IInv'
  <2>1. outcome' \in Undefined \ {"running"} /\ ControlAt(i) # {"running"}
    BY <1>3, VerdictsAre
  <2>2. TextInv' /\ HeadersInv'
    BY <1>1, <1>3, <2>1, PassKeeps
  <2>3. PassedInv'
    BY <1>1, <1>3, SamePassed DEF IInv, PassedInv
  <2>4. StoppedInv'
    <3>1. i \in Calls' /\ ControlAt(i)' # {"running"}
      BY <1>1, <2>1, SameText, SameVerdicts
    <3>. QED
      BY <1>1, <1>3, <3>1 DEF StoppedInv
  <2>. QED
    BY <2>2, <2>3, <2>4 DEF IInv
<1>. QED
  BY <1>2, <1>3 DEF ControlExpressions, Pass

LEMMA StdInOutKeeps ==
    ASSUME IInv, StdInOut
    PROVE  IInv'
<1>1. pass = "streams" /\ outcome = "running" /\ text' = text
  BY DEF StdInOut, Pass
<1>2. CASE pass' = "calls" /\ outcome' = "running" /\ \A i \in Calls : "running" \in StreamsAt(i)
  <2>1. TextInv' /\ HeadersInv'
    BY <1>1, <1>2, PassKeeps
  <2>2. PassedInv'
    BY <1>1, <1>2, SamePassed DEF IInv, PassedInv
  <2>3. StoppedInv'
    BY <1>2 DEF StoppedInv
  <2>. QED
    BY <2>1, <2>2, <2>3 DEF IInv
<1>3. ASSUME NEW i \in Calls, pass' = pass, outcome' \in StreamsAt(i) \ {"running"}
      PROVE  IInv'
  <2>1. outcome' \in Undefined \ {"running"} /\ StreamsAt(i) # {"running"}
    BY <1>3, VerdictsAre
  <2>2. TextInv' /\ HeadersInv'
    BY <1>1, <1>3, <2>1, PassKeeps
  <2>3. PassedInv'
    BY <1>1, <1>3, SamePassed DEF IInv, PassedInv
  <2>4. StoppedInv'
    <3>1. i \in Calls' /\ StreamsAt(i)' # {"running"}
      BY <1>1, <2>1, SameText, SameVerdicts
    <3>. QED
      BY <1>1, <1>3, <3>1 DEF StoppedInv
  <2>. QED
    BY <2>2, <2>3, <2>4 DEF IInv
<1>. QED
  BY <1>2, <1>3 DEF StdInOut, Pass

LEMMA CallFuncCallKeeps ==
    ASSUME IInv, CallFuncCall
    PROVE  IInv'
<1>1. pass = "calls" /\ outcome = "running" /\ text' = text
  BY DEF CallFuncCall, Pass
<1>2. CASE pass' = "results" /\ outcome' = "running" /\ \A i \in Calls : "running" \in CallsAt(i)
  <2>1. TextInv' /\ HeadersInv'
    BY <1>1, <1>2, PassKeeps
  <2>2. PassedInv'
    BY <1>1, <1>2, SamePassed DEF IInv, PassedInv, CallsPassed
  <2>3. StoppedInv'
    BY <1>2 DEF StoppedInv
  <2>. QED
    BY <2>1, <2>2, <2>3 DEF IInv
<1>3. ASSUME NEW i \in Calls, pass' = pass, outcome' \in CallsAt(i) \ {"running"}
      PROVE  IInv'
  <2>1. outcome' \in Undefined \ {"running"} /\ CallsAt(i) # {"running"}
    BY <1>3, VerdictsAre
  <2>2. TextInv' /\ HeadersInv'
    BY <1>1, <1>3, <2>1, PassKeeps
  <2>3. PassedInv'
    BY <1>1, <1>3, SamePassed DEF IInv, PassedInv
  <2>4. StoppedInv'
    <3>1. i \in Calls' /\ CallsAt(i)' # {"running"}
      BY <1>1, <2>1, SameText, SameVerdicts
    <3>. QED
      BY <1>1, <1>3, <3>1 DEF StoppedInv
  <2>. QED
    BY <2>2, <2>3, <2>4 DEF IInv
<1>. QED
  BY <1>2, <1>3 DEF CallFuncCall, Pass

LEMMA ProcReturnCallKeeps ==
    ASSUME IInv, ProcReturnCall
    PROVE  IInv'
<1>1. pass = "results" /\ outcome = "running" /\ text' = text
  BY DEF ProcReturnCall, Pass
<1>2. CASE pass' = "counts" /\ outcome' = "running" /\ \A i \in Calls : "running" \in ResultsAt(i)
  <2>1. TextInv' /\ HeadersInv'
    BY <1>1, <1>2, PassKeeps
  <2>2. PassedInv'
    BY <1>1, <1>2, SamePassed DEF IInv, PassedInv
  <2>3. StoppedInv'
    BY <1>2 DEF StoppedInv
  <2>. QED
    BY <2>1, <2>2, <2>3 DEF IInv
<1>3. ASSUME NEW i \in Calls, pass' = pass, outcome' \in ResultsAt(i) \ {"running"}
      PROVE  IInv'
  <2>1. outcome' \in Undefined \ {"running"} /\ ResultsAt(i) # {"running"}
    BY <1>3, VerdictsAre
  <2>2. TextInv' /\ HeadersInv'
    BY <1>1, <1>3, <2>1, PassKeeps
  <2>3. PassedInv'
    BY <1>1, <1>3, SamePassed DEF IInv, PassedInv
  <2>4. StoppedInv'
    <3>1. i \in Calls' /\ ResultsAt(i)' # {"running"}
      BY <1>1, <2>1, SameText, SameVerdicts
    <3>. QED
      BY <1>1, <1>3, <3>1 DEF StoppedInv
  <2>. QED
    BY <2>2, <2>3, <2>4 DEF IInv
<1>. QED
  BY <1>2, <1>3 DEF ProcReturnCall, Pass

LEMMA SameNumberOfParamsKeeps ==
    ASSUME IInv, SameNumberOfParams
    PROVE  IInv'
<1>1. pass = "counts" /\ outcome = "running" /\ text' = text
  BY DEF SameNumberOfParams, Pass
<1>2. CASE pass' = "symbols" /\ outcome' = "running" /\ \A i \in Calls : "running" \in CountsAt(i)
  <2>1. TextInv' /\ HeadersInv'
    BY <1>1, <1>2, PassKeeps
  <2>2. PassedInv'
    BY <1>1, <1>2, SamePassed DEF IInv, PassedInv, CountsPassed
  <2>3. StoppedInv'
    BY <1>2 DEF StoppedInv
  <2>. QED
    BY <2>1, <2>2, <2>3 DEF IInv
<1>3. ASSUME NEW i \in Calls, pass' = pass, outcome' \in CountsAt(i) \ {"running"}
      PROVE  IInv'
  <2>1. outcome' \in Undefined \ {"running"} /\ CountsAt(i) # {"running"}
    BY <1>3, VerdictsAre
  <2>2. TextInv' /\ HeadersInv'
    BY <1>1, <1>3, <2>1, PassKeeps
  <2>3. PassedInv'
    BY <1>1, <1>3, SamePassed DEF IInv, PassedInv
  <2>4. StoppedInv'
    <3>1. i \in Calls' /\ CountsAt(i)' # {"running"}
      BY <1>1, <2>1, SameText, SameVerdicts
    <3>. QED
      BY <1>1, <1>3, <3>1 DEF StoppedInv
  <2>. QED
    BY <2>2, <2>3, <2>4 DEF IInv
<1>. QED
  BY <1>2, <1>3 DEF SameNumberOfParams, Pass

LEMMA DefineSymbolsKeeps ==
    ASSUME IInv, DefineSymbols
    PROVE  IInv'
<1>1. pass = "symbols" /\ outcome = "running" /\ text' = text
  BY DEF DefineSymbols, Pass
<1>2. CASE pass' = "aliasing" /\ outcome' = "running" /\ \A i \in Calls : "running" \in SymbolsAt(i)
  <2>1. TextInv' /\ HeadersInv'
    BY <1>1, <1>2, PassKeeps
  <2>2. PassedInv'
    BY <1>1, <1>2, SamePassed DEF IInv, PassedInv, SymbolsPassed
  <2>3. StoppedInv'
    BY <1>2 DEF StoppedInv
  <2>. QED
    BY <2>1, <2>2, <2>3 DEF IInv
<1>3. ASSUME NEW i \in Calls, pass' = pass, outcome' \in SymbolsAt(i) \ {"running"}
      PROVE  IInv'
  <2>1. outcome' \in Undefined \ {"running"} /\ SymbolsAt(i) # {"running"}
    BY <1>3, VerdictsAre
  <2>2. TextInv' /\ HeadersInv'
    BY <1>1, <1>3, <2>1, PassKeeps
  <2>3. PassedInv'
    BY <1>1, <1>3, SamePassed DEF IInv, PassedInv
  <2>4. StoppedInv'
    <3>1. i \in Calls' /\ SymbolsAt(i)' # {"running"}
      BY <1>1, <2>1, SameText, SameVerdicts
    <3>. QED
      BY <1>1, <1>3, <3>1 DEF StoppedInv
  <2>. QED
    BY <2>2, <2>3, <2>4 DEF IInv
<1>. QED
  BY <1>2, <1>3 DEF DefineSymbols, Pass

LEMMA AliasingKeeps ==
    ASSUME IInv, Aliasing
    PROVE  IInv'
<1>1. pass = "aliasing" /\ outcome = "running" /\ text' = text
  BY DEF Aliasing, Pass
<1>2. CASE pass' = "types" /\ outcome' = "running" /\ \A i \in Calls : "running" \in AliasingAt(i)
  <2>1. TextInv' /\ HeadersInv'
    BY <1>1, <1>2, PassKeeps
  <2>2. PassedInv'
    BY <1>1, <1>2, SamePassed DEF IInv, PassedInv, AliasingPassed
  <2>3. StoppedInv'
    BY <1>2 DEF StoppedInv
  <2>. QED
    BY <2>1, <2>2, <2>3 DEF IInv
<1>3. ASSUME NEW i \in Calls, pass' = pass, outcome' \in AliasingAt(i) \ {"running"}
      PROVE  IInv'
  <2>1. outcome' \in Undefined \ {"running"} /\ AliasingAt(i) # {"running"}
    BY <1>3, VerdictsAre
  <2>2. TextInv' /\ HeadersInv'
    BY <1>1, <1>3, <2>1, PassKeeps
  <2>3. PassedInv'
    BY <1>1, <1>3, SamePassed DEF IInv, PassedInv
  <2>4. StoppedInv'
    <3>1. i \in Calls' /\ AliasingAt(i)' # {"running"}
      BY <1>1, <2>1, SameText, SameVerdicts
    <3>. QED
      BY <1>1, <1>3, <3>1 DEF StoppedInv
  <2>. QED
    BY <2>2, <2>3, <2>4 DEF IInv
<1>. QED
  BY <1>2, <1>3 DEF Aliasing, Pass

LEMMA TypesKeeps ==
    ASSUME IInv, Types
    PROVE  IInv'
<1>1. pass = "types" /\ outcome = "running" /\ text' = text
  BY DEF Types, Pass
<1>2. CASE pass' = "mutability" /\ outcome' = "running" /\ \A i \in Calls : "running" \in TypesAt(i)
  <2>1. TextInv' /\ HeadersInv'
    BY <1>1, <1>2, PassKeeps
  <2>2. PassedInv'
    BY <1>1, <1>2, SamePassed DEF IInv, PassedInv
  <2>3. StoppedInv'
    BY <1>2 DEF StoppedInv
  <2>. QED
    BY <2>1, <2>2, <2>3 DEF IInv
<1>3. ASSUME NEW i \in Calls, pass' = pass, outcome' \in TypesAt(i) \ {"running"}
      PROVE  IInv'
  <2>1. outcome' \in Undefined \ {"running"} /\ TypesAt(i) # {"running"}
    BY <1>3, VerdictsAre
  <2>2. TextInv' /\ HeadersInv'
    BY <1>1, <1>3, <2>1, PassKeeps
  <2>3. PassedInv'
    BY <1>1, <1>3, SamePassed DEF IInv, PassedInv
  <2>4. StoppedInv'
    <3>1. i \in Calls' /\ TypesAt(i)' # {"running"}
      BY <1>1, <2>1, SameText, SameVerdicts
    <3>. QED
      BY <1>1, <1>3, <3>1 DEF StoppedInv
  <2>. QED
    BY <2>2, <2>3, <2>4 DEF IInv
<1>. QED
  BY <1>2, <1>3 DEF Types, Pass

LEMMA ArgumentMutabilityKeeps ==
    ASSUME IInv, ArgumentMutability
    PROVE  IInv'
<1>1. pass = "mutability" /\ outcome = "running" /\ text' = text
  BY DEF ArgumentMutability, Pass
<1>2. CASE pass' = "generation" /\ outcome' = "running" /\ \A i \in Calls : "running" \in MutabilityAt(i)
  <2>1. TextInv' /\ HeadersInv'
    BY <1>1, <1>2, PassKeeps
  <2>2. PassedInv'
    BY <1>1, <1>2, SamePassed DEF IInv, PassedInv, MutabilityPassed
  <2>3. StoppedInv'
    BY <1>2 DEF StoppedInv
  <2>. QED
    BY <2>1, <2>2, <2>3 DEF IInv
<1>3. ASSUME NEW i \in Calls, pass' = pass, outcome' \in MutabilityAt(i) \ {"running"}
      PROVE  IInv'
  <2>1. outcome' \in Undefined \ {"running"} /\ MutabilityAt(i) # {"running"}
    BY <1>3, VerdictsAre
  <2>2. TextInv' /\ HeadersInv'
    BY <1>1, <1>3, <2>1, PassKeeps
  <2>3. PassedInv'
    BY <1>1, <1>3, SamePassed DEF IInv, PassedInv
  <2>4. StoppedInv'
    <3>1. i \in Calls' /\ MutabilityAt(i)' # {"running"}
      BY <1>1, <2>1, SameText, SameVerdicts
    <3>. QED
      BY <1>1, <1>3, <3>1 DEF StoppedInv
  <2>. QED
    BY <2>2, <2>3, <2>4 DEF IInv
<1>. QED
  BY <1>2, <1>3 DEF ArgumentMutability, Pass

LEMMA CodeGenKeeps ==
    ASSUME IInv, CodeGen
    PROVE  IInv'
<1>1. pass = "generation" /\ outcome = "running" /\ text' = text
  BY DEF CodeGen, Pass
<1>2. CASE pass' = "done" /\ outcome' = "generated" /\ \A i \in Calls : "running" \in GenerationAt(i)
  <2>1. TextInv' /\ HeadersInv'
    BY <1>1, <1>2, PassKeeps
  <2>2. PassedInv'
    BY <1>1, <1>2, SamePassed DEF IInv, PassedInv, GenerationPassed
  <2>3. StoppedInv'
    BY <1>2 DEF StoppedInv
  <2>. QED
    BY <2>1, <2>2, <2>3 DEF IInv
<1>3. ASSUME NEW i \in Calls, pass' = pass, outcome' \in GenerationAt(i) \ {"running"}
      PROVE  IInv'
  <2>1. outcome' \in Undefined \ {"running"} /\ GenerationAt(i) # {"running"}
    BY <1>3, VerdictsAre
  <2>2. TextInv' /\ HeadersInv'
    BY <1>1, <1>3, <2>1, PassKeeps
  <2>3. PassedInv'
    BY <1>1, <1>3, SamePassed DEF IInv, PassedInv
  <2>4. StoppedInv'
    <3>1. i \in Calls' /\ GenerationAt(i)' # {"running"}
      BY <1>1, <2>1, SameText, SameVerdicts
    <3>. QED
      BY <1>1, <1>3, <3>1 DEF StoppedInv
  <2>. QED
    BY <2>2, <2>3, <2>4 DEF IInv
<1>. QED
  BY <1>2, <1>3 DEF CodeGen, Pass

LEMMA StutteringKeeps ==
    ASSUME IInv, UNCHANGED vars
    PROVE  IInv'
<1>1. text' = text /\ pass' = pass /\ outcome' = outcome
  BY DEF vars
<1>2. TextInv' /\ HeadersInv'
  BY <1>1, SameText DEF IInv, TextInv, HeadersInv
<1>3. PassedInv'
  BY <1>1, SamePassed DEF IInv, PassedInv
<1>4. StoppedInv'
  BY <1>1, SameText, SameVerdicts DEF IInv, StoppedInv
<1>. QED
  BY <1>2, <1>3, <1>4 DEF IInv

\* The inductive invariant: what DefinitionErrorWalker has accepted agrees, and
\* each pass that is over has let every call through.
THEOREM Invariance == Spec => []IInv
<1>1. IInv /\ [Next]_vars => IInv'
  <2>. SUFFICES ASSUME IInv, [Next]_vars PROVE IInv'
    OBVIOUS
  <2>1. ASSUME NEW h \in Header, ReadHeader(h) PROVE IInv'
    BY <2>1, ReadHeaderKeeps
  <2>2. ASSUME NEW c \in Call, ReadCall(c) PROVE IInv'
    BY <2>2, ReadCallKeeps
  <2>3. CASE EndOfText
    BY <2>3, EndOfTextKeeps
  <2>4. CASE ControlExpressions
    BY <2>4, ControlExpressionsKeeps
  <2>5. CASE StdInOut
    BY <2>5, StdInOutKeeps
  <2>6. CASE CallFuncCall
    BY <2>6, CallFuncCallKeeps
  <2>7. CASE ProcReturnCall
    BY <2>7, ProcReturnCallKeeps
  <2>8. CASE SameNumberOfParams
    BY <2>8, SameNumberOfParamsKeeps
  <2>9. CASE DefineSymbols
    BY <2>9, DefineSymbolsKeeps
  <2>10. CASE Aliasing
    BY <2>10, AliasingKeeps
  <2>11. CASE Types
    BY <2>11, TypesKeeps
  <2>12. CASE ArgumentMutability
    BY <2>12, ArgumentMutabilityKeeps
  <2>13. CASE CodeGen
    BY <2>13, CodeGenKeeps
  <2>14. CASE UNCHANGED vars
    BY <2>14, StutteringKeeps
  <2>. QED
    BY <2>1, <2>2, <2>3, <2>4, <2>5, <2>6, <2>7, <2>8, <2>9, <2>10, <2>11, <2>12, <2>13, <2>14 DEF Next, Done
<1>. QED
  BY InitKeeps, <1>1, PTL DEF Spec

-----------------------------------------------------------------------------
(* Calls that code was generated for.                                      *)

\* In whatever order headers and calls stand, a call that code was generated
\* for suits the definition it runs (emitFuncProcCall takes one argument per
\* parameter of it), up to the places where no pass counts and prototypes of
\* another length.
THEOREM GeneratedCallsFit == Spec => []CallsFit
<1>1. IInv => CallsFit
  <2>. SUFFICES ASSUME IInv, outcome = "generated", NEW i \in Calls
                PROVE  LET h == Callee(i)
                       IN /\ At(i, {"statement", "assigned", "inferred", "operand", "operands"})
                             /\ Len(text[Max(Seen(i))].quals) = Len(h.quals)
                             => Len(text[i].args) = Len(h.quals)
                          /\ IF At(i, {"statement"}) THEN ~h.func /\ ~text[Inside(i)].func
                                                     ELSE h.returns # None
                          /\ At(i, {"returned", "operands"}) => h.func
                          /\ At(i, {"control"}) /\ Visited(i) # {} => h.returns = Boolean
    BY DEF CallsFit
  <2>1. /\ TextInv /\ HeadersAgree /\ AllAreDefined
        /\ "running" \in ControlAt(i) /\ "running" \in CallsAt(i) /\ "running" \in CountsAt(i)
        /\ "running" \in SymbolsAt(i) /\ "running" \in GenerationAt(i)
    BY DEF IInv, TextInv, HeadersInv, PassedInv, ControlPassed, CallsPassed, CountsPassed,
           SymbolsPassed, GenerationPassed
  <2>2. Seen(i) # {}
    BY <2>1 DEF SymbolsAt, Verdict
  <2>3. PICK d \in Headers :
           /\ Callee(i) = text[d]
           /\ \A j \in Seen(i) : text[j].func = text[d].func /\ text[j].returns = text[d].returns
    BY <2>1, <2>2, CalleeIs
  <2>4. InFunctionNames(i) <=> text[d].func
    BY <2>1, <2>2, <2>3, SeenHas, HeaderHas DEF InFunctionNames
  <2>5. At(i, Counted) => Len(text[i].args) = Len(text[Max(Seen(i))].quals)
    BY <2>1, <2>2 DEF CountsAt, Verdict
  <2>6. /\ At(i, {"statement"}) => ~text[d].func /\ ~text[Inside(i)].func
        /\ At(i, {"operands", "returned"}) => text[d].func
    BY <2>1, <2>4 DEF CallsAt, Verdict
  <2>7. ~At(i, {"statement"}) => text[d].returns # None
    BY <2>1, <2>3 DEF GenerationAt
  <2>8. At(i, {"control"}) /\ Visited(i) # {} => text[d].returns = Boolean
    <3>. SUFFICES ASSUME At(i, {"control"}), Visited(i) # {} PROVE text[d].returns = Boolean
      OBVIOUS
    <3>1. At(i, {"control", "inferred"}) /\ ~At(i, {"inferred"})
      BY DEF At
    <3>2. text[Max(Visited(i))].returns = Boolean
      BY <2>1, <3>1 DEF ControlAt, Verdict
    <3>. QED
      BY <2>1, <2>3, <3>2, SeenHas
  <2>. QED
    BY <2>3, <2>5, <2>6, <2>7, <2>8 DEF Counted, At
<1>. QED
  BY <1>1, Invariance, PTL

-----------------------------------------------------------------------------
(* Arguments that are given by reference.                                  *)

\* Two arguments that share a variable, the later of which was looked for
\* when the earlier was entered, are a tuple behind its element.
LEMMA SharedBehindElement ==
    ASSUME NEW a \in Arg, NEW b \in Arg, Share(a, b), a.of \in Variables, ~Aliases(b, a)
    PROVE  a.elem = 1 /\ b.elem = 0
<1>1. /\ a.elem \in {0, 1} /\ b.elem \in {0, 1}
      /\ a = [of |-> a.of, elem |-> a.elem] /\ b = [of |-> b.of, elem |-> b.elem]
  BY DEF Arg
<1>2. a.of = b.of /\ a.of # NoVariable /\ (a.elem = b.elem \/ 0 \in {a.elem, b.elem})
  BY DEF Share
<1>3. b # Value
  BY <1>1, <1>2 DEF Value
<1>4. a # b /\ TupleOf(b) # a
  BY <1>3 DEF Aliases, SameName
<1>5. a.elem # b.elem
  BY <1>1, <1>2, <1>4
<1>6. b.elem = 0
  <2>. SUFFICES ASSUME b.elem = 1 PROVE FALSE
    BY <1>1
  <2>1. TupleOf(b) = [of |-> b.of, elem |-> 0] /\ a.elem = 0
    BY <1>1, <1>5 DEF TupleOf
  <2>. QED
    BY <1>1, <1>2, <1>4, <2>1
<1>. QED
  BY <1>1, <1>5, <1>6

\* A variable given to a var parameter of a call statement may change and is
\* shared with no other argument, but for those AliasingErrorWalker does not
\* remember and for tuples behind their elements.
THEOREM VarArgumentsShareNothing == Spec => []VarArgumentsAreExclusive
<1>1. IInv => VarArgumentsAreExclusive
  <2>. DEFINE args(i)  == text[i].args
              quals(i) == Callee(i).quals
              both(i)  == DOMAIN args(i) \cap DOMAIN quals(i)
  <2>. SUFFICES ASSUME IInv, outcome = "generated", NEW i \in Calls, At(i, {"statement"}),
                       NEW p \in both(i), quals(i)[p]
                PROVE  /\ args(i)[p].of \in Mutables
                       /\ \A q \in both(i) \ {p} : Share(args(i)[p], args(i)[q]) =>
                             \/ q < p /\ ~quals(i)[q]
                             \/ /\ args(i)[IF p < q THEN p ELSE q].elem = 1
                                /\ args(i)[IF p < q THEN q ELSE p].elem = 0
    BY DEF VarArgumentsAreExclusive
  <2>1. /\ TextInv /\ HeadersAgree /\ AllAreDefined
        /\ "running" \in CallsAt(i) /\ "running" \in SymbolsAt(i)
        /\ "running" \in AliasingAt(i) /\ "running" \in MutabilityAt(i)
    BY DEF IInv, TextInv, HeadersInv, PassedInv, CallsPassed, SymbolsPassed, AliasingPassed,
           MutabilityPassed
  <2>2. Seen(i) # {}
    BY <2>1 DEF SymbolsAt, Verdict
  <2>3. PICK d \in Headers : Callee(i) = text[d] /\ \A j \in Seen(i) : text[j].func = text[d].func
    BY <2>1, <2>2, CalleeIs
  <2>4. ~Callee(i).func
    BY <2>1, <2>2, <2>3, SeenHas, HeaderHas DEF CallsAt, Verdict, InFunctionNames
  <2>5. args(i) \in Seq(Arg) /\ quals(i) \in Seq(BOOLEAN)
    BY <2>1, <2>3, CallHas, HeaderHas
  <2>6. args(i)[p].of \in Mutables
    <3>1. "running" \in Mutability(args(i)[p])
      BY <2>1, <2>4 DEF MutabilityAt
    <3>. QED
      BY <3>1 DEF Mutability
  <2>7. \A q \in both(i) : \A r \in 1..(q - 1) :
           quals(i)[r] => ~Aliases(args(i)[q], args(i)[r])
    <3>1. ~\E q \in both(i) : \E r \in 1..(q - 1) : quals(i)[r] /\ Aliases(args(i)[q], args(i)[r])
      BY <2>1, <2>4 DEF AliasingAt
    <3>. QED
      BY <3>1
  <2>8. ASSUME NEW q \in both(i) \ {p}, Share(args(i)[p], args(i)[q])
        PROVE  \/ q < p /\ ~quals(i)[q]
               \/ /\ args(i)[IF p < q THEN p ELSE q].elem = 1
                  /\ args(i)[IF p < q THEN q ELSE p].elem = 0
    <3>1. /\ p \in Nat \ {0} /\ q \in Nat \ {0} /\ p # q
          /\ args(i)[p] \in Arg /\ args(i)[q] \in Arg
      BY <2>5
    <3>2. /\ args(i)[p].of \in Variables /\ args(i)[q].of = args(i)[p].of
          /\ Share(args(i)[q], args(i)[p])
      BY <2>6, <2>8, SubroutinesAssumption DEF Share
    <3>3. CASE p < q
      <4>1. ~Aliases(args(i)[q], args(i)[p])
        BY <2>7, <3>1, <3>3
      <4>. QED
        BY <2>8, <3>1, <3>2, <3>3, <4>1, SharedBehindElement
    <3>4. CASE q < p /\ quals(i)[q]
      <4>1. ~Aliases(args(i)[p], args(i)[q])
        BY <2>7, <3>1, <3>4
      <4>. QED
        BY <3>1, <3>2, <3>4, <4>1, SharedBehindElement
    <3>. QED
      BY <2>5, <3>1, <3>3, <3>4
  <2>. QED
    BY <2>6, <2>8
<1>. QED
  BY <1>1, Invariance, PTL

-----------------------------------------------------------------------------
(* Texts that obey the rules.                                              *)

LEMMA LegalHeadersAgree ==
    ASSUME TextInv, Legal, NEW j \in Headers, NEW k \in Headers, text[j].name = text[k].name
    PROVE  /\ text[j].func = text[k].func /\ text[j].returns = text[k].returns
           /\ text[j].quals = text[k].quals
<1>1. ASSUME NEW a \in Headers, NEW b \in Headers, a < b, text[a].name = text[b].name
      PROVE  /\ text[a].func = text[b].func /\ text[a].returns = text[b].returns
             /\ text[a].quals = text[b].quals
  <2>1. [text[a] EXCEPT !.kind = "definition"] = text[b]
    BY <1>1 DEF Legal, HeaderIsLegal
  <2>2. text[a] \in Header
    BY HeaderHas
  <2>. HIDE DEF UpTo
  <2>3. text[a] \in [kind: {"prototype", "definition"}, name: Names, func: BOOLEAN,
                     quals: UpTo(BOOLEAN, MaxParams), returns: {Integer, Boolean, None}]
    BY <2>2 DEF Header
  <2>. QED
    BY <2>1, <2>3
<1>2. j \in Nat /\ k \in Nat
  BY HeaderHas DEF TextInv
<1>3. j < k \/ k < j \/ j = k
  BY <1>2
<1>. QED
  BY <1>1, <1>3

LEMMA LegalCall ==
    ASSUME TextInv, Legal, NEW i \in Calls
    PROVE  \E d \in Headers :
               /\ Callee(i) = text[d] /\ Seen(i) # {}
               /\ \A j \in Seen(i) : /\ text[j].func = text[d].func
                                     /\ text[j].returns = text[d].returns
                                     /\ text[j].quals = text[d].quals
<1>1. Seen(i) # {} /\ AllAreDefined
  BY DEF Legal, CallIsLegal
<1>2. PICK j \in Headers : text[j].name = text[i].name
  BY <1>1 DEF Seen
<1>3. Definitions(text[i].name) # {}
  BY <1>1, <1>2 DEF AllAreDefined
<1>4. PICK d \in Definitions(text[i].name) : Callee(i) = text[d]
  BY <1>3 DEF Callee
<1>5. d \in Headers /\ text[d].name = text[i].name
  BY DEF Definitions
<1>6. \A k \in Seen(i) : k \in Headers /\ text[k].name = text[d].name
  BY <1>5 DEF Seen
<1>7. \A k \in Seen(i) : /\ text[k].func = text[d].func
                         /\ text[k].returns = text[d].returns
                         /\ text[k].quals = text[d].quals
  BY <1>5, <1>6, LegalHeadersAgree
<1>. QED
  BY <1>1, <1>4, <1>5, <1>7

\* The walks that look at what kind of subroutine is called.
LEMMA LegalCallPasses ==
    ASSUME TextInv, Legal, NEW i \in Calls
    PROVE  /\ ControlAt(i) = {"running"} /\ StreamsAt(i) = {"running"}
           /\ CallsAt(i) = {"running"} /\ ResultsAt(i) = {"running"}
           /\ CountsAt(i) = {"running"} /\ SymbolsAt(i) = {"running"}
           /\ TypesAt(i) = {"running"} /\ GenerationAt(i) = {"running"}
<1>1. PICK d \in Headers :
         /\ Callee(i) = text[d] /\ Seen(i) # {}
         /\ \A j \in Seen(i) : /\ text[j].func = text[d].func
                               /\ text[j].returns = text[d].returns
                               /\ text[j].quals = text[d].quals
  BY LegalCall
<1>2. /\ Len(text[i].args) = Len(text[d].quals)
      /\ text[d].func => text[i].place # "statement"
      /\ ~text[d].func => /\ ~text[Inside(i)].func
                          /\ text[i].place \in {"statement", "assigned", "inferred", "unary"}
      /\ text[i].place # "statement" => text[d].returns # None
      /\ text[i].place = "control" => text[d].returns = Boolean
      /\ text[i].place = "output" => ~text[Inside(i)].func
  BY <1>1 DEF Legal, CallIsLegal, At
<1>3. InFunctionNames(i) <=> text[d].func
  BY <1>1, SeenHas, HeaderHas DEF InFunctionNames
<1>4. ControlAt(i) = {"running"}
  <2>. SUFFICES ASSUME At(i, {"control", "inferred"}), Visited(i) # {}
                PROVE  ControlAt(i) = {"running"}
    BY DEF ControlAt
  <2>1. text[Max(Visited(i))].returns = text[d].returns
    BY <1>1, SeenHas
  <2>2. text[d].returns # None /\ (At(i, {"inferred"}) \/ text[d].returns = Boolean)
    BY <1>2 DEF At
  <2>. QED
    BY <2>1, <2>2 DEF ControlAt, Verdict
<1>5. StreamsAt(i) = {"running"}
  BY <1>2 DEF StreamsAt, Verdict, At
<1>6. CallsAt(i) = {"running"}
  BY <1>2, <1>3 DEF CallsAt, Verdict, At
<1>7. ResultsAt(i) = {"running"}
  <2>. DEFINE procs == {j \in Seen(i) : ~text[j].func}
  <2>1. procs # {} => text[Min(procs)].returns = text[d].returns
    <3>1. procs \in SUBSET Nat
      BY SeenHas
    <3>. QED
      BY <1>1, <3>1, FirstIsOne
  <2>2. At(i, {"assigned", "inferred", "operand", "operands", "unary"}) => text[d].returns # None
    BY <1>2 DEF At
  <2>3. /\ At(i, {"assigned", "inferred", "operand", "operands", "unary"})
        /\ ~text[Inside(i)].func /\ procs # {}
        => text[Min(procs)].returns # None
    BY <2>1, <2>2
  <2>. QED
    BY <2>3 DEF ResultsAt, Verdict
<1>8. CountsAt(i) = {"running"}
  BY <1>1, <1>2, SeenHas DEF CountsAt, Verdict
<1>9. SymbolsAt(i) = {"running"}
  BY <1>1 DEF SymbolsAt, Verdict
<1>10. TypesAt(i) = {"running"}
  BY <1>1, <1>2 DEF TypesAt, At
<1>11. GenerationAt(i) = {"running"}
  <2>1. Len(text[d].quals) \in Nat
    BY HeaderHas
  <2>. QED
    BY <1>1, <1>2, <2>1 DEF GenerationAt, At
<1>. QED
  BY <1>4, <1>5, <1>6, <1>7, <1>8, <1>9, <1>10, <1>11

\* The walks that look at the arguments.
LEMMA LegalArgumentsPass ==
    ASSUME TextInv, Legal, NEW i \in Calls
    PROVE  /\ AliasingAt(i) = {"running"}
           /\ MutabilityAt(i) = {"running"} \/ GivesElement(i)
<1>. DEFINE args  == text[i].args
            quals == Callee(i).quals
<1>1. args \in Seq(Arg) /\ quals \in Seq(BOOLEAN)
  BY LegalCall, CallHas, HeaderHas
<1>2. /\ Len(args) = Len(quals)
      /\ \A p \in DOMAIN args : quals[p] =>
            /\ args[p].of \in Mutables
            /\ \A q \in DOMAIN args \ {p} : ~Share(args[p], args[q])
  BY DEF Legal, CallIsLegal
<1>3. DOMAIN args = 1..Len(args) /\ DOMAIN quals = DOMAIN args /\ Len(args) \in Nat
  BY <1>1, <1>2
<1>4. AliasingAt(i) = {"running"}
  <2>1. ASSUME NEW q \in DOMAIN args, NEW p \in 1..(q - 1), quals[p], Aliases(args[q], args[p])
        PROVE  FALSE
    <3>1. p \in DOMAIN args \ {q} /\ args[p] \in Arg /\ args[q] \in Arg
      BY <1>1, <1>3
    <3>2. args[p].of # NoVariable /\ ~Share(args[p], args[q])
      BY <1>2, <2>1, <3>1, SubroutinesAssumption
    <3>3. args[p] # Value
      BY <3>2 DEF Value
    <3>4. args[q] = args[p] \/ TupleOf(args[q]) = args[p]
      BY <2>1 DEF Aliases, SameName
    <3>5. TupleOf(args[q]) = args[p] => args[p] = [args[q] EXCEPT !.elem = 0]
      BY <3>3 DEF TupleOf
    <3>6. args[q].of = args[p].of /\ (args[q].elem = args[p].elem \/ args[p].elem = 0)
      BY <3>1, <3>4, <3>5 DEF Arg
    <3>. QED
      BY <3>2, <3>6 DEF Share
  <2>2. ~\E q \in DOMAIN args \cap DOMAIN quals : \E p \in 1..(q - 1) :
            quals[p] /\ Aliases(args[q], args[p])
    BY <2>1
  <2>. QED
    BY <1>2, <1>3, <2>2 DEF AliasingAt
<1>5. ASSUME ~GivesElement(i) PROVE MutabilityAt(i) = {"running"}
  <2>1. ASSUME NEW p \in DOMAIN quals, quals[p]
        PROVE  p \in DOMAIN args /\ Mutability(args[p]) = {"running"}
    <3>1. p \in DOMAIN args /\ args[p].of \in Mutables
      BY <1>2, <1>3, <2>1
    <3>2. args[p].elem # 1
      BY <1>5, <2>1, <3>1 DEF GivesElement
    <3>. QED
      BY <3>1, <3>2 DEF Mutability
  <2>. SUFFICES ASSUME At(i, {"statement"}), ~Callee(i).func
                PROVE  MutabilityAt(i) = {"running"}
    BY DEF MutabilityAt
  <2>2. ASSUME NEW v \in MutabilityAt(i) PROVE v = "running"
    BY <2>1, <2>2 DEF MutabilityAt
  <2>3. "running" \in MutabilityAt(i)
    BY <2>1 DEF MutabilityAt
  <2>. QED
    BY <2>2, <2>3
<1>. QED
  BY <1>4, <1>5

\* No walk rejects, and none crashes at, a text that obeys the rules, unless
\* the element of a tuple is given to a var parameter.
THEOREM LegalTextsAreAccepted == Spec => []LegalIsAccepted
<1>1. IInv => LegalIsAccepted
  <2>. SUFFICES ASSUME IInv, outcome \in {"rejected", "crashed"}
                PROVE  IF pass = "headers" THEN \E i \in Headers : ~HeaderIsLegal(i)
                       ELSE Legal => \E i \in Calls : GivesElement(i)
    BY DEF LegalIsAccepted
  <2>1. CASE pass = "headers"
    BY <2>1 DEF IInv, StoppedInv
  <2>2. CASE pass # "headers"
    <3>. SUFFICES ASSUME Legal PROVE \E i \in Calls : GivesElement(i)
      BY <2>2
    <3>1. TextInv /\ HasMain /\ AllAreDefined
      BY DEF IInv, Legal
    <3>2. PICK i \in Calls :
             \/ pass = "control"    /\ ControlAt(i) # {"running"}
             \/ pass = "streams"    /\ StreamsAt(i) # {"running"}
             \/ pass = "calls"      /\ CallsAt(i) # {"running"}
             \/ pass = "results"    /\ ResultsAt(i) # {"running"}
             \/ pass = "counts"     /\ CountsAt(i) # {"running"}
             \/ pass = "symbols"    /\ SymbolsAt(i) # {"running"}
             \/ pass = "aliasing"   /\ AliasingAt(i) # {"running"}
             \/ pass = "types"      /\ TypesAt(i) # {"running"}
             \/ pass = "mutability" /\ MutabilityAt(i) # {"running"}
             \/ pass = "generation" /\ GenerationAt(i) # {"running"}
      BY <2>2, <3>1 DEF IInv, StoppedInv
    <3>. QED
      BY <3>1, <3>2, LegalCallPasses, LegalArgumentsPass
  <2>. QED
    BY <2>1, <2>2
<1>. QED
  BY <1>1, Invariance, PTL
=============================================================================
