------------------------------ MODULE Scalars ------------------------------
(***************************************************************************)
(* The scalar operations of the back end (EmitBinaryOps.cpp, the casts of  *)
(* TypeCastingPromotionFunctions.cpp, MathError.c).                        *)
(*                                                                         *)
(* A scalar is a base type and a value.  An operation picks its            *)
(* instruction from the MLIR types of its operands, so the base of its     *)
(* result is decided while compiling: Thrown stands for the C++ exception, *)
(* IllTyped for an instruction whose operands have two types.  MathError   *)
(* and Undefined are results of the instruction when it runs.              *)
(*                                                                         *)
(* Integers are signed words of WordSize values.  A real is one of the     *)
(* same numbers: quotients and powers that are no integer are truncated,   *)
(* and a real does not wrap to another sign but saturates.                 *)
(***************************************************************************)
EXTENDS Integers

CONSTANT WordSize

ASSUME ScalarsAssumption == WordSize \in Nat /\ WordSize >= 4 /\ WordSize % 2 = 0

BaseType == {"boolean", "character", "integer", "real"}

MinWord == -(WordSize \div 2)
MaxWord == WordSize \div 2 - 1
CharSize == WordSize \div 2

Wrap(n) == ((n - MinWord) % WordSize) + MinWord
Saturate(n) == IF n < MinWord THEN MinWord ELSE IF n > MaxWord THEN MaxWord ELSE n

ValuesOf(base) ==
    CASE base = "boolean"   -> 0..1
      [] base = "character" -> 0..(CharSize - 1)
      [] OTHER              -> MinWord..MaxWord

Scalar == UNION {[base: {b}, val: ValuesOf(b)] : b \in BaseType}

ScalarOf(base, v) == [base |-> base, val |-> v]
Failure == {"Thrown", "IllTyped", "MathError", "Undefined"}
Fail(f) == [base |-> f, val |-> 0]
Failed(s) == s.base \in Failure

isIntegerType(s) == s.base = "integer"
isFloatType(s) == s.base = "real"
isBoolType(s) == s.base = "boolean"
isCharType(s) == s.base = "character"

isSameType(s, t) == s.base = t.base

\* The bases one of the numeric cases of an operation accepts.
Numeric(l, r) == l.base \in {"integer", "real"} /\ r.base \in {"integer", "real"}
BothInteger(l, r) == isIntegerType(l) /\ isIntegerType(r)

---------------------------------------------------------------------------
(* Casts.  FPToSI of a number out of range gives the smallest word.        *)

Bit(b) == IF b THEN 1 ELSE 0

castInt(s, to) ==
    CASE to = "boolean"   -> ScalarOf(to, Bit(s.val # 0))
      [] to = "character" -> ScalarOf(to, s.val % CharSize)
      [] OTHER            -> ScalarOf(to, s.val)

castChar(s, to) ==
    IF to = "boolean" THEN ScalarOf(to, Bit(s.val # 0)) ELSE ScalarOf(to, s.val)

castFloat(s, to) ==
    IF to \in {"integer", "real"} THEN ScalarOf(to, s.val) ELSE Fail("Thrown")

castBool(s, to) == ScalarOf(to, s.val)

typeCast(s, to) ==
    CASE isIntegerType(s) -> castInt(s, to)
      [] isCharType(s)    -> castChar(s, to)
      [] isFloatType(s)   -> castFloat(s, to)
      [] OTHER            -> castBool(s, to)

\* What two bases promote to; null when they do not.
promoteBaseType(l, r) ==
    CASE l = r /\ l # "null"        -> l
      [] {l, r} = {"integer", "real"} -> "real"
      [] OTHER                      -> "null"

---------------------------------------------------------------------------
(* Arithmetic.  An integer meets a real as a real; anything but numbers    *)
(* throws.                                                                 *)

Arith(l, r, f(_, _)) ==
    IF ~Numeric(l, r) THEN Fail("Thrown")
    ELSE IF BothInteger(l, r) THEN ScalarOf("integer", Wrap(f(l.val, r.val)))
    ELSE ScalarOf("real", Saturate(f(l.val, r.val)))

emitAdd(l, r) == Arith(l, r, LAMBDA a, b : a + b)
emitSub(l, r) == Arith(l, r, LAMBDA a, b : a - b)
emitMul(l, r) == Arith(l, r, LAMBDA a, b : a * b)

Abs(n) == IF n < 0 THEN -n ELSE n
Sign(n) == IF n < 0 THEN -1 ELSE 1
Quotient(a, b) == Sign(a) * Sign(b) * (Abs(a) \div Abs(b))
Remainder(a, b) == a - b * Quotient(a, b)

\* intDivZero and floatDivZero stop a division by zero; nothing stops the
\* smallest integer divided by -1, which overflows.
DivZero(r) == r.val = 0
QuotientOverflows(l, r) == BothInteger(l, r) /\ l.val = MinWord /\ r.val = -1

emitDiv(l, r) ==
    CASE Numeric(l, r) /\ DivZero(r)              -> Fail("MathError")
      [] Numeric(l, r) /\ QuotientOverflows(l, r) -> Fail("Undefined")
      [] OTHER                                    -> Arith(l, r, Quotient)

emitRem(l, r) ==
    CASE Numeric(l, r) /\ DivZero(r)              -> Fail("MathError")
      [] Numeric(l, r) /\ QuotientOverflows(l, r) -> Fail("Undefined")
      [] OTHER                                    -> Arith(l, r, Remainder)

\* Integers are raised as reals and cast back.
floatZeroExp(l, r) == l.val = 0 /\ r.val <= 0

Power(a, b) == IF b >= 0 THEN a ^ b
               ELSE IF a \in {1, -1} THEN a ^ (-b) ELSE 0

emitExpo(l, r) ==
    IF Numeric(l, r) /\ floatZeroExp(l, r) THEN Fail("MathError")
    ELSE IF BothInteger(l, r)
    THEN LET p == Power(l.val, r.val)
         IN ScalarOf("integer", IF p \in MinWord..MaxWord THEN p ELSE MinWord)
    ELSE Arith(l, r, Power)

\* Everything that is no real is multiplied as an integer.
emitUnaryMinus(s) ==
    CASE isFloatType(s)   -> ScalarOf("real", Saturate(-s.val))
      [] isIntegerType(s) -> ScalarOf("integer", Wrap(-s.val))
      [] OTHER            -> Fail("IllTyped")

---------------------------------------------------------------------------
(* Comparisons.  < and <= throw on anything but numbers, > and >= on       *)
(* characters only, == and /= on nothing: the instruction then compares    *)
(* words, and a boolean compared as a signed word counts true as -1.       *)

Signed(s) == IF isBoolType(s) THEN -s.val ELSE s.val

IntCompare(l, r, f(_, _)) ==
    IF isSameType(l, r) THEN ScalarOf("boolean", Bit(f(Signed(l), Signed(r))))
                        ELSE Fail("IllTyped")

Compare(l, r, f(_, _)) ==
    IF Numeric(l, r) THEN ScalarOf("boolean", Bit(f(l.val, r.val))) ELSE IntCompare(l, r, f)

LT(a, b) == a < b
LE(a, b) == a <= b
GT(a, b) == a > b
GE(a, b) == a >= b
EQ(a, b) == a = b
NE(a, b) == a # b

emitLessThan(l, r) == IF Numeric(l, r) THEN Compare(l, r, LT) ELSE Fail("Thrown")
emitLessEq(l, r) == IF Numeric(l, r) THEN Compare(l, r, LE) ELSE Fail("Thrown")

emitGreaterThan(l, r) ==
    IF isCharType(l) \/ isCharType(r) THEN Fail("Thrown") ELSE Compare(l, r, GT)
emitGreaterEq(l, r) ==
    IF isCharType(l) \/ isCharType(r) THEN Fail("Thrown") ELSE Compare(l, r, GE)

emitEqualTo(l, r) == Compare(l, r, EQ)
emitNotEqual(l, r) == Compare(l, r, NE)

---------------------------------------------------------------------------
(* Logic.                                                                  *)

Logic(l, r, f(_, _)) ==
    IF isBoolType(l) /\ isBoolType(r)
    THEN ScalarOf("boolean", Bit(f(l.val = 1, r.val = 1)))
    ELSE Fail("Thrown")

emitAnd(l, r) == Logic(l, r, LAMBDA a, b : a /\ b)
emitOr(l, r) == Logic(l, r, LAMBDA a, b : a \/ b)
emitXor(l, r) == Logic(l, r, LAMBDA a, b : a # b)

emitUnaryNot(s) ==
    IF isBoolType(s) THEN emitXor(s, ScalarOf("boolean", 1)) ELSE Fail("Thrown")

---------------------------------------------------------------------------
(* The operation of a name.                                                *)

Arithmetic == {"+", "-", "*", "/", "%", "^"}
Ordering == {"<", ">", "<=", ">="}
Equality == {"==", "!="}
Logical == {"and", "or", "xor"}

scalarBinaryOp(l, r, op) ==
    CASE op = "+"   -> emitAdd(l, r)
      [] op = "-"   -> emitSub(l, r)
      [] op = "*"   -> emitMul(l, r)
      [] op = "/"   -> emitDiv(l, r)
      [] op = "%"   -> emitRem(l, r)
      [] op = "^"   -> emitExpo(l, r)
      [] op = "<"   -> emitLessThan(l, r)
      [] op = ">"   -> emitGreaterThan(l, r)
      [] op = "<="  -> emitLessEq(l, r)
      [] op = ">="  -> emitGreaterEq(l, r)
      [] op = "=="  -> emitEqualTo(l, r)
      [] op = "!="  -> emitNotEqual(l, r)
      [] op = "and" -> emitAnd(l, r)
      [] op = "or"  -> emitOr(l, r)
      [] op = "xor" -> emitXor(l, r)

=============================================================================
