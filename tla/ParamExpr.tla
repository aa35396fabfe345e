------------------------------ MODULE ParamExpr ------------------------------
(***************************************************************************)
(* The ${...} expressions of FlooGen configurations                        *)
(* (floogen/params.py): their values, their evaluation and the             *)
(* substitution of references in a scalar.                                 *)
(*                                                                         *)
(* An expression is a tree of the syntax the code accepts.  A text is a    *)
(* sequence of parts, references and pieces of plain text; how a piece is  *)
(* spelled does not matter.  An evaluation returns a value, fails, or needs*)
(* a parameter that has no value yet: the code then calls itself for that  *)
(* parameter (module Params) and goes on, which gives what starting again  *)
(* gives, since evaluating has no effects.  Real numbers are left out.     *)
(***************************************************************************)
EXTENDS Integers, Sequences, SequencesExt, Bitwise

IntVal(n)      == [int |-> n]
BoolVal(b)     == [bool |-> b]
TextVal(parts) == [str |-> parts]

IsInt(v)  == DOMAIN v = {"int"}
IsBool(v) == DOMAIN v = {"bool"}
IsText(v) == DOMAIN v = {"str"}

Num(v) == IF IsBool(v) THEN (IF v.bool THEN 1 ELSE 0) ELSE v.int
Truth(v) == CASE IsBool(v) -> v.bool
              [] IsInt(v)  -> v.int # 0
              [] OTHER     -> v.str # <<>>

\* Outcomes: ParamError is reported, any other exception ends in a traceback.
Val(v)  == [val |-> v]
Need(n) == [need |-> n]
ParamErr == [err |-> "ParamError"]
Crash    == [err |-> "exception"]
IsVal(r) == DOMAIN r = {"val"}

\* Expressions.
Const(v)     == [const |-> v]
Name(n)      == [name |-> n]
Op(o, args)  == [op |-> o, args |-> args]
Ref(e)       == [ref |-> e]          \* the part ${e} of a text
Word(w)      == [word |-> w]         \* a piece of plain text
Unsupported  == [syntax |-> "other"]
IsRef(p)     == DOMAIN p = {"ref"}

\* Python rounds quotients down, and // and % by zero raise an exception.
FloorDiv(a, b) == IF b > 0 THEN a \div b ELSE (-a) \div (-b)
MaxExponent == 64

\* The arithmetic of numbers; booleans count as 0 and 1.  The bits of negative
\* numbers are left out.
Arith(o, a, b) ==
    CASE o = "+"  -> Val(IntVal(a + b))
      [] o = "-"  -> Val(IntVal(a - b))
      [] o = "*"  -> Val(IntVal(a * b))
      [] o = "//" -> IF b = 0 THEN Crash ELSE Val(IntVal(FloorDiv(a, b)))
      [] o = "%"  -> IF b = 0 THEN Crash ELSE Val(IntVal(a - b * FloorDiv(a, b)))
      [] o = "<<" -> IF b < 0 THEN Crash ELSE Val(IntVal(a * 2^b))
      [] o = ">>" -> IF b < 0 THEN Crash ELSE Val(IntVal(a \div 2^b))
      [] o = "|"  -> Val(IntVal(a | b))
      [] o = "&"  -> Val(IntVal(a & b))
      [] o = "^"  -> Val(IntVal(a ^^ b))
      [] o = "**" -> IF b < 0 THEN Crash      \* a real number, left out
                     ELSE Val(IntVal(a^b))
      [] o = "<"  -> Val(BoolVal(a < b))
      [] o = "<=" -> Val(BoolVal(a <= b))
      [] o = ">"  -> Val(BoolVal(a > b))
      [] o = ">=" -> Val(BoolVal(a >= b))

\* Operators on two values: texts can be joined and compared for
\* equality, not calculated (their order, repeating and formatting are left
\* out).  The bits of two booleans are a boolean.
Apply(o, v, w) ==
    CASE o = "**" /\ ~IsText(w) /\ (Num(w) > MaxExponent \/ -Num(w) > MaxExponent) -> ParamErr
      [] o \in {"|", "&", "^"} /\ IsBool(v) /\ IsBool(w) ->
             Val(BoolVal(Arith(o, Num(v), Num(w)).val.int = 1))
      [] o \in {"==", "!="} /\ (IsText(v) = IsText(w)) ->
             LET same == IF IsText(v) THEN v = w ELSE Num(v) = Num(w)
             IN  Val(BoolVal((o = "==") = same))
      [] o \in {"==", "!="} -> Val(BoolVal(o = "!="))
      [] o = "+" /\ IsText(v) /\ IsText(w) -> Val(TextVal(v.str \o w.str))
      [] ~IsText(v) /\ ~IsText(w) -> Arith(o, Num(v), Num(w))
      [] OTHER -> Crash

\* Operators on one value.
Unary(o, v) ==
    CASE o = "not" -> Val(BoolVal(~Truth(v)))
      [] o = "neg" /\ ~IsText(v) -> Val(IntVal(-Num(v)))
      [] o = "pos" /\ ~IsText(v) -> Val(IntVal(Num(v)))
      [] o = "~" /\ ~IsText(v) -> Val(IntVal(-Num(v) - 1))
      [] OTHER -> Crash

Strict == {"+", "-", "*", "//", "%", "<<", ">>", "|", "&", "^", "**"}
Compares == {"==", "!=", "<", "<=", ">", ">="}

\* _eval_node.  Operands are evaluated from left to right; `and`, `or` and
\* chains of comparisons stop at the operand that decides them.
RECURSIVE Eval(_, _)
Eval(e, env) ==
    LET Arg(k) == Eval(e.args[k], env)
        Then(r, F(_)) == IF IsVal(r) THEN F(r.val) ELSE r
        \* one comparison of the chain: <<outcome so far, last operand>>
        Compare(acc, k) ==
            IF ~IsVal(acc[1]) \/ ~Truth(acc[1].val) THEN acc
            ELSE IF ~IsVal(Arg(k)) THEN <<Arg(k), acc[2]>>
            ELSE <<Apply(e.op, acc[2], Arg(k).val), Arg(k).val>>
        rest == [k \in 1 .. Len(e.args) - 1 |-> k + 1]
    IN  CASE DOMAIN e = {"const"} -> Val(e.const)
          [] DOMAIN e = {"name"}  -> IF e.name \in DOMAIN env
                                     THEN Val(env[e.name]) ELSE Need(e.name)
          [] DOMAIN e = {"syntax"} -> ParamErr
          [] OTHER ->
             CASE e.op \in Strict ->
                    Then(Arg(1), LAMBDA v : Then(Arg(2), LAMBDA w : Apply(e.op, v, w)))
               [] e.op \in {"not", "neg", "pos", "~"} -> Then(Arg(1), LAMBDA v : Unary(e.op, v))
               [] e.op \in {"and", "or"} ->
                    FoldLeft(LAMBDA r, k :
                                IF ~IsVal(r) \/ Truth(r.val) # (e.op = "and") THEN r
                                ELSE Arg(k),
                             Val(BoolVal(e.op = "and")),
                             [k \in 1 .. Len(e.args) |-> k])
               [] e.op \in Compares ->
                    Then(Arg(1), LAMBDA v :
                       FoldLeft(Compare, <<Val(BoolVal(TRUE)), v>>, rest)[1])

\* str(): the text of a value, which is a piece of its own for numbers.
AsText(v) == IF IsText(v) THEN v.str ELSE <<v>>

\* substitute.  A text that is one reference keeps the type of its value; other
\* references are replaced by the text of their value.
Substitute(parts, env) ==
    IF Len(parts) = 1 /\ IsRef(parts[1]) THEN Eval(parts[1].ref, env)
    ELSE LET Part(p) == IF IsRef(p) THEN Eval(p.ref, env) ELSE Val(TextVal(<<p>>))
             Join(r, p) == IF ~IsVal(r) THEN r
                           ELSE IF ~IsVal(Part(p)) THEN Part(p)
                           ELSE Val(TextVal(r.val.str \o AsText(Part(p).val)))
         IN  FoldLeft(Join, Val(TextVal(<<>>)), parts)

\* Scalars that are not texts stay as they are.
Scalar(v, env) == IF IsText(v) THEN Substitute(v.str, env) ELSE Val(v)

\* _coerce_override.  A raw override is the text of the command line with what
\* it reads as: a boolean, an integer, or neither; the declared value says which
\* of them it has to be.
Coerce(raw, v) ==
    CASE IsBool(v) -> IF raw.bool = {} THEN ParamErr
                      ELSE Val(BoolVal(CHOOSE b \in raw.bool : TRUE))
      [] IsInt(v)  -> IF raw.int = {} THEN ParamErr
                      ELSE Val(IntVal(CHOOSE n \in raw.int : TRUE))
      [] OTHER     -> Val(TextVal(raw.str))

=============================================================================
