------------------------------ MODULE CppExpr ------------------------------
(***************************************************************************)
(* Preprocessor_expr() (Source/Preprocessor/expr.c), the evaluator of the  *)
(* conditions of #if and #elif: a stack of values, operators and groups,   *)
(* one step per token.  Identifiers count as 0; of the 21 operators the    *)
(* ones in Binary and Unary stand for all, strings are left out.           *)
(***************************************************************************)
EXTENDS Integers, Sequences, TLC

CONSTANTS
    Number,     \* [token -> its value]
    Binary,     \* binary operators: a subset of {"*", "-", "<", "==", "&&", "||"}
    Unary,      \* unary operators: a subset of {"neg", "!", "plus"}
    MaxTokens   \* bound: tokens of an expression, without the end

VARIABLES
    stack,      \* stack[0..sp], the top is the last element
    status,     \* "running", "error", "done", or "abort" when an assertion fails
    tokens,     \* the tokens read: what the result is compared with
    late        \* was an operator pushed on one that should be applied first?

vars == <<stack, status, tokens, late>>

\* low values bind tighter
prec == ("neg" :> 10) @@ ("*" :> 20) @@ ("-" :> 30) @@ ("==" :> 80) @@ ("<" :> 80)
        @@ ("!" :> 90) @@ ("&&" :> 100) @@ ("||" :> 110)

Truth(b) == IF b THEN 1 ELSE 0

Apply1(op, x) == IF op = "neg" THEN -x ELSE Truth(x = 0)

Apply2(op, x, y) ==
    CASE op = "*"  -> x * y
      [] op = "-"  -> x - y
      [] op = "<"  -> Truth(x < y)
      [] op = "==" -> Truth(x = y)
      [] op = "&&" -> Truth(x # 0 /\ y # 0)
      [] op = "||" -> Truth(x # 0 \/ y # 0)

Entry(op) == [op |-> op, tok |-> "", val |-> 0]
Value(x)  == [Entry("value") EXCEPT !.val = x]
Op(t)     == [Entry("op") EXCEPT !.tok = t]

Drop(s, n) == SubSeq(s, 1, Len(s) - n)
Below(s)   == s[Len(s) - 1]     \* stack[sp - 1]
Top(s)     == s[Len(s)]

\* mutant of reduce_op: the operands are taken in the wrong order
reduce_op_Swapped(s) ==
    CASE Top(s).op # "value" -> << >>
      [] Below(s).tok \in {"neg", "!"} -> Append(Drop(s, 2), Value(Apply1(Below(s).tok, Top(s).val)))
      [] Len(s) = 2 -> << >>
      [] OTHER -> Append(Drop(s, 3),
                         Value(Apply2(Below(s).tok, Top(s).val, s[Len(s) - 2].val)))

\* the operator below the top is applied; << >> when it cannot be
reduce_op(s) ==
    CASE Top(s).op # "value" -> << >>
      [] Below(s).tok \in {"neg", "!"} -> Append(Drop(s, 2), Value(Apply1(Below(s).tok, Top(s).val)))
      [] Len(s) = 2 -> << >>
      [] OTHER -> Append(Drop(s, 3),
                         Value(Apply2(Below(s).tok, s[Len(s) - 2].val, Top(s).val)))

HasOp(s) == Len(s) > 1 /\ Below(s).op = "op"

\* reduce all operators down to a group or the bottom
RECURSIVE ReduceAll(_)
ReduceAll(s) == IF s # << >> /\ HasOp(s) THEN ReduceAll(reduce_op(s)) ELSE s

\* an operator above one that binds as tight or tighter, in one group
Misplaced(s) ==
    \E i, j \in 1..Len(s) :
        /\ i < j /\ s[i].op = "op" /\ s[j].op = "op" /\ s[j].tok \in Binary
        /\ prec[s[i].tok] <= prec[s[j].tok]
        /\ \A k \in i..j : s[k].op # "group"

Init == stack = <<Entry("top")>> /\ status = "running" /\ tokens = << >> /\ late = FALSE

Becomes(s, st) ==
    /\ stack' = s
    /\ status' = st

Error == Becomes(stack, "error")

\* EXPR_TOP: a value is expected
AtTop(t) ==
    /\ Top(stack).op = "top"
    /\ CASE t \in DOMAIN Number -> Becomes(Append(Drop(stack, 1), Value(Number[t])), "running")
         [] t = "plus" -> Becomes(stack, "running")
         [] t \in Unary \ {"plus"} -> Becomes(Drop(stack, 1) \o <<Op(t), Entry("top")>>, "running")
         [] t = "(" -> Becomes(Drop(stack, 1) \o <<Entry("group"), Entry("top")>>, "running")
         [] OTHER -> Error

\* EXPR_VALUE: an operator, a parenthesis or the end is expected
AtValue(t) ==
    /\ Top(stack).op = "value"
    /\ CASE t = "end" ->
              LET s == ReduceAll(stack) IN
              Becomes(s, IF Len(s) = 1 THEN "done" ELSE "error")
         [] t \in Binary ->
              LET Push(s) == Becomes(s \o <<Op(t), Entry("top")>>, "running") IN
              IF Len(stack) = 1 \/ Below(stack).op = "group" THEN Push(stack)
              ELSE IF prec[Below(stack).tok] > prec[t] THEN Push(stack)
              ELSE IF reduce_op(stack) = << >> THEN Error
              ELSE Push(reduce_op(stack))
         [] t = ")" ->
              LET s == ReduceAll(stack) IN
              IF Len(s) < 2 THEN Error
              ELSE Becomes(Append(Drop(s, 2), Top(s)), "running")
         [] OTHER -> Error

Tokens == DOMAIN Number \cup Binary \cup Unary \cup {"(", ")", "end"}

Read(t) ==
    /\ status = "running"
    /\ Len(tokens) < MaxTokens \/ t = "end"
    /\ tokens' = Append(tokens, t)
    /\ \/ AtTop(t)
       \/ AtValue(t)
       \/ Top(stack).op \notin {"top", "value"} /\ Becomes(stack, "abort")
    /\ late' = (late \/ Misplaced(stack'))

Next == \E t \in Tokens : Read(t)

Spec == Init /\ [][Next]_vars

-----------------------------------------------------------------------------
(***************************************************************************)
(* What the tokens mean: the grammar with the precedences of the table     *)
(* above, operators of one precedence from left to right.  Each definition *)
(* returns the value and the position behind the phrase that starts at i,  *)
(* or Bad.                                                                 *)
(***************************************************************************)
Bad == [val |-> 0, next |-> 0]
At(i) == IF i \in 1..Len(tokens) THEN tokens[i] ELSE "end"

RECURSIVE Phrase(_, _), Primary(_), Rest(_, _)

\* a phrase of operators that bind at least as tight as p
Phrase(i, p) == LET first == Primary(i) IN IF first = Bad THEN Bad ELSE Rest(first, p)

Rest(left, p) ==
    LET t == At(left.next) IN
    IF t \notin Binary \/ prec[t] > p THEN left
    ELSE LET right == Phrase(left.next + 1, prec[t] - 1) IN
         IF right = Bad THEN Bad
         ELSE Rest([val |-> Apply2(t, left.val, right.val), next |-> right.next], p)

Primary(i) ==
    LET t == At(i) IN
    CASE t \in DOMAIN Number -> [val |-> Number[t], next |-> i + 1]
      [] t = "plus" -> Primary(i + 1)
      [] t \in Unary \ {"plus"} ->
            LET x == Phrase(i + 1, prec[t] - 1) IN
            IF x = Bad THEN Bad ELSE [val |-> Apply1(t, x.val), next |-> x.next]
      [] t = "(" ->
            LET x == Phrase(i + 1, 1000) IN
            IF x = Bad \/ At(x.next) # ")" THEN Bad ELSE [x EXCEPT !.next = @ + 1]
      [] OTHER -> Bad

Meaning == Phrase(1, 1000)
IsExpression == Meaning # Bad /\ Meaning.next = Len(tokens)

-----------------------------------------------------------------------------
(***************************************************************************)
(* Properties                                                              *)
(***************************************************************************)
ExprTypeOK ==
    /\ stack \in Seq([op : {"top", "value", "op", "group"}, tok : Tokens \cup {""}, val : Int])
    /\ status \in {"running", "error", "done", "abort"}
    /\ tokens \in Seq(Tokens) /\ late \in BOOLEAN

Ended == tokens # << >> /\ Top(tokens) = "end"

\* expr.c:70 assert(sp > 0), :71 assert(stack[sp - 1].op == EXPR_OP) and the
\* abort() of :403 hold for every sequence of tokens; an error is reported for
\* exactly the sequences that are no expression.
RejectsNonExpressions ==
    /\ status # "abort" /\ stack # << >>
    /\ \A k \in 1..(Len(stack) - 1) : stack[k].op # "top"
    /\ Ended => (status = "done" <=> IsExpression)

\* A value is right unless an operator came late, see PrecedenceRespected: then
\* the values and operators that are left on the stack mean what was read.
RightUnlessLate == status = "done" /\ ~late => Top(stack).val = Meaning.val

\* expr.c:36 "Low values have higher precedence", Preprocessor.html:96 "SWIG fully
\* supports the use of #if": the value of a condition is the one its operators'
\* precedences give it.
PrecedenceRespected == status = "done" => Top(stack).val = Meaning.val
=============================================================================
