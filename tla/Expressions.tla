------------------------------ MODULE Expressions ------------------------------
(***************************************************************************)
(* Constant expressions of integers: how Parser.cpp groups their tokens    *)
(* and what they amount to.  FrontEnd takes the two operators it needs of  *)
(* them as constants: IsExpression is Parses here, Value is ComputedValue. *)
(***************************************************************************)
EXTENDS FrontEnd

\* Numbers, + - * / %, signs and parentheses.
Token(ts, i) == IF i \in DOMAIN ts THEN ts[i].t ELSE "end"
isBinOperator(t) == t \in {"+", "-", "*", "/", "%"}

getPrecedenceMutant(t) == 1      \* all bind alike

\* The larger binds tighter.
getPrecedence(t) == IF t \in {"*", "/", "%"} THEN 1 ELSE 2

Fails == [ok |-> FALSE, at |-> 0, exp |-> Number(0)]

RECURSIVE parseUnaryExpression(_, _), parseBinOpExpressionRecursive(_, _, _)

parseSimpleLiteral(ts, i) ==
  CASE Token(ts, i) = "number" -> [ok |-> TRUE, at |-> i + 1, exp |-> ts[i]]
    [] Token(ts, i) = "(" ->
         LET first == parseUnaryExpression(ts, i + 1)
             inner == parseBinOpExpressionRecursive(ts, 0, first) IN
           IF inner.ok /\ Token(ts, inner.at) = ")" THEN [inner EXCEPT !.at = @ + 1] ELSE Fails
    [] OTHER -> Fails

parseUnaryExpression(ts, i) ==
  IF Token(ts, i) \in {"+", "-"}
  THEN LET operand == parseUnaryExpression(ts, i + 1) IN
         [operand EXCEPT !.exp = [t |-> "unary", op |-> ts[i].t, operand |-> operand.exp]]
  ELSE parseSimpleLiteral(ts, i)

Binary(ts, lhs, rhs) ==
  [ok |-> rhs.ok, at |-> rhs.at,
   exp |-> [t |-> "binary", op |-> ts[lhs.at].t, lhs |-> lhs.exp, rhs |-> rhs.exp]]

\* The right side of op: the operator after the operand may bind it tighter.
RightOf(ts, op, operand) ==
  LET next == Token(ts, operand.at) IN
    IF operand.ok /\ isBinOperator(next) /\ getPrecedence(op) < getPrecedence(next)
    THEN parseBinOpExpressionRecursive(ts, getPrecedence(op) + 1, operand)
    ELSE operand

\* lhs with the operators after it that bind at least as tight as oldprec.
parseBinOpExpressionRecursive(ts, oldprec, lhs) ==
  LET op == Token(ts, lhs.at) IN
    IF ~lhs.ok \/ ~isBinOperator(op) \/ getPrecedence(op) < oldprec THEN lhs
    ELSE parseBinOpExpressionRecursive(ts, oldprec,
           Binary(ts, lhs, RightOf(ts, op, parseUnaryExpression(ts, lhs.at + 1))))

parseExpression(ts) == parseBinOpExpressionRecursive(ts, 0, parseUnaryExpression(ts, 1))

\* As C divides.
Magnitude(a) == IF a < 0 THEN -a ELSE a
Quotient(a, b) == LET q == Magnitude(a) \div Magnitude(b) IN IF (a < 0) = (b < 0) THEN q ELSE -q
Apply(op, a, b) ==
  CASE op = "+" -> a + b [] op = "-" -> a - b [] op = "*" -> a * b
    [] op = "/" -> Quotient(a, b) [] op = "%" -> a - b * Quotient(a, b)

RECURSIVE computeExpressionValue(_)
computeExpressionValue(exp) ==
  CASE exp.t = "number" -> exp.v
    [] exp.t = "unary" -> IF exp.op = "-" THEN -computeExpressionValue(exp.operand)
                          ELSE computeExpressionValue(exp.operand)
    [] exp.t = "binary" -> Apply(exp.op, computeExpressionValue(exp.lhs), computeExpressionValue(exp.rhs))

Parses(ts) == LET e == parseExpression(ts) IN e.ok /\ e.at = Len(ts) + 1
ComputedValue(ts) == computeExpressionValue(parseExpression(ts).exp)
-----------------------------------------------------------------------------
(* What must hold.                                                         *)

RECURSIVE Reference(_)
Reference(ts) ==
  LET Deep(i) == Cardinality({j \in 1 .. i : ts[j].t = "("}) - Cardinality({j \in 1 .. i : ts[j].t = ")"})
      ops == {i \in 2 .. Len(ts) : isBinOperator(ts[i].t) /\ Deep(i) = 0 /\ ts[i - 1].t \in {"number", ")"}}
      loose == {i \in ops : ts[i].t \in {"*", "/", "%"}}
      last == Max(IF loose # {} THEN loose ELSE ops)
  IN CASE ops # {} -> Apply(ts[last].t, Reference(SubSeq(ts, 1, last - 1)), Reference(SubSeq(ts, last + 1, Len(ts))))
       [] ts[1].t = "number" -> ts[1].v
       [] ts[1].t = "-" -> -Reference(Tail(ts))
       [] ts[1].t = "+" -> Reference(Tail(ts))
       [] ts[1].t = "(" -> Reference(SubSeq(ts, 2, Len(ts) - 1))

Namespaces == UNION {{d \in ToSet(program.files[f]) : d.decl = "namespace"} : f \in AllFiles}

\* An enum's items have the values of their expressions: operators of one kind
\* from left to right, sums before products, and one more than the item before
\* where there is no expression.
EnumValues ==
  status = "generated" => \A n \in Namespaces : \A d \in ToSet(n.within) : d.decl = "enum" =>
    \A en \in FindIn(top_ast, "enums", d.name, n.name) : \A i \in DOMAIN d.items :
      en.items[i].value = IF d.items[i].expr # << >> THEN Reference(d.items[i].expr)
                          ELSE IF i = 1 THEN 0 ELSE en.items[i - 1].value + 1
=============================================================================
