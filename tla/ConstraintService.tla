------------------------- MODULE ConstraintService -------------------------
(***************************************************************************)
(* The two functions of ConstraintService that interpret constraints: the  *)
(* properties a constraint reads, and its value for the data given.        *)
(***************************************************************************)
EXTENDS Constraints

IsProp(c) == "prop" \in DOMAIN c
IsLit(c)  == "value" \in DOMAIN c

Binary == {"and", "or", "if", "eq", "ne", "ge"}
Unary  == {"not", "empty", "notEmpty", "in", "length", "truthy", "falsy", "has"}

\* The properties a constraint reads.  "in" is looked at as if it had one
\* argument: a property in its second one is not reported.
RECURSIVE GetProps(_)
GetProps(c) ==
  CASE IsProp(c) -> {c.prop}
    [] IsLit(c)  -> {}
    [] OTHER     -> IF c.operator \in Binary
                    THEN GetProps(c.arg0) \union GetProps(c.arg1)
                    ELSE GetProps(c.arg0)

\* The value of a constraint for the given data.  A property the data does
\* not have is undefined: neither truthy nor equal to a literal, and empty.
Defined(c, data) == IsProp(c) => c.prop \in DOMAIN data

RECURSIVE Test(_, _)
Test(c, data) ==
  CASE IsProp(c) -> IF c.prop \in DOMAIN data THEN data[c.prop] ELSE None
    [] IsLit(c)  -> c.value
    [] OTHER ->
       LET a == Test(c.arg0, data)
           b == Test(c.arg1, data)
       IN  CASE c.operator = "and"      -> a /\ b
             [] c.operator = "or"       -> a \/ b
             [] c.operator = "not"      -> ~a
             [] c.operator = "if"       -> a => b
             [] c.operator = "eq"       -> a = b
             [] c.operator = "ne"       -> a # b
             [] c.operator = "ge"       -> a >= b
             [] c.operator = "empty"    -> a = None
             [] c.operator = "notEmpty" -> a # None
             [] c.operator = "in"       ->
                  IF IsLit(c.arg1) THEN a \in c.arg1.value
                  ELSE \E i \in DOMAIN b : a = V(b[i])
             [] c.operator = "length"   -> Len(a)
             [] c.operator = "truthy"   -> a = On
             [] c.operator = "falsy"    -> a \in {Off, None}
             [] c.operator = "has"      -> Defined(c.arg0, data)
=============================================================================
