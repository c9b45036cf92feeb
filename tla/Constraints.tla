---------------------------- MODULE Constraints ----------------------------
(***************************************************************************)
(* The constraint language of the workbench: the declarative conditions    *)
(* that pages attach to form fields, buttons and table actions.  The       *)
(* functions that interpret them are in the module ConstraintService.      *)
(*                                                                         *)
(* A constraint is a tree, as in the source: a property of the data, a     *)
(* literal, or an operator with one or two arguments.  Data is a function  *)
(* from property names to values; every value is a sequence of strings, so *)
(* that a scalar, an array and the empty value can be compared: <<"x">> is *)
(* the scalar "x", <<"a", "b">> an array, <<>> null, '' or [].             *)
(***************************************************************************)
EXTENDS Naturals, Sequences, SequencesExt

None    == <<>>
V(x)    == <<x>>
On      == V("true")
Off     == V("false")
Flag(b) == IF b THEN On ELSE Off

\* The nodes of a constraint.
Prop(p)      == [prop |-> p]
Lit(x)       == [value |-> x]
Op1(op, a)   == [operator |-> op, arg0 |-> a]
Op2(op, a, b) == [operator |-> op, arg0 |-> a, arg1 |-> b]

Always == Lit(TRUE)
Never  == Lit(FALSE)

\* The forms the pages write most: a property and a literal.
Is(p, v)    == Op2("eq", Prop(p), Lit(v))
Eq(p, x)    == Is(p, V(x))
Ne(p, x)    == Op2("ne", Prop(p), Lit(V(x)))
Same(p, r)  == Op2("eq", Prop(p), Prop(r))
Differ(p, r) == Op2("ne", Prop(p), Prop(r))
Truthy(p)   == Op1("truthy", Prop(p))
Falsy(p)    == Op1("falsy", Prop(p))
Empty(p)    == Op1("empty", Prop(p))
NotEmpty(p) == Op1("notEmpty", Prop(p))
InSet(p, S) == Op2("in", Prop(p), Lit({V(x) : x \in S}))
Has(p)      == Op1("has", Prop(p))
Both(a, b)  == Op2("and", a, b)
Either(a, b) == Op2("or", a, b)
Implies(a, b) == Op2("if", a, b)
Negated(a)  == Op1("not", a)
=============================================================================
