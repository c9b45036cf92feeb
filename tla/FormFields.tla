----------------------------- MODULE FormFields -----------------------------
(***************************************************************************)
(* The vocabulary the form pages of the workbench are written in: a field, *)
(* its validators, the modifiers that other fields trigger, and a page.    *)
(*                                                                         *)
(* Of a field's data the model keeps what the behaviour of a form can tell *)
(* apart: the value it starts with, a few values a user may enter, and     *)
(* whether one of them is refused by the field's own validators (pattern,  *)
(* min, max and the like).  Labels, hints, icons and stores are left out.  *)
(* A field is written as its type followed by its aspects, joined by "&":  *)
(*   Text("host", None) & Checked & RequiredIf(Truthy("enable"))           *)
(***************************************************************************)
EXTENDS ConstraintService

Bad == V("bad")          \* stands for every ill-formed input of a field

Field(name, first, inputs) ==
  [name     |-> name,
   first    |-> first,     \* value when the page opens
   route    |-> Never,     \* ... or the one in the URL
   inputs   |-> inputs,    \* what a user may enter
   bad      |-> {},        \* the values its own validators refuse
   required |-> Never,     \* validators.required and requiredIf
   tests    |-> {},        \* validators.custom
   disabled |-> Never,     \* the configured initial state
   submit   |-> TRUE,      \* submitValue
   mods     |-> <<>>]      \* modifiers, in their order

\* The field types, by the values they hold.
Text(name, first)  == Field(name, first, {V("text"), None})
Number(name, first) == Field(name, V(first), {V("7")})
Checkbox(name, first) == Field(name, first, {On, Off})
Select(name, first, options) == Field(name, V(first), {V(o) : o \in options})
Reference(name) == Field(name, None, {V("ref"), None})
Multi(name, first, choices) == Field(name, first, choices)
Several == {V("a"), <<"a", "b">>, None}
Rows    == {V("row"), None}
Hidden(name, first) == Field(name, first, {})

\* An aspect: properties it sets, and what it adds to the field.
Aspect(set) == [set |-> set, inputs |-> {}, tests |-> {}, mods |-> <<>>]
f & a == a.set @@ [f EXCEPT !.inputs = @ \union a.inputs,
                            !.tests = @ \union a.tests, !.mods = @ \o a.mods]

Checked             == [Aspect([bad |-> {Bad}]) EXCEPT !.inputs = {Bad}]
RequiredIf(c)       == Aspect([required |-> c])
Required            == RequiredIf(Always)
Must(c)             == [Aspect(<<>>) EXCEPT !.tests = {c}]
Disabled            == Aspect([disabled |-> Always])
DisabledWhenEditing == Aspect([disabled |-> Truthy("_editing")])
ReadOnly            == Aspect([inputs |-> {}])
FromRoute           == Aspect([route |-> Always])
FromEditUrl         == Aspect([route |-> Truthy("_editing")])
NotSubmitted        == Aspect([submit |-> FALSE])

\* A value the page only shows.
Shown(name) == Text(name, None) & Disabled

\* Modifiers.  "opposite" says whether an unfulfilled constraint undoes what
\* a fulfilled one does.
Modifier(type, constraint, deps, opposite, value) ==
  [Aspect(<<>>) EXCEPT !.mods =
     <<[type |-> type, constraint |-> constraint, deps |-> deps,
        opposite |-> opposite, value |-> value]>>]
Switch(type, c, opposite) == Modifier(type, c, GetProps(c), opposite, None)

\* Mutants: "opposite: false" is forgotten; an option that another one needs
\* to be checked is checked without it.
CheckedIf_Mutant(c)   == Switch("checked", c, TRUE)
UncheckedIf_Mutant(c) == Switch("checked", c, FALSE)

DisabledIf(c)  == Switch("disabled", c, TRUE)
EnabledIf(c)   == Switch("enabled", c, TRUE)
VisibleIf(c)   == Switch("visible", c, TRUE)
HiddenIf(c)    == Switch("hidden", c, TRUE)
CheckedIf(c)   == Switch("checked", c, FALSE)
UncheckedIf(c) == Switch("unchecked", c, FALSE)
ValueIf(c, value)    == Modifier("value", c, GetProps(c), TRUE, value)
ValueOn(deps, value) == Modifier("value", Always, deps, TRUE, value)

\* What a value modifier writes: a literal, the first element of a property,
\* or a text made of some properties when a constraint holds.
Literal(v)     == [literal |-> v]
HeadOf(p)      == [head |-> p]
TextOf(ps, c)  == [of |-> ps, when |-> c]

ConfObjUuid == Hidden("uuid", V("new")) & FromEditUrl

\* Schedules: a unit holds "*" or a list of times, not both; "every n" makes
\* sense for a single time only.
Mixed == <<"*", "5">>
Times == {V("5"), <<"5", "7">>, V("*"), Mixed, None}
TimeUnit(unit, first) == Multi(unit, first, Times) & Aspect([bad |-> {Mixed}])
NotOne(unit) == Op2("ne", Op1("length", Prop(unit)), Lit(1))
Every(unit)  == Op2("in", Lit(V("*")), Prop(unit))
CronFields == <<"minute", "everynminute", "hour", "everynhour", "dayofmonth",
                "everyndayofmonth", "month", "dayofweek">>

-----------------------------------------------------------------------------
\* A page.  "done" is the URL the submit button leads to, "" when the page
\* stays as it is after saving.
Page(load, save, fields, done, cancel) ==
  [load     |-> load,     \* "" when the page has no request.get
   save     |-> save,
   fields   |-> fields,
   done     |-> done,
   cancel   |-> cancel,
   samples  |-> {<<>>},   \* what the backend may return: values that differ
   allowed  |-> Always,   \* enabledConstraint of the submit button
   custom   |-> FALSE,    \* the page submits by code of its own
   confirms |-> FALSE]    \* the submit button has a request to be confirmed
=============================================================================
