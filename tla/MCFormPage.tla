----------------------------- MODULE MCFormPage -----------------------------
(* The form pages of the workbench with their routes.                      *)
EXTENDS FormPage, FormsNetwork, FormsServices, FormsStorage, FormsSystem,
        FormsUsers, Routes

AllForms == NetworkForms @@ ServicesForms @@ StorageForms @@ SystemForms
            @@ UsersForms

\* What FormPageProofs assumes of the tests of a page's fields and of the
\* conditions of its modifiers: none reads a property that is not reported.
\* Checked for the other fields of the page, with the values that users enter.
ASSUME TestsAreReported ==
  \A p \in Pages :
    LET fields == Range(Forms[p].fields)
        inputs(k) == {None, On} \union
                       UNION {f.inputs : f \in {g \in fields : g.name = k}}
        data(keys) ==
          FoldSet(LAMBDA k, D : {d @@ (k :> v) : d \in D, v \in inputs(k)},
                  {<<>>}, keys)
        conditions(f) ==
          f.tests \union {f.required}
            \union {m.constraint : m \in Range(f.mods)}
    IN  \A c \in UNION {conditions(f) : f \in fields} :
          \A n \in {g.name : g \in fields} \ GetProps(c) :
            \A d \in data(GetProps(c)) :
              Cardinality({Test(c, d @@ (n :> v)) : v \in inputs(n)}) = 1

\* What FormPageProofs assumes of the measure of a page: a field can be given
\* the cost of all the changes that its own change may cause, except on the
\* three pages on which two fields modify each other.
Circular == {"RsyncTaskForm", "SmbSettingsForm", "SmbShareForm"}

RECURSIVE Height(_, _)
Height(p, n) ==
  LET later == {x.name : x \in {x \in Range(p.dependents[n]) :
                                 x.modifier.type \notin {"visible", "hidden"}}}
  IN  1 + Total([m \in later |-> Height(p, m)], p.dependents[n])

ASSUME PagesAreMeasured ==
  /\ Circular \subseteq Pages
  /\ \A q \in Pages \ Circular :
       LET p == Component(q, Forms[q])
           w == [n \in Range(p.names) |-> Height(p, n)]
       IN  Descends(p, w) /\ Bounded(p, w)

\* No two modifiers switch the same field, and each follows its condition.
ASSUME SwitchesAreLone ==
  \A q \in Pages :
    LET p == Component(q, Forms[q]) IN Lone(p) = Switches(p)

\* The meaning of the constraints.  (Without the LETs, TLC's statistics on the
\* evaluation of Test outgrow its memory.)
Holds(c, d) == LET b == Test(c, d) IN b
Read(c)     == LET names == GetProps(c) IN names
=============================================================================
