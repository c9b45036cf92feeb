------------------------------ MODULE FormPage ------------------------------
(***************************************************************************)
(* The form pages of the workbench at work: the form that FormComponent    *)
(* builds from a page's fields, the page that loads, submits and leaves    *)
(* it, and the guard of its route.                                         *)
(*                                                                         *)
(* A user's input changes one field; the modifiers of other fields that    *)
(* depend on it run at once, depth first, and may change further fields.   *)
(* That whole cascade runs in the browser's single thread, so it is one    *)
(* action here, with the validations that are debounced by 5 ms at its     *)
(* end.  Answers of the backend, input and navigation interleave.          *)
(***************************************************************************)
EXTENDS Constraints, Arrays

CONSTANTS
  Forms,       \* the form pages, by name
  Routes,      \* the routes that lead to them, and the others
  MaxTouched,  \* how many fields a user touches before leaving a page
  Satisfies(_, _),  \* ConstraintService.test: the value of a constraint
  Reads(_)          \* ConstraintService.getProps: the properties it reads

Pages == DOMAIN Forms
FormRoutes == {r \in Routes : r.form /\ r.page \in Pages}

Types == {"disabled", "enabled", "checked", "unchecked", "visible", "hidden",
          "value"}
Exempt == {"/404", "/503", "/guruMeditation", "/login", "/reload"}

ASSUME FieldsAssumption ==   \* the fields of a page have different names
  \A p \in Pages : LET fields == Forms[p].fields IN
    /\ fields \in Seq(Range(fields))
    /\ \A i, j \in DOMAIN fields : fields[i].name = fields[j].name => i = j
    /\ \A f \in Range(fields) :
         /\ f.name # "_editing" /\ f.submit \in BOOLEAN
         /\ f.mods \in Seq(Range(f.mods))
         /\ \A m \in Range(f.mods) : m.type \in Types
ASSUME RoutesAssumption ==   \* each page has a route, each URL one form
  /\ Pages \subseteq {r.page : r \in FormRoutes}
  /\ \A r, q \in FormRoutes : r.url = q.url => r = q
  /\ \A r \in Routes : r.url \in STRING
  /\ {"/dashboard", "/login", "/503"} \subseteq {r.url : r \in Routes}
ASSUME ButtonsAssumption ==  \* the URLs of the submit and cancel buttons
  \A p \in Pages :
    /\ {"done", "cancel", "confirms"} \subseteq DOMAIN Forms[p]
    /\ {Forms[p].done, Forms[p].cancel} \subseteq STRING
    /\ Forms[p].cancel \notin Exempt
ASSUME MaxTouchedAssumption == MaxTouched \in Nat

Urls == {r.url : r \in Routes}

\* A URL that leads to a page.  The family in a URL of the firewall is the
\* one of the rule.
Exists(url) ==
  \/ url \in Urls
  \/ /\ url = "/network/firewall/rules/:family"
     /\ {"/network/firewall/rules/inet", "/network/firewall/rules/inet6"}
          \subseteq Urls

\* Not assumed, but true of the pages of the repository: the pages that the
\* buttons lead to exist, and a request that a button sends once it was
\* confirmed leads to one.
ButtonsLand ==
  \A p \in Pages :
    /\ Forms[p].cancel # "" => Exists(Forms[p].cancel)
    /\ Forms[p].done # "" => Exists(Forms[p].done)
    /\ Forms[p].confirms => Forms[p].done # ""

\* And: a test of a field has the same value whatever is set of the
\* properties that getProps does not report of it.
Reported(c, keys, Values) ==
  \A d \in [keys -> Values], n \in keys \ Reads(c), v \in Values :
    Satisfies(c, [d EXCEPT ![n] = v]) <=> Satisfies(c, d)

VARIABLES
  at,        \* the URL shown
  page,      \* the form page that is open, "" when none is
  phase,     \* what the page is doing
  values,    \* the raw values of the form, and "_editing"
  off,       \* the disabled fields
  hidden,    \* the fields not displayed
  dirty,     \* the fields the user has changed
  changed,   \* whether the form counts as dirty
  invalid,   \* the fields that are marked as invalid
  saved,     \* the values the backend is known to hold
  undone,    \* the user's last input was undone by the modifiers it ran
  touched,   \* the fields the user has changed, bounded by MaxTouched
  endless,   \* a cascade of modifiers has not come to an end
  left       \* how the last page was left

form == <<values, off, hidden, dirty, changed, invalid, endless>>
vars == <<at, page, phase, form, saved, undone, touched, left>>

-----------------------------------------------------------------------------
\* The work of a cascade: a modifier to apply, a value to set, a change to
\* announce, the form's dirty flag to settle.
Modify(n, mod)  == [do |-> "modify", name |-> n, modifier |-> mod]
Patch(n, value) == [do |-> "patch", name |-> n, value |-> value]
Announce(n)     == [do |-> "announce", name |-> n]
Settle          == [do |-> "settle"]

Modifiers(fields) == FlattenSeq(
  [i \in DOMAIN fields |->
     [j \in DOMAIN fields[i].mods |->
        Modify(fields[i].name, fields[i].mods[j])]])

\* Mutant: the constraint validators do not watch other fields.
Watchers_Mutant(n, fields) ==
  {f.name : f \in {g \in fields : g.name # n /\ n \in Reads(g.required)}}

\* The modifiers that run when field n changes, in the order they subscribed.
Dependents(n, mods) ==
  Only(mods, {x \in Range(mods) : n \in x.modifier.deps \ {x.name}})

\* The fields that are validated again when field n changes.
Watchers(n, fields) ==
  {f.name : f \in {g \in fields : /\ g.name # n
                                  /\ \E c \in g.tests \union {g.required} :
                                        n \in Reads(c)}}

\* The fields a constraint on visibility looks at.
ViewFields(names, mods) ==
  LET views == {x \in Range(mods) : x.modifier.type \in {"visible", "hidden"}}
  IN  Only(names, UNION {x.modifier.deps : x \in views})

\* The fields a user is given in this model: of the fields that neither
\* depend on another field nor matter to one, and are alike, the first.
Alike(f, fields, mods) ==
  [inputs |-> f.inputs, bad |-> f.bad, required |-> f.required,
   disabled |-> f.disabled, submit |-> f.submit,
   others |-> IF /\ f.mods = <<>> /\ f.tests = {} /\ Reads(f.required) = {}
                 /\ Watchers(f.name, Range(fields)) = {}
                 /\ Dependents(f.name, mods) = <<>>
              THEN "" ELSE f.name]

\* What the components of a page make of its fields, once and for all.
Component(name, spec) ==
  LET fields == spec.fields
      names  == [i \in DOMAIN fields |-> fields[i].name]
      Names  == Range(names)
      of(n)  == CHOOSE i \in DOMAIN fields : names[i] = n
      mods   == Modifiers(fields)
      alike  == [i \in DOMAIN fields |-> Alike(fields[i], fields, mods)]
  IN  [name       |-> name,
       spec       |-> [spec EXCEPT !.fields = <<>>],
       names      |-> names,
       fields     |-> [n \in Names |-> fields[of(n)]],
       submitted  |-> {n \in Names : fields[of(n)].submit},
       modifiers  |-> mods,
       dependents |-> [n \in Names |-> Dependents(n, mods)],
       watchers   |-> [n \in Names |-> Watchers(n, Range(fields))],
       views      |-> ViewFields(names, mods),
       inputs     |-> [n \in Names |->
                         IF \E j \in 1..(of(n) - 1) : alike[j] = alike[of(n)]
                         THEN {} ELSE fields[of(n)].inputs]]

NoPage == [name |-> ""]

-----------------------------------------------------------------------------
\* The form, as a record while a cascade runs.
Form == [values |-> values, off |-> off, hidden |-> hidden, dirty |-> dirty,
         changed |-> changed, invalid |-> invalid, stale |-> {}]

Refuses(p, n, data) ==
  LET f == p.fields[n] IN
  \/ data[n] = None /\ Satisfies(f.required, data)
  \/ data[n] \in f.bad
  \/ \E c \in f.tests : ~Satisfies(c, data)

Refused(p, s) ==
  {n \in Range(p.names) \ s.off : Refuses(p, n, s.values)}

\* Mutant: disabled fields are validated like the others.
Validate_Mutant(p, n, s) ==
  [s EXCEPT !.invalid = IF Refuses(p, n, s.values) THEN @ \union {n}
                        ELSE @ \ {n}]

Validate(p, n, s) ==
  [s EXCEPT !.invalid = IF n \notin s.off /\ Refuses(p, n, s.values)
                        THEN @ \union {n} ELSE @ \ {n}]

SetValue(p, n, v, s) == Validate(p, n, [s EXCEPT !.values[n] = v])

SetDisabled(p, n, b, s) ==
  Validate(p, n, [s EXCEPT !.off = IF b THEN @ \union {n} ELSE @ \ {n}])

AnyDirty(s) == s.dirty \ s.off # {}

\* What a value modifier writes.
Format(value, data) ==
  CASE "literal" \in DOMAIN value -> value.literal
    [] "head" \in DOMAIN value ->
         SubSeq(data[value.head], 1, IF data[value.head] = None THEN 0 ELSE 1)
    [] OTHER ->
         IF Satisfies(value.when, data)
         THEN FlattenSeq([i \in DOMAIN value.of |->
                            Append(data[value.of[i]], "/")])
         ELSE None

\* A fulfilled modifier acts, an unfulfilled one does the opposite.  A value
\* has no opposite.
Acts(m, holds) == holds \/ (m.opposite /\ m.type # "value")

Apply(p, n, m, s) ==
  LET holds == Satisfies(m.constraint, s.values)
      Turns(type) == (m.type = type) = holds
  IN  IF ~Acts(m, holds) THEN s
      ELSE CASE m.type \in {"disabled", "enabled"} ->
                  SetDisabled(p, n, Turns("disabled"), s)
             [] m.type \in {"checked", "unchecked"} ->
                  SetValue(p, n, Flag(Turns("checked")), s)
             [] m.type \in {"visible", "hidden"} ->
                  [s EXCEPT !.hidden = IF Turns("hidden") THEN @ \union {n}
                                       ELSE @ \ {n}]
             [] m.type = "value" ->
                  SetValue(p, n, Format(m.value, s.values), s)

\* Mutant: a value set by a modifier is not announced.
Follows_Mutant(n, m, s) ==
  IF /\ Acts(m, Satisfies(m.constraint, s.values))
     /\ m.type \in {"disabled", "enabled"}
  THEN IF s.changed => AnyDirty(s) THEN <<Announce(n), Settle>>
       ELSE <<Announce(n)>>
  ELSE <<>>

\* What follows: the change is announced, also when the value is the same.
\* Disabling and enabling recompute the form's dirty flag, unless the form
\* was marked as dirty on its own.
Follows(n, m, s) ==
  IF ~Acts(m, Satisfies(m.constraint, s.values))
     \/ m.type \in {"visible", "hidden"}
  THEN <<>>
  ELSE IF m.type \in {"disabled", "enabled"} /\ (s.changed => AnyDirty(s))
       THEN <<Announce(n), Settle>>
       ELSE <<Announce(n)>>

\* One step of a cascade: the work still to do, and the form so far.
Step(p, c) ==
  LET x == Head(c.todo)
      s == c.form
      Then(first, t) == [todo |-> first \o Tail(c.todo), form |-> t]
  IN  CASE x.do = "modify" ->
             Then(Follows(x.name, x.modifier, s),
                  Apply(p, x.name, x.modifier, s))
        [] x.do = "patch" ->
             Then(<<Announce(x.name)>>, SetValue(p, x.name, x.value, s))
        [] x.do = "announce" ->
             Then(p.dependents[x.name],
                  [s EXCEPT !.stale = @ \union p.watchers[x.name]])
        [] x.do = "settle" -> Then(<<>>, [s EXCEPT !.changed = AnyDirty(s)])

\* At most eight steps.
Step1(p, c)  == IF c.todo = <<>> THEN c ELSE Step(p, c)
Step2(p, c)  == Step1(p, Step1(p, c))
Steps8(p, c) ==
  IF c.todo = <<>> THEN c ELSE Step2(p, Step2(p, Step2(p, Step2(p, c))))

Enough == 64   \* eight times as many steps are more than a cascade takes
               \* that comes to an end

\* A cascade when it is over, or after so many steps.
Run(p, c) ==
  LET run[n \in 0..Enough] == IF n = 0 THEN c ELSE Steps8(p, run[n - 1])
  IN  run[Enough]

\* A cascade to its end, and the debounced validations.
Cascade(p, todo, s) ==
  LET c == Run(p, [todo |-> todo, form |-> s])
      t == c.form
  IN  [endless |-> c.todo # <<>>,
       form |-> [t EXCEPT !.invalid = (@ \ t.stale)
                             \union (Refused(p, t) \cap t.stale)]]

Becomes(r, pristine) ==
  /\ values' = r.form.values /\ off' = r.form.off /\ hidden' = r.form.hidden
  /\ dirty' = IF pristine THEN {} ELSE r.form.dirty
  /\ changed' = (r.form.changed /\ ~pristine)
  /\ invalid' = r.form.invalid /\ endless' = r.endless

-----------------------------------------------------------------------------
\* The form a page starts with: the fields are built with their configured
\* values, the fields that visibility depends on announce themselves, and
\* every modifier is applied once.
First(p, editing) ==
  LET data == [_editing |-> Flag(editing)]
      Names == Range(p.names)
      disabled == {n \in Names : Satisfies(p.fields[n].disabled, data)}
      s == [values  |-> [n \in Names \union {"_editing"} |->
                           IF n = "_editing" THEN data[n]
                           ELSE IF Satisfies(p.fields[n].route, data)
                           THEN V("route") ELSE p.fields[n].first],
            off     |-> disabled, hidden |-> {}, dirty |-> {},
            changed |-> FALSE, invalid |-> {}, stale |-> {}]
      views == [i \in DOMAIN p.views |-> Announce(p.views[i])]
  IN  Cascade(p, views \o p.modifiers, [s EXCEPT !.invalid = Refused(p, s)])

\* An object the backend may return.  A field without a sample value holds
\* its first value, or some valid one when that would be refused.
Stored(p, sample) ==
  [n \in p.submitted |->
     LET f == p.fields[n] IN
     IF n \in DOMAIN sample THEN sample[n]
     ELSE IF Satisfies(f.route, [_editing |-> On]) THEN V("route")
     ELSE IF f.first = None /\ f.required = Always
     THEN CHOOSE v \in f.inputs \ f.bad : v # None
     ELSE f.first]

\* A response is applied key by key, in the order of its keys.
Keys(p) == Only(p.names, p.submitted)
KeyOrders(p) == {Keys(p), Reverse(Keys(p))}

Submitted(p, data) == Restrict(data, p.submitted)

-----------------------------------------------------------------------------
NoForm ==
  /\ values' = <<>> /\ off' = {} /\ hidden' = {} /\ dirty' = {}
  /\ changed' = FALSE /\ invalid' = {} /\ endless' = FALSE

Init ==
  /\ at = "/dashboard" /\ page = NoPage /\ phase = "closed"
  /\ values = <<>> /\ off = {} /\ hidden = {} /\ dirty = {}
  /\ changed = FALSE /\ invalid = {} /\ endless = FALSE
  /\ saved = <<>> /\ undone = FALSE /\ touched = {} /\ left = "saved"

ThisRoute == CHOOSE r \in FormRoutes : r.url = at
Loads(r, p) == r.editing /\ p.spec.load # ""

\* The router shows a form page.  In editing mode it loads its object first
\* and shows nothing until the answer is there.
Open(r) ==
  /\ phase = "closed"
  /\ at' = r.url
  /\ \E p \in {Component(r.page, Forms[r.page])} :
     \E first \in {First(p, r.editing)} :
     /\ page' = p
     /\ phase' = IF Loads(r, p) THEN "loading" ELSE "ready"
     /\ Becomes(first, FALSE)
     /\ saved' = Submitted(p, first.form.values)
  /\ undone' = FALSE /\ touched' = {} /\ left' = ""

Load(sample, keys) ==
  /\ phase = "loading"
  /\ LET stored == Stored(page, sample) IN
     /\ Becomes(Cascade(page,
                        [i \in DOMAIN keys |-> Patch(keys[i], stored[keys[i]])],
                        Form), TRUE)
     /\ saved' = stored
  /\ phase' = "ready"
  /\ UNCHANGED <<at, page, undone, touched, left>>

LoadFails ==
  /\ phase = "loading"
  /\ phase' = "failed"
  /\ UNCHANGED <<at, page, form, saved, undone, touched, left>>

-----------------------------------------------------------------------------
\* The user changes a field: it is marked as dirty and with it the form.
Edit(n, v) ==
  /\ phase = "ready"
  /\ n \notin off /\ n \notin hidden /\ v # values[n]
  /\ Cardinality(touched \union {n}) <= MaxTouched
  /\ \E r \in {Cascade(page, <<Announce(n)>>,
                       SetValue(page, n, v,
                                [Form EXCEPT !.dirty = @ \union {n},
                                             !.changed = TRUE]))} :
     Becomes(r, FALSE) /\ undone' = (r.form.values[n] # v)
  /\ touched' = touched \union {n}
  /\ UNCHANGED <<at, page, phase, saved, left>>

\* The submit button.  An existing object can be saved when it was changed;
\* an enabledConstraint sees the enabled fields only.
MaySubmit ==
  /\ phase = "ready" /\ (page.spec.save # "")
  /\ values["_editing"] = On => changed
  /\ Satisfies(page.spec.allowed,
          Restrict(values, Range(page.names) \ off))

\* An invalid form is not sent: its invalid fields are validated again, and
\* that announces them (a value the user has cleared may be proposed again).
Refuse ==
  /\ MaySubmit /\ invalid # {}
  /\ LET again == Only(page.names, invalid) IN
     Becomes(Cascade(page, [i \in DOMAIN again |-> Announce(again[i])], Form),
             FALSE)
  /\ undone' = FALSE
  /\ UNCHANGED <<at, page, phase, saved, touched, left>>

\* Mutant: every form is marked as pristine before its request is sent.
Submit_Mutant ==
  /\ MaySubmit /\ invalid = {}
  /\ phase' = "posting"
  /\ dirty' = {} /\ changed' = FALSE
  /\ UNCHANGED <<at, page, values, off, hidden, invalid, endless, saved,
                 undone, touched, left>>

\* A page that submits by its own code is marked as pristine before its
\* request is sent.
Submit ==
  /\ MaySubmit /\ invalid = {}
  /\ phase' = "posting"
  /\ IF page.spec.custom
     THEN dirty' = {} /\ changed' = FALSE
     ELSE UNCHANGED <<dirty, changed>>
  /\ UNCHANGED <<at, page, values, off, hidden, invalid, endless, saved,
                 undone, touched, left>>

\* How a page is left: without a question, and then with or without changes
\* that are lost, or after the user agreed to discard them.  A page that
\* submits by its own code may have been marked as pristine for a request
\* that then failed: its changes are "unsent".
Unsaved == Submitted(page, values) # saved
Leave(url, how) ==
  /\ at' = url /\ page' = NoPage /\ phase' = "closed"
  /\ NoForm
  /\ saved' = <<>> /\ undone' = FALSE /\ touched' = {} /\ left' = how

Saved == /\ dirty' = {} /\ changed' = FALSE
         /\ saved' = Submitted(page, values)
         /\ UNCHANGED <<at, page, values, off, hidden, invalid, endless,
                        undone, touched, left>>

\* The backend has stored the values: the form is pristine again.  The page
\* is left for its URL, stays, or asks whether to go on with its request.
PostSucceeds ==
  /\ phase = "posting"
  /\ IF page.spec.confirms THEN phase' = "asking" /\ Saved
     ELSE IF page.spec.done # "" THEN Leave(page.spec.done, "saved")
     ELSE phase' = "ready" /\ Saved

PostFails ==
  /\ phase = "posting"
  /\ phase' = "ready"
  /\ UNCHANGED <<at, page, form, saved, undone, touched, left>>

\* The request of a submit button, once the user has confirmed it.
Answer ==
  /\ phase = "asking"
  /\ phase' \in {"requesting", "ready"}
  /\ UNCHANGED <<at, page, form, saved, undone, touched, left>>

RequestSucceeds ==
  /\ phase = "requesting"
  /\ Leave(page.spec.done, "saved")

RequestFails ==
  /\ phase = "requesting"
  /\ phase' = "ready"
  /\ UNCHANGED <<at, page, form, saved, undone, touched, left>>

-----------------------------------------------------------------------------
\* IsDirtyGuardService: a guarded page with a dirty form asks the user,
\* except on the way to a few pages the program itself leads to.
Asks_Mutant(url) ==   \* a mutant: new objects are not guarded
  ThisRoute.guarded /\ url \notin Exempt /\ changed /\ values["_editing"] = On
Asks(url) == ThisRoute.guarded /\ url \notin Exempt /\ changed

Targets ==
  {"/dashboard"} \union
  (IF phase = "ready" THEN {page.spec.cancel} \ {""} ELSE {})

\* Away by the cancel button, the menu or the browser's history; the user
\* may decline to discard the changes, and then stays.
Navigate(url) ==
  /\ phase \in {"loading", "failed", "ready", "posting"}
  /\ url \in Targets
  /\ Leave(url, IF Asks(url) THEN "discarded"
                ELSE IF phase # "ready" \/ ~Unsaved THEN "saved"
                ELSE IF page.spec.custom THEN "unsent"
                ELSE IF ThisRoute.guarded THEN "lost" ELSE "unguarded")

\* The backend answers that the session has expired (401) or is not to be
\* reached (503): the program leads to a page of its own, unasked.
Interrupted(url) ==
  /\ phase \in {"loading", "posting", "requesting"}
  /\ Leave(url, "interrupted")

Showing == {page} \ {NoPage}

Next ==
  \/ \E r \in FormRoutes : Open(r)
  \/ \E sample \in UNION {p.spec.samples : p \in Showing},
        keys \in UNION {KeyOrders(p) : p \in Showing} :
        Load(sample, keys)
  \/ LoadFails
  \/ \E n \in DOMAIN values \ {"_editing"} : \E v \in page.inputs[n] :
        Edit(n, v)
  \/ Refuse \/ Submit
  \/ PostSucceeds \/ PostFails
  \/ Answer \/ RequestSucceeds \/ RequestFails
  \/ \E url \in Targets : Navigate(url)
  \/ \E url \in {"/login", "/503"} : Interrupted(url)

Spec == Init /\ [][Next]_vars

-----------------------------------------------------------------------------
TypeOK ==
  /\ at \in STRING /\ left \in {"", "saved", "discarded", "lost", "unguarded",
                                "unsent", "interrupted"}
  /\ page.name \in Pages \union {""}
  /\ phase \in {"closed", "loading", "failed", "ready", "posting", "asking",
               "requesting"}
  /\ phase = "closed" <=> page = NoPage
  /\ off \union hidden \union dirty \union invalid \subseteq DOMAIN values
  /\ invalid \intersect off = {}
  /\ dirty \subseteq touched /\ Cardinality(touched) <= MaxTouched
  /\ changed \in BOOLEAN /\ {endless, undone} \subseteq BOOLEAN

\* A measure w of what a change of each field sets off at most, and with it
\* of the work of a cascade.
Cost(w, x) ==
  CASE x.do = "announce" -> w[x.name]
    [] x.do = "patch"    -> 1 + w[x.name]
    [] x.do = "settle"   -> 1
    [] x.do = "modify"   ->
         IF x.modifier.type \in {"visible", "hidden"} THEN 1
         ELSE IF x.modifier.type \in {"disabled", "enabled"} THEN 2 + w[x.name]
         ELSE 1 + w[x.name]

Total(w, todo) ==
  SumUpTo([i \in DOMAIN todo |-> Cost(w, todo[i])], Len(todo))

\* A page has such a measure when its modifiers do not depend on each other
\* in a circle.
Descends(p, w) ==
  /\ w \in [Range(p.names) -> Nat]
  /\ \A n \in Range(p.names) : Total(w, p.dependents[n]) < w[n]

\* And the cascades by which it is opened, loaded and refused are not too
\* long to be followed.
Bounded(p, w) ==
  \A todo \in
       {[i \in DOMAIN p.views |-> Announce(p.views[i])] \o p.modifiers}
         \union {[i \in DOMAIN p.names |-> Announce(p.names[i])]}
         \union {[i \in DOMAIN keys |-> Patch(keys[i], None)] :
                   keys \in KeyOrders(p)} :
    Total(w, todo) <= 8 * Enough

Measured(p) == \E w : Descends(p, w) /\ Bounded(p, w)

\* Disabling, checking or setting a field announces a change even when there
\* is none (FormComponent::doModifier): modifiers that depend on each other
\* still come to an end.
CascadesEnd == ~endless

\* A field is marked as invalid exactly when its validators refuse the
\* current values, although a validator that reads other fields only runs
\* again when one of the properties that getProps reports has changed.
ValidityIsCurrent ==
  phase \in {"ready", "posting"} => invalid = Refused(page, Form)

\* A form that is not dirty shows what the backend holds: the modifiers that
\* run while an object is loaded, in whatever order its keys arrive, undo
\* none of it, and no change of the user is forgotten.  (The page of access
\* control lists is marked as pristine before its request is sent.)
PristineMeansSaved ==
  phase = "ready" /\ ~changed /\ ~page.spec.custom =>
    Submitted(page, values) = saved

\* Whatever was changed in whatever order, each modifier's effect is visible:
\* no earlier or later modifier of the cascade has undone it.  A value the
\* user entered may differ from the one a modifier proposed.
Commanded(n, m) ==
  LET holds == Satisfies(m.constraint, values) IN
  CASE m.type = "disabled" -> n \in off <=> holds
    [] m.type = "enabled"  -> n \notin off <=> holds
    [] m.type = "hidden"   -> n \in hidden <=> holds
    [] m.type = "visible"  -> n \notin hidden <=> holds
    [] m.type \in {"checked", "unchecked"} ->
         holds => values[n] = Flag(m.type = "checked")
    [] m.type = "value" ->
         holds /\ n \notin touched => values[n] = Format(m.value, values)

\* The modifiers that enable or show a field, and that do the opposite when
\* their condition is not fulfilled: each is the only one of its kind for its
\* field, and follows all that its condition reads.
Rivals(x, y) ==
  /\ x.name = y.name
  /\ \E kind \in {{"disabled", "enabled"}, {"hidden", "visible"}} :
       {x.modifier.type, y.modifier.type} \subseteq kind

Switches(p) ==
  {x \in Range(p.modifiers) :
     x.modifier.type \in {"disabled", "enabled", "hidden", "visible"}}
Lone(p) ==
  {x \in Switches(p) :
     /\ x.modifier.opposite /\ x.name \notin x.modifier.deps
     /\ Reads(x.modifier.constraint) \subseteq x.modifier.deps
     /\ \A y \in Range(p.modifiers) \ {x} : ~Rivals(x, y)}

CommandsHold ==
  phase = "ready" =>
    \A x \in Range(page.modifiers) : Commanded(x.name, x.modifier)

\* A form that cannot be sent for a missing value shows the field that is
\* missing, and the user can fill it in.
MissingIsReachable ==
  phase = "ready" =>
    \A n \in invalid :
       values[n] = None /\ Satisfies(page.fields[n].required, values) =>
         n \notin hidden /\ page.fields[n].inputs # {}

\* Leaving a guarded page loses no change unless the user agreed to it, or
\* the program had to leave for a page of its own.  (The changes of the page
\* of access control lists may be lost when they could not be sent.)
NothingLost == left # "lost"

\* The page that follows a submitted or cancelled form exists.
LandsOnPage == Exists(at)

\* No modifier reverts the very input that set it off.
InputSticks == ~undone
=============================================================================
