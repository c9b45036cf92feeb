--------------------------- MODULE FormPageProofs ---------------------------
(***************************************************************************)
(* What the form pages guarantee for every form, whatever its fields, its  *)
(* modifiers and the meaning of the constraints on them.                   *)
(***************************************************************************)
EXTENDS FormPage, ArraysProofs

-----------------------------------------------------------------------------
\* The form, and what the operations on it change.

Names(p) == Range(p.names)

\* The form is the record that it is made of.
IsForm(s) ==
  s = [values |-> s.values, off |-> s.off, hidden |-> s.hidden,
       dirty |-> s.dirty, changed |-> s.changed, invalid |-> s.invalid,
       stale |-> s.stale]

\* All but the values and the marks of invalid fields are the same.
SameButMarks(s, t) ==
  /\ t.off = s.off /\ t.hidden = s.hidden /\ t.dirty = s.dirty
  /\ t.changed = s.changed /\ t.stale = s.stale

\* Field n was validated when s became t.
MarkedAgain(p, n, s, t) ==
  t.invalid = IF n \notin t.off /\ Refuses(p, n, t.values)
              THEN s.invalid \union {n} ELSE s.invalid \ {n}

\* A validation changes the mark of its field and nothing else.
LEMMA ValidateFacts ==
  ASSUME NEW p, NEW n, NEW s, IsForm(s)
  PROVE  /\ IsForm(Validate(p, n, s))
         /\ SameButMarks(s, Validate(p, n, s))
         /\ Validate(p, n, s).values = s.values
         /\ MarkedAgain(p, n, s, Validate(p, n, s))
<1> DEFINE x == IF n \notin s.off /\ Refuses(p, n, s.values)
                THEN s.invalid \union {n} ELSE s.invalid \ {n}
           t == Validate(p, n, s)
<1>1. t = [s EXCEPT !.invalid = x]
  BY DEF Validate
<1> HIDE DEF x, t
<1>2. t = [values |-> s.values, off |-> s.off, hidden |-> s.hidden,
           dirty |-> s.dirty, changed |-> s.changed, invalid |-> x,
           stale |-> s.stale]
  BY <1>1 DEF IsForm
<1>3. /\ t.values = s.values /\ t.off = s.off /\ t.hidden = s.hidden
      /\ t.dirty = s.dirty /\ t.changed = s.changed /\ t.invalid = x
      /\ t.stale = s.stale
  BY <1>2
<1>4. IsForm(t)
  BY <1>2, <1>3 DEF IsForm
<1>5. MarkedAgain(p, n, s, t)
  BY <1>3 DEF MarkedAgain, x
<1> QED BY <1>3, <1>4, <1>5 DEF SameButMarks, t

\* A value that is set replaces the old one, and its field is validated.
LEMMA SetValueFacts ==
  ASSUME NEW p, NEW n, NEW v, NEW s, IsForm(s)
  PROVE  /\ IsForm(SetValue(p, n, v, s))
         /\ SameButMarks(s, SetValue(p, n, v, s))
         /\ SetValue(p, n, v, s).values = [s.values EXCEPT ![n] = v]
         /\ MarkedAgain(p, n, s, SetValue(p, n, v, s))
<1> DEFINE x == [s.values EXCEPT ![n] = v]
           u == [s EXCEPT !.values = x]
<1>1. SetValue(p, n, v, s) = Validate(p, n, u)
  <2>1. u = [s EXCEPT !.values[n] = v]
    OBVIOUS
  <2> QED BY <2>1 DEF SetValue
<1> HIDE DEF x, u
<1>2. u = [values |-> x, off |-> s.off, hidden |-> s.hidden,
           dirty |-> s.dirty, changed |-> s.changed, invalid |-> s.invalid,
           stale |-> s.stale]
  BY DEF IsForm, u
<1>3. /\ u.values = x /\ u.off = s.off /\ u.hidden = s.hidden
      /\ u.dirty = s.dirty /\ u.changed = s.changed
      /\ u.invalid = s.invalid /\ u.stale = s.stale
  BY <1>2
<1>4. IsForm(u)
  BY <1>2, <1>3 DEF IsForm
<1>5. /\ IsForm(Validate(p, n, u)) /\ SameButMarks(u, Validate(p, n, u))
      /\ Validate(p, n, u).values = u.values
      /\ MarkedAgain(p, n, u, Validate(p, n, u))
  BY <1>4, ValidateFacts
<1>6. MarkedAgain(p, n, s, Validate(p, n, u))
  BY <1>3, <1>5 DEF MarkedAgain
<1>7. SameButMarks(s, Validate(p, n, u))
  BY <1>3, <1>5 DEF SameButMarks
<1>8. Validate(p, n, u).values = [s.values EXCEPT ![n] = v]
  BY <1>3, <1>5 DEF x
<1> QED BY <1>1, <1>5, <1>6, <1>7, <1>8

\* A field that is disabled or enabled is validated; the others keep both
\* their state and their mark.
LEMMA SetDisabledFacts ==
  ASSUME NEW p, NEW n, NEW b, NEW s, IsForm(s)
  PROVE  /\ IsForm(SetDisabled(p, n, b, s))
         /\ SetDisabled(p, n, b, s).values = s.values
         /\ SetDisabled(p, n, b, s).hidden = s.hidden
         /\ SetDisabled(p, n, b, s).dirty = s.dirty
         /\ SetDisabled(p, n, b, s).changed = s.changed
         /\ SetDisabled(p, n, b, s).stale = s.stale
         /\ \/ SetDisabled(p, n, b, s).off = s.off \union {n}
            \/ SetDisabled(p, n, b, s).off = s.off \ {n}
         /\ b \in BOOLEAN => (n \in SetDisabled(p, n, b, s).off <=> b)
         /\ MarkedAgain(p, n, s, SetDisabled(p, n, b, s))
<1> DEFINE x == IF b THEN s.off \union {n} ELSE s.off \ {n}
           u == [s EXCEPT !.off = x]
<1>1. SetDisabled(p, n, b, s) = Validate(p, n, u)
  BY DEF SetDisabled
<1>0. /\ x = s.off \union {n} \/ x = s.off \ {n}
      /\ b \in BOOLEAN => (n \in x <=> b)
  OBVIOUS
<1> HIDE DEF x, u
<1>2. u = [values |-> s.values, off |-> x, hidden |-> s.hidden,
           dirty |-> s.dirty, changed |-> s.changed, invalid |-> s.invalid,
           stale |-> s.stale]
  BY DEF IsForm, u
<1>3. /\ u.values = s.values /\ u.off = x /\ u.hidden = s.hidden
      /\ u.dirty = s.dirty /\ u.changed = s.changed
      /\ u.invalid = s.invalid /\ u.stale = s.stale
  BY <1>2
<1>4. IsForm(u)
  BY <1>2, <1>3 DEF IsForm
<1>5. /\ IsForm(Validate(p, n, u)) /\ SameButMarks(u, Validate(p, n, u))
      /\ Validate(p, n, u).values = u.values
      /\ MarkedAgain(p, n, u, Validate(p, n, u))
  BY <1>4, ValidateFacts
<1>6. MarkedAgain(p, n, s, Validate(p, n, u))
  BY <1>3, <1>5 DEF MarkedAgain
<1>7. /\ Validate(p, n, u).off = x
      /\ Validate(p, n, u).hidden = s.hidden
      /\ Validate(p, n, u).dirty = s.dirty
      /\ Validate(p, n, u).changed = s.changed
      /\ Validate(p, n, u).stale = s.stale
      /\ Validate(p, n, u).values = s.values
  BY <1>3, <1>5 DEF SameButMarks
<1> QED BY <1>0, <1>1, <1>5, <1>6, <1>7

-----------------------------------------------------------------------------
\* What a page and its form always are.

Keyed(p) == Names(p) \union {"_editing"}

\* A modifier at work on a field of the page.
IsModify(p, x) ==
  x.do = "modify" /\ x.name \in Names(p) /\ x.modifier.type \in Types

PageOK(p) ==
  /\ "_editing" \notin Names(p)
  /\ p.names \in Seq(Names(p)) /\ p.submitted \subseteq Names(p)
  /\ p.views \in Seq(Names(p))
  /\ p.modifiers \in Seq(Range(p.modifiers))
  /\ \A x \in Range(p.modifiers) : IsModify(p, x)
  /\ \A n \in Names(p) : p.dependents[n] \in Seq(Range(p.modifiers))
  /\ \A n \in Names(p) : p.watchers[n] \subseteq Names(p)

\* The constraints that the validators of field n test.
TestsOf(p, n) == p.fields[n].tests \union {p.fields[n].required}

\* The fields that test a property are those that watch it.
WatchOK(p) ==
  \A n, m \in Names(p) :
    m \in p.watchers[n] <=> m # n /\ \E c \in TestsOf(p, m) : n \in Reads(c)

\* The tests of a page's fields read what they are reported to read.
Covers(p) ==
  \A m \in Names(p) : \A c \in TestsOf(p, m) :
    \A Values : Reported(c, Keyed(p), Values)

Sound(p, s) ==
  /\ IsForm(s)
  /\ s.values = [x \in Keyed(p) |-> s.values[x]]
  /\ s.off \subseteq Names(p) /\ s.hidden \subseteq Names(p)
  /\ s.dirty \subseteq Names(p) /\ s.stale \subseteq Names(p)
  /\ s.invalid \subseteq Names(p) \ s.off
  /\ s.changed \in BOOLEAN

\* Field n is marked as invalid exactly when it is refused.
Marked(p, n, s) ==
  n \in s.invalid <=> n \notin s.off /\ Refuses(p, n, s.values)

\* A field that does not watch field n is refused as before when n changes.
LEMMA RefusesAsBefore ==
  ASSUME NEW p, PageOK(p), WatchOK(p), Covers(p),
         NEW n \in Names(p), NEW m \in Names(p), m # n, m \notin p.watchers[n],
         NEW d, d = [x \in Keyed(p) |-> d[x]], NEW v
  PROVE  Refuses(p, m, [d EXCEPT ![n] = v]) <=> Refuses(p, m, d)
<1> DEFINE e == [d EXCEPT ![n] = v]
           Values == {d[x] : x \in Keyed(p)} \union {v}
<1>1. e[m] = d[m]
  BY DEF Keyed
<1>2. ASSUME NEW c \in TestsOf(p, m)
      PROVE  Satisfies(c, e) <=> Satisfies(c, d)
  <2>1. n \notin Reads(c)
    BY DEF WatchOK
  <2>2. d \in [Keyed(p) -> Values] /\ v \in Values
    OBVIOUS
  <2>3. n \in Keyed(p) \ Reads(c)
    BY <2>1 DEF Keyed
  <2>4. Reported(c, Keyed(p), Values)
    BY DEF Covers
  <2> HIDE DEF Values
  <2> QED BY <2>2, <2>3, <2>4 DEF Reported
<1>3. Satisfies(p.fields[m].required, e) <=> Satisfies(p.fields[m].required, d)
  BY <1>2 DEF TestsOf
<1>4. \A c \in p.fields[m].tests : Satisfies(c, e) <=> Satisfies(c, d)
  BY <1>2 DEF TestsOf
<1> HIDE DEF e
<1>5. Refuses(p, m, e) <=> Refuses(p, m, d)
  BY <1>1, <1>3, <1>4 DEF Refuses
<1> QED BY <1>5 DEF e

\* The form t is the form s after field n was set, disabled or enabled.
Changes(p, n, s, t) ==
  /\ IsForm(t) /\ MarkedAgain(p, n, s, t)
  /\ t.hidden = s.hidden /\ t.dirty = s.dirty /\ t.stale = s.stale
  /\ t.changed = s.changed
  /\ t.off \subseteq s.off \union {n} /\ s.off \subseteq t.off \union {n}
  /\ \E v : t.values = [s.values EXCEPT ![n] = v]

\* What a change of field n leaves as it is.
LEMMA ChangeFacts ==
  ASSUME NEW p, PageOK(p), NEW n \in Names(p), NEW s, Sound(p, s),
         NEW t, Changes(p, n, s, t)
  PROVE  /\ Sound(p, t) /\ Marked(p, n, t)
         /\ WatchOK(p) /\ Covers(p) =>
              \A m \in Names(p) \ ({n} \union p.watchers[n]) :
                Marked(p, m, s) => Marked(p, m, t)
<1>1. PICK v : t.values = [s.values EXCEPT ![n] = v]
  BY DEF Changes
<1>2. t.values = [x \in Keyed(p) |-> t.values[x]]
  BY <1>1 DEF Sound
<1>3. t.off \subseteq Names(p)
  BY DEF Changes, Sound
<1>4. t.invalid = IF n \notin t.off /\ Refuses(p, n, t.values)
                  THEN s.invalid \union {n} ELSE s.invalid \ {n}
  BY DEF Changes, MarkedAgain
<1>5. t.invalid \subseteq Names(p) \ t.off
  <2>1. s.invalid \subseteq Names(p) \ s.off /\ t.off \subseteq s.off \union {n}
    BY DEF Changes, Sound
  <2> QED BY <1>4, <2>1
<1>6. Sound(p, t)
  <2>1. /\ t.hidden \subseteq Names(p) /\ t.dirty \subseteq Names(p)
        /\ t.stale \subseteq Names(p) /\ t.changed \in BOOLEAN /\ IsForm(t)
    BY DEF Changes, Sound
  <2> QED BY <1>2, <1>3, <1>5, <2>1 DEF Sound
<1>7. Marked(p, n, t)
  BY <1>4 DEF Marked
<1>8. ASSUME WatchOK(p), Covers(p),
             NEW m \in Names(p) \ ({n} \union p.watchers[n]), Marked(p, m, s)
      PROVE  Marked(p, m, t)
  <2>1. m \in t.invalid <=> m \in s.invalid
    BY <1>4
  <2>2. m \in t.off <=> m \in s.off
    BY DEF Changes
  <2>3. s.values = [x \in Keyed(p) |-> s.values[x]]
    BY DEF Sound
  <2>4. Refuses(p, m, [s.values EXCEPT ![n] = v])
          <=> Refuses(p, m, s.values)
    BY <1>8, <2>3, RefusesAsBefore
  <2> QED BY <1>1, <1>8, <2>1, <2>2, <2>4 DEF Marked
<1> QED BY <1>6, <1>7, <1>8

\* Setting a value is a change of its field.
LEMMA SetValueChanges ==
  ASSUME NEW p, NEW n \in Names(p), NEW v, NEW s, Sound(p, s)
  PROVE  Changes(p, n, s, SetValue(p, n, v, s))
<1>1. IsForm(s)
  BY DEF Sound
<1> DEFINE t == SetValue(p, n, v, s)
<1>2. /\ IsForm(t) /\ SameButMarks(s, t) /\ MarkedAgain(p, n, s, t)
      /\ t.values = [s.values EXCEPT ![n] = v]
  BY <1>1, SetValueFacts
<1> HIDE DEF t
<1>3. Changes(p, n, s, t)
  BY <1>2 DEF Changes, SameButMarks
<1> QED BY <1>3 DEF t

\* So is disabling or enabling it.
LEMMA SetDisabledChanges ==
  ASSUME NEW p, NEW n \in Names(p), NEW b, NEW s, Sound(p, s)
  PROVE  Changes(p, n, s, SetDisabled(p, n, b, s))
<1>1. IsForm(s) /\ s.values = [x \in Keyed(p) |-> s.values[x]]
  BY DEF Sound
<1> DEFINE t == SetDisabled(p, n, b, s)
<1>2. /\ IsForm(t) /\ t.values = s.values /\ MarkedAgain(p, n, s, t)
      /\ t.hidden = s.hidden /\ t.dirty = s.dirty /\ t.changed = s.changed
      /\ t.stale = s.stale
      /\ \/ t.off = s.off \union {n}
         \/ t.off = s.off \ {n}
  <2>1. /\ IsForm(t)
        /\ t.values = s.values
        /\ t.hidden = s.hidden
        /\ t.dirty = s.dirty
        /\ t.changed = s.changed
        /\ t.stale = s.stale
        /\ \/ t.off = s.off \union {n}
           \/ t.off = s.off \ {n}
        /\ MarkedAgain(p, n, s, t)
    BY <1>1, SetDisabledFacts
  <2> QED BY <2>1
<1> HIDE DEF t
<1>3. t.values = [s.values EXCEPT ![n] = s.values[n]]
  BY <1>1, <1>2
<1>4. t.off \subseteq s.off \union {n} /\ s.off \subseteq t.off \union {n}
  BY <1>2
<1>5. Changes(p, n, s, t)
  BY <1>2, <1>3, <1>4 DEF Changes
<1> QED BY <1>5 DEF t

-----------------------------------------------------------------------------
\* Cascades: what each of their steps preserves.

\* A piece of work that concerns a field of the page.
Fits(p, x) ==
  \/ IsModify(p, x)
  \/ x.do \in {"patch", "announce"} /\ x.name \in Names(p)
  \/ x.do = "settle"

AllFit(p, todo) ==
  todo \in Seq(Range(todo)) /\ \A x \in Range(todo) : Fits(p, x)

\* Field m is going to be told of a change that it watches.
Pending(p, m, todo) ==
  \E x \in Range(todo) : x.do = "announce" /\ m \in p.watchers[x.name]

\* The mark of field m is right, or the field is going to be validated.
Current(p, m, c) ==
  \/ Marked(p, m, c.form)
  \/ m \in c.form.stale
  \/ Pending(p, m, c.todo)

\* The state of a cascade: D are the fields the user has changed, K those
\* whose marks were right when it began.
Good(p, D, K, c) ==
  /\ Sound(p, c.form) /\ c.form.dirty = D
  /\ AllFit(p, c.todo)
  /\ WatchOK(p) /\ Covers(p) => \A m \in K : Current(p, m, c)

\* The work x replaced by other work, and the form s by t, keep every field
\* current.
Continues(p, x, first, s, t) ==
  /\ s.stale \subseteq t.stale
  /\ \A m \in Names(p) :
       Marked(p, m, s) => \/ Marked(p, m, t)
                          \/ m \in t.stale
                          \/ Pending(p, m, first)
  /\ \A m \in Names(p) :
       x.do = "announce" /\ m \in p.watchers[x.name] => m \in t.stale

\* The first element of a sequence and the others.
LEMMA HeadTail ==
  ASSUME NEW S, NEW s \in Seq(S), s # <<>>
  PROVE  /\ Tail(s) \in Seq(S)
         /\ Head(s) \in Range(s)
         /\ Range(s) = {Head(s)} \union Range(Tail(s))
<1>1. Len(s) \in Nat \ {0} /\ DOMAIN s = 1..Len(s) /\ Head(s) = s[1]
  OBVIOUS
<1>2. Tail(s) \in Seq(S)
  OBVIOUS
<1>3. /\ Len(Tail(s)) = Len(s) - 1 /\ DOMAIN Tail(s) = 1..(Len(s) - 1)
      /\ \A i \in 1..(Len(s) - 1) : Tail(s)[i] = s[i + 1]
  OBVIOUS
<1>4. Head(s) \in Range(s)
  BY <1>1 DEF Range
<1>5. ASSUME NEW x \in Range(s)
      PROVE  x \in {Head(s)} \union Range(Tail(s))
  <2>1. PICK i \in 1..Len(s) : s[i] = x
    BY <1>1 DEF Range
  <2>2. CASE i = 1
    BY <1>1, <2>1, <2>2
  <2>3. CASE i # 1
    <3>1. i - 1 \in 1..(Len(s) - 1)
      BY <1>1, <2>3
    <3>2. Tail(s)[i - 1] = x
      BY <1>1, <1>3, <2>1, <3>1
    <3> QED BY <1>3, <3>1, <3>2 DEF Range
  <2> QED BY <2>2, <2>3
<1>6. ASSUME NEW x \in Range(Tail(s))
      PROVE  x \in Range(s)
  <2>1. PICK i \in 1..(Len(s) - 1) : Tail(s)[i] = x
    BY <1>3 DEF Range
  <2>2. s[i + 1] = x /\ i + 1 \in 1..Len(s)
    BY <1>1, <1>3, <2>1
  <2> QED BY <1>1, <2>2 DEF Range
<1> QED BY <1>2, <1>4, <1>5, <1>6

\* The elements of u are those of s and those of t.
Joins(u, s, t) == Range(u) = Range(s) \union Range(t)

\* Two pieces of a cascade's work make one.
LEMMA CatFit ==
  ASSUME NEW p, NEW s, NEW t, AllFit(p, s), AllFit(p, t)
  PROVE  AllFit(p, s \o t) /\ Joins(s \o t, s, t)
<1> DEFINE S == Range(s) \union Range(t)
<1>1. s \in Seq(Range(s)) /\ t \in Seq(Range(t))
  BY DEF AllFit
<1>2. Range(s) \subseteq S /\ Range(t) \subseteq S
  OBVIOUS
<1> HIDE DEF S
<1>3. s \in Seq(S) /\ t \in Seq(S)
  BY <1>1, <1>2, WiderSeq
<1>4. s \o t \in Seq(S) /\ Range(s \o t) = Range(s) \union Range(t)
  BY <1>3, CatFacts
<1>5. s \o t \in Seq(Range(s \o t))
  BY <1>4, SeqFacts
<1> QED BY <1>4, <1>5 DEF AllFit, Joins

\* A step that continues the cascade keeps it good.
LEMMA ContinueFacts ==
  ASSUME NEW p, NEW D, NEW K \in SUBSET Names(p), NEW c,
         Good(p, D, K, c), c.todo # <<>>,
         NEW first, AllFit(p, first), NEW t, Sound(p, t), t.dirty = D,
         WatchOK(p) /\ Covers(p) =>
           Continues(p, Head(c.todo), first, c.form, t)
  PROVE  Good(p, D, K, [todo |-> first \o Tail(c.todo), form |-> t])
<1> DEFINE rest == Tail(c.todo)
           todo == first \o rest
           e == [todo |-> todo, form |-> t]
<1>1. c.todo \in Seq(Range(c.todo)) /\ \A x \in Range(c.todo) : Fits(p, x)
  BY DEF Good, AllFit
<1>2. /\ rest \in Seq(Range(c.todo))
      /\ Range(c.todo) = {Head(c.todo)} \union Range(rest)
  BY <1>1, HeadTail
<1> HIDE DEF rest
<1>3. rest \in Seq(Range(rest))
  BY <1>2, SeqFacts
<1>4. AllFit(p, rest)
  BY <1>1, <1>2, <1>3 DEF AllFit
<1>5. AllFit(p, todo) /\ Range(todo) = Range(first) \union Range(rest)
  <2> HIDE DEF e
  <2>1. AllFit(p, first) /\ AllFit(p, rest)
    BY <1>4
  <2>2. AllFit(p, first \o rest) /\ Joins(first \o rest, first, rest)
    BY <2>1, CatFit
  <2> QED BY <2>2 DEF Joins
<1> HIDE DEF todo
<1>6. e.todo = todo /\ e.form = t
  OBVIOUS
<1>7. ASSUME WatchOK(p), Covers(p), NEW m \in K
      PROVE  Current(p, m, e)
  <2> HIDE DEF e
  <2>1. Continues(p, Head(c.todo), first, c.form, t)
    BY <1>7
  <2>2. Current(p, m, c)
    BY <1>7 DEF Good
  <2>3. CASE Marked(p, m, c.form)
    <3>1. Marked(p, m, t) \/ m \in t.stale \/ Pending(p, m, first)
      BY <2>1, <2>3 DEF Continues
    <3>2. Pending(p, m, first) => Pending(p, m, todo)
      BY <1>5 DEF Pending
    <3> QED BY <1>6, <3>1, <3>2 DEF Current
  <2>4. CASE m \in c.form.stale
    BY <1>6, <2>1, <2>4 DEF Continues, Current
  <2>5. CASE Pending(p, m, c.todo)
    <3>1. PICK x \in Range(c.todo) :
            x.do = "announce" /\ m \in p.watchers[x.name]
      BY <2>5 DEF Pending
    <3>2. CASE x = Head(c.todo)
      <4>1. m \in t.stale
        BY <2>1, <3>1, <3>2 DEF Continues
      <4> QED BY <1>6, <4>1 DEF Current
    <3>3. CASE x \in Range(rest)
      <4>1. Pending(p, m, todo)
        BY <1>5, <3>1, <3>3 DEF Pending
      <4> QED BY <1>6, <4>1 DEF Current
    <3> QED BY <1>2, <3>1, <3>2, <3>3
  <2> QED BY <2>2, <2>3, <2>4, <2>5 DEF Current
<1> HIDE DEF e
<1>8. Good(p, D, K, e)
  BY <1>5, <1>6, <1>7 DEF Good
<1> QED BY <1>8 DEF e, todo, rest

\* A change of field n that announces it continues a cascade.
LEMMA ChangeContinues ==
  ASSUME NEW p, PageOK(p), NEW n \in Names(p), NEW s, Sound(p, s),
         NEW t, Changes(p, n, s, t), WatchOK(p), Covers(p),
         NEW x, x.do # "announce",
         NEW first, Announce(n) \in Range(first)
  PROVE  Continues(p, x, first, s, t)
<1>1. s.stale \subseteq t.stale
  BY DEF Changes
<1>2. ASSUME NEW m \in Names(p), Marked(p, m, s)
      PROVE  Marked(p, m, t) \/ Pending(p, m, first)
  <2>1. CASE m = n
    BY <2>1, ChangeFacts
  <2>2. CASE m \in p.watchers[n]
    <3>1. Announce(n).do = "announce" /\ Announce(n).name = n
      BY DEF Announce
    <3> QED BY <2>2, <3>1 DEF Pending
  <2>3. CASE m \notin {n} \union p.watchers[n]
    BY <1>2, <2>3, ChangeFacts
  <2> QED BY <2>1, <2>2, <2>3
<1> QED BY <1>1, <1>2 DEF Continues

\* The work that may follow a modifier.
LEMMA FollowFit ==
  ASSUME NEW p, NEW n \in Names(p)
  PROVE  /\ AllFit(p, <<>>)
         /\ AllFit(p, <<Announce(n)>>)
         /\ AllFit(p, <<Announce(n), Settle>>)
         /\ Announce(n) \in Range(<<Announce(n)>>)
         /\ Announce(n) \in Range(<<Announce(n), Settle>>)
<1>1. Announce(n).do = "announce" /\ Announce(n).name = n
  BY DEF Announce
<1>2. Settle.do = "settle"
  BY DEF Settle
<1>3. Fits(p, Announce(n)) /\ Fits(p, Settle)
  BY <1>1, <1>2 DEF Fits
<1> DEFINE a == Announce(n)
           b == Settle
<1> HIDE DEF a, b
<1>4. Range(<<>>) = {} /\ <<>> \in Seq(Range(<<>>))
  BY DEF Range
<1>5. Range(<<a>>) = {a} /\ <<a>> \in Seq(Range(<<a>>))
  BY DEF Range
<1>6. Range(<<a, b>>) = {a, b}
  <2>1. DOMAIN <<a, b>> = {1, 2} /\ <<a, b>>[1] = a /\ <<a, b>>[2] = b
    OBVIOUS
  <2> QED BY <2>1 DEF Range
<1>7. <<a, b>> \in Seq(Range(<<a, b>>))
  BY <1>6
<1>8. AllFit(p, <<>>)
  BY <1>4 DEF AllFit
<1>9. AllFit(p, <<a>>)
  BY <1>3, <1>5 DEF AllFit, a
<1>10. AllFit(p, <<a, b>>)
  BY <1>3, <1>6, <1>7 DEF AllFit, a, b
<1>11. a \in Range(<<a>>) /\ a \in Range(<<a, b>>)
  BY <1>5, <1>6
<1> QED BY <1>8, <1>9, <1>10, <1>11 DEF a, b

\* A form of which only the fields shown or the dirty flag have changed.
LEMMA HiddenFacts ==
  ASSUME NEW p, NEW s, Sound(p, s), NEW h, h \subseteq Names(p)
  PROVE  LET t == [s EXCEPT !.hidden = h] IN
         /\ Sound(p, t) /\ t.dirty = s.dirty
         /\ \A x, first : x.do # "announce" => Continues(p, x, first, s, t)
<1> DEFINE t == [s EXCEPT !.hidden = h]
<1>1. IsForm(s)
  BY DEF Sound
<1>2. t = [values |-> s.values, off |-> s.off, hidden |-> h,
           dirty |-> s.dirty, changed |-> s.changed, invalid |-> s.invalid,
           stale |-> s.stale]
  BY <1>1 DEF IsForm
<1> HIDE DEF t
<1>3. /\ t.values = s.values /\ t.off = s.off /\ t.hidden = h
      /\ t.dirty = s.dirty /\ t.changed = s.changed
      /\ t.invalid = s.invalid /\ t.stale = s.stale
  BY <1>2
<1>4. IsForm(t)
  BY <1>2, <1>3 DEF IsForm
<1>5. Sound(p, t)
  BY <1>3, <1>4 DEF Sound
<1>6. \A m \in Names(p) : Marked(p, m, s) <=> Marked(p, m, t)
  BY <1>3 DEF Marked
<1>7. \A x, first : x.do # "announce" => Continues(p, x, first, s, t)
  BY <1>3, <1>6 DEF Continues
<1> QED BY <1>3, <1>5, <1>7 DEF t

\* The same for the form's dirty flag.
LEMMA ChangedFacts ==
  ASSUME NEW p, NEW s, Sound(p, s), NEW b \in BOOLEAN
  PROVE  LET t == [s EXCEPT !.changed = b] IN
         /\ Sound(p, t) /\ t.dirty = s.dirty
         /\ \A x, first : x.do # "announce" => Continues(p, x, first, s, t)
<1> DEFINE t == [s EXCEPT !.changed = b]
<1>1. IsForm(s)
  BY DEF Sound
<1>2. t = [values |-> s.values, off |-> s.off, hidden |-> s.hidden,
           dirty |-> s.dirty, changed |-> b, invalid |-> s.invalid,
           stale |-> s.stale]
  BY <1>1 DEF IsForm
<1> HIDE DEF t
<1>3. /\ t.values = s.values /\ t.off = s.off /\ t.hidden = s.hidden
      /\ t.dirty = s.dirty /\ t.changed = b
      /\ t.invalid = s.invalid /\ t.stale = s.stale
  BY <1>2
<1>4. IsForm(t)
  BY <1>2, <1>3 DEF IsForm
<1>5. Sound(p, t)
  BY <1>3, <1>4 DEF Sound
<1>6. \A m \in Names(p) : Marked(p, m, s) <=> Marked(p, m, t)
  BY <1>3 DEF Marked
<1>7. \A x, first : x.do # "announce" => Continues(p, x, first, s, t)
  BY <1>3, <1>6 DEF Continues
<1> QED BY <1>3, <1>5, <1>7 DEF t

\* A modifier keeps the form sound, and announces what it changes.
LEMMA ApplyFacts ==
  ASSUME NEW p, PageOK(p), NEW s, Sound(p, s), NEW x, IsModify(p, x)
  PROVE  LET t == Apply(p, x.name, x.modifier, s)
             first == Follows(x.name, x.modifier, s)
         IN  /\ Sound(p, t) /\ t.dirty = s.dirty
             /\ AllFit(p, first)
             /\ WatchOK(p) /\ Covers(p) => Continues(p, x, first, s, t)
<1> DEFINE n == x.name
           m == x.modifier
           t == Apply(p, n, m, s)
           first == Follows(n, m, s)
           holds == Satisfies(m.constraint, s.values)
<1> SUFFICES /\ Sound(p, t) /\ t.dirty = s.dirty
             /\ AllFit(p, first)
             /\ WatchOK(p) /\ Covers(p) => Continues(p, x, first, s, t)
  OBVIOUS
<1>1. n \in Names(p) /\ m.type \in Types /\ x.do # "announce"
  BY DEF IsModify
<1>2. CASE ~Acts(m, holds)
  <2>1. t = s /\ first = <<>>
    BY <1>2 DEF Apply, Follows
  <2>2. Continues(p, x, first, s, s)
    BY <1>1 DEF Continues
  <2>3. AllFit(p, <<>>)
    BY <1>1, FollowFit
  <2> HIDE DEF t, first
  <2> QED BY <2>1, <2>2, <2>3
<1>3. CASE Acts(m, holds) /\ m.type \in {"visible", "hidden"}
  <2> DEFINE h == IF (m.type = "hidden") = holds THEN s.hidden \union {n}
                  ELSE s.hidden \ {n}
  <2>1. t = [s EXCEPT !.hidden = h] /\ first = <<>>
    BY <1>3 DEF Apply, Follows
  <2>2. h \subseteq Names(p)
    BY <1>1 DEF Sound
  <2>3. AllFit(p, <<>>)
    BY <1>1, FollowFit
  <2> HIDE DEF t, first, h
  <2> QED BY <1>1, <2>1, <2>2, <2>3, HiddenFacts
<1>4. ASSUME Acts(m, holds), Changes(p, n, s, t),
             \/ first = <<Announce(n)>>
             \/ first = <<Announce(n), Settle>>
      PROVE  /\ Sound(p, t) /\ t.dirty = s.dirty
             /\ AllFit(p, first)
             /\ WatchOK(p) /\ Covers(p) => Continues(p, x, first, s, t)
  <2> HIDE DEF t, first
  <2>1. AllFit(p, first) /\ Announce(n) \in Range(first)
    BY <1>1, <1>4, FollowFit
  <2>2. Sound(p, t) /\ t.dirty = s.dirty
    BY <1>1, <1>4, ChangeFacts DEF Changes
  <2>3. WatchOK(p) /\ Covers(p) => Continues(p, x, first, s, t)
    BY <1>1, <1>4, <2>1, ChangeContinues
  <2> QED BY <2>1, <2>2, <2>3
<1>5. CASE Acts(m, holds) /\ m.type \in {"disabled", "enabled"}
  <2> DEFINE b == (m.type = "disabled") = holds
  <2>1. t = SetDisabled(p, n, b, s)
    BY <1>5 DEF Apply
  <2>2. first = <<Announce(n)>> \/ first = <<Announce(n), Settle>>
    BY <1>5 DEF Follows
  <2>3. b \in BOOLEAN
    OBVIOUS
  <2>4. Changes(p, n, s, t)
    <3> HIDE DEF b, t
    <3> QED BY <1>1, <2>1, <2>3, SetDisabledChanges
  <2> QED BY <1>4, <1>5, <2>2, <2>4
<1>6. CASE Acts(m, holds) /\ m.type \in {"checked", "unchecked", "value"}
  <2>1. \E v : t = SetValue(p, n, v, s)
    BY <1>6 DEF Apply
  <2>2. first = <<Announce(n)>>
    BY <1>6 DEF Follows
  <2>3. Changes(p, n, s, t)
    <3> HIDE DEF t
    <3> QED BY <1>1, <2>1, SetValueChanges
  <2> QED BY <1>4, <1>6, <2>2, <2>3
<1> QED BY <1>1, <1>2, <1>3, <1>5, <1>6 DEF Types

\* A form in which more fields wait to be validated again.
LEMMA StaleFacts ==
  ASSUME NEW p, NEW s, Sound(p, s), NEW w, w \subseteq Names(p)
  PROVE  LET t == [s EXCEPT !.stale = @ \union w] IN
         /\ Sound(p, t) /\ t.dirty = s.dirty /\ w \subseteq t.stale
         /\ \A first :
              s.stale \subseteq t.stale
              /\ \A m \in Names(p) : Marked(p, m, s) => Marked(p, m, t)
<1> DEFINE u == s.stale \union w
           t == [s EXCEPT !.stale = u]
<1>0. [s EXCEPT !.stale = @ \union w] = t
  OBVIOUS
<1>1. IsForm(s) /\ s.stale \subseteq Names(p)
  BY DEF Sound
<1>2. u \subseteq Names(p) /\ s.stale \subseteq u /\ w \subseteq u
  BY <1>1
<1> HIDE DEF u
<1>3. t = [values |-> s.values, off |-> s.off, hidden |-> s.hidden,
           dirty |-> s.dirty, changed |-> s.changed, invalid |-> s.invalid,
           stale |-> u]
  BY <1>1 DEF IsForm
<1> HIDE DEF t
<1>4. /\ t.values = s.values /\ t.off = s.off /\ t.hidden = s.hidden
      /\ t.dirty = s.dirty /\ t.changed = s.changed
      /\ t.invalid = s.invalid /\ t.stale = u
  BY <1>3
<1>5. IsForm(t)
  BY <1>3, <1>4 DEF IsForm
<1>6. Sound(p, t)
  BY <1>2, <1>4, <1>5 DEF Sound
<1>7. \A m \in Names(p) : Marked(p, m, s) => Marked(p, m, t)
  BY <1>4 DEF Marked
<1> QED BY <1>0, <1>2, <1>4, <1>6, <1>7

\* Each step of a cascade keeps it good.
LEMMA StepGood ==
  ASSUME NEW p, PageOK(p), NEW D, NEW K \in SUBSET Names(p), NEW c,
         Good(p, D, K, c), c.todo # <<>>
  PROVE  Good(p, D, K, Step(p, c))
<1> DEFINE x == Head(c.todo)
           s == c.form
<1>1. x \in Range(c.todo) /\ Fits(p, x)
  <2>1. c.todo \in Seq(Range(c.todo))
    BY DEF Good, AllFit
  <2>2. x \in Range(c.todo)
    BY <2>1, HeadTail
  <2> QED BY <2>2 DEF Good, AllFit
<1>2. Sound(p, s) /\ s.dirty = D
  BY DEF Good
<1>3. CASE IsModify(p, x)
  <2> DEFINE t == Apply(p, x.name, x.modifier, s)
             first == Follows(x.name, x.modifier, s)
  <2>1. Step(p, c) = [todo |-> first \o Tail(c.todo), form |-> t]
    BY <1>3 DEF IsModify, Step
  <2>2. /\ Sound(p, t) /\ t.dirty = s.dirty /\ AllFit(p, first)
        /\ WatchOK(p) /\ Covers(p) => Continues(p, x, first, s, t)
    BY <1>2, <1>3, ApplyFacts
  <2> HIDE DEF t, first
  <2> QED BY <1>2, <2>1, <2>2, ContinueFacts
<1>4. CASE x.do = "patch" /\ x.name \in Names(p)
  <2> DEFINE t == SetValue(p, x.name, x.value, s)
             first == <<Announce(x.name)>>
  <2>1. Step(p, c) = [todo |-> first \o Tail(c.todo), form |-> t]
    BY <1>4 DEF Step
  <2>2. Changes(p, x.name, s, t)
    BY <1>2, <1>4, SetValueChanges
  <2>3. AllFit(p, first) /\ Announce(x.name) \in Range(first)
    BY <1>4, FollowFit
  <2> HIDE DEF t, first
  <2>4. Sound(p, t) /\ t.dirty = s.dirty
    BY <1>2, <1>4, <2>2, ChangeFacts DEF Changes
  <2>5. WatchOK(p) /\ Covers(p) => Continues(p, x, first, s, t)
    BY <1>2, <1>4, <2>2, <2>3, ChangeContinues
  <2> QED BY <1>2, <2>1, <2>3, <2>4, <2>5, ContinueFacts
<1>5. CASE x.do = "announce" /\ x.name \in Names(p)
  <2> DEFINE w == p.watchers[x.name]
             t == [s EXCEPT !.stale = @ \union w]
             first == p.dependents[x.name]
  <2>1. Step(p, c) = [todo |-> first \o Tail(c.todo), form |-> t]
    BY <1>5 DEF Step
  <2>2. w \subseteq Names(p)
    BY <1>5 DEF PageOK
  <2>3. AllFit(p, first)
    <3>1. /\ first \in Seq(Range(p.modifiers))
          /\ \A y \in Range(p.modifiers) : Fits(p, y)
      BY <1>5 DEF PageOK, Fits
    <3> HIDE DEF first
    <3>2. /\ first \in Seq(Range(first))
          /\ Range(first) \subseteq Range(p.modifiers)
      BY <3>1, SeqFacts
    <3> QED BY <3>1, <3>2 DEF AllFit
  <2>4. /\ Sound(p, t) /\ t.dirty = s.dirty /\ w \subseteq t.stale
        /\ s.stale \subseteq t.stale
        /\ \A m \in Names(p) : Marked(p, m, s) => Marked(p, m, t)
    <3> HIDE DEF w
    <3> QED BY <1>2, <2>2, StaleFacts
  <2>5. Continues(p, x, first, s, t)
    <3> HIDE DEF t
    <3> QED BY <2>4 DEF Continues
  <2> HIDE DEF t, first
  <2> QED BY <1>2, <2>1, <2>3, <2>4, <2>5, ContinueFacts
<1>6. CASE x.do = "settle"
  <2> DEFINE b == AnyDirty(s)
             t == [s EXCEPT !.changed = b]
  <2>1. Step(p, c) = [todo |-> <<>> \o Tail(c.todo), form |-> t]
    BY <1>6 DEF Step
  <2>2. b \in BOOLEAN
    BY DEF AnyDirty
  <2>3. /\ Sound(p, t) /\ t.dirty = s.dirty
        /\ Continues(p, x, <<>>, s, t)
    <3>1. x.do # "announce"
      BY <1>6
    <3> HIDE DEF b
    <3> QED BY <1>2, <2>2, <3>1, ChangedFacts
  <2>4. AllFit(p, <<>>)
    BY DEF AllFit, Range
  <2> HIDE DEF t
  <2> QED BY <1>2, <2>1, <2>3, <2>4, ContinueFacts
<1> QED BY <1>1, <1>3, <1>4, <1>5, <1>6 DEF Fits

\* Eight steps keep it good.
LEMMA EightGood ==
  ASSUME NEW p, PageOK(p), NEW D, NEW K \in SUBSET Names(p), NEW c,
         Good(p, D, K, c)
  PROVE  Good(p, D, K, Steps8(p, c))
<1>1. \A e : Good(p, D, K, e) => Good(p, D, K, Step1(p, e))
  BY StepGood DEF Step1
<1>2. \A e : Good(p, D, K, e) => Good(p, D, K, Step2(p, e))
  BY <1>1 DEF Step2
<1> QED BY <1>2 DEF Steps8

\* The measure of a cascade.

Weights(p, w) == w \in [Names(p) -> Nat]

\* What a piece of work costs is a number.
LEMMA CostType ==
  ASSUME NEW p, NEW w, Weights(p, w), NEW x, Fits(p, x)
  PROVE  Cost(w, x) \in Nat
<1>1. ASSUME x.name \in Names(p) PROVE w[x.name] \in Nat
  BY <1>1 DEF Weights
<1>2. CASE IsModify(p, x)
  BY <1>1, <1>2 DEF Cost, IsModify
<1>3. CASE x.do = "patch" /\ x.name \in Names(p)
  BY <1>1, <1>3 DEF Cost
<1>4. CASE x.do = "announce" /\ x.name \in Names(p)
  BY <1>1, <1>4 DEF Cost
<1>5. CASE x.do = "settle"
  BY <1>5 DEF Cost
<1> QED BY <1>2, <1>3, <1>4, <1>5 DEF Fits

\* So is the total, and no piece costs more than all.
LEMMA TotalFacts ==
  ASSUME NEW p, NEW w, Weights(p, w), NEW s, AllFit(p, s)
  PROVE  /\ Total(w, s) \in Nat
         /\ \A x \in Range(s) : Cost(w, x) <= Total(w, s)
<1> DEFINE f == [i \in DOMAIN s |-> Cost(w, s[i])]
<1>1. Len(s) \in Nat /\ DOMAIN s = 1..Len(s)
  BY DEF AllFit
<1>2. \A i \in 1..Len(s) : f[i] \in Nat /\ f[i] = Cost(w, s[i])
  BY <1>1, CostType DEF AllFit, Range
<1>3. Total(w, s) = SumUpTo(f, Len(s))
  BY DEF Total
<1> HIDE DEF f
<1>4. Total(w, s) \in Nat /\ \A i \in 1..Len(s) : f[i] <= Total(w, s)
  BY <1>1, <1>2, <1>3, SumNat
<1> QED BY <1>1, <1>2, <1>4 DEF Range

\* The total of two pieces of work is the sum of theirs.
LEMMA TotalCat ==
  ASSUME NEW p, NEW w, Weights(p, w), NEW s, AllFit(p, s), NEW t, AllFit(p, t)
  PROVE  Total(w, s \o t) = Total(w, s) + Total(w, t)
<1> DEFINE f == [i \in DOMAIN s |-> Cost(w, s[i])]
           g == [i \in DOMAIN t |-> Cost(w, t[i])]
           u == s \o t
           h == [i \in DOMAIN u |-> Cost(w, u[i])]
           S == Range(s) \union Range(t)
<1>1. s \in Seq(S) /\ t \in Seq(S)
  <2>1. Range(s) \subseteq S /\ Range(t) \subseteq S
    OBVIOUS
  <2> HIDE DEF S
  <2> QED BY <2>1, WiderSeq DEF AllFit
<1> HIDE DEF S
<1>2. /\ Len(s) \in Nat /\ DOMAIN s = 1..Len(s)
      /\ Len(t) \in Nat /\ DOMAIN t = 1..Len(t)
      /\ Len(u) = Len(s) + Len(t) /\ DOMAIN u = 1..(Len(s) + Len(t))
      /\ \A i \in 1..Len(s) : u[i] = s[i]
      /\ \A i \in 1..Len(t) : u[Len(s) + i] = t[i]
  BY <1>1
<1> HIDE DEF u
<1>3. \A i \in 1..Len(s) : f[i] \in Nat /\ h[i] = f[i]
  <2> TAKE i \in 1..Len(s)
  <2>1. f[i] = Cost(w, s[i]) /\ h[i] = Cost(w, s[i])
    BY <1>2
  <2>2. Fits(p, s[i])
    BY <1>2 DEF AllFit, Range
  <2> QED BY <2>1, <2>2, CostType
<1>4. \A i \in 1..Len(t) : g[i] \in Nat /\ h[Len(s) + i] = g[i]
  <2> TAKE i \in 1..Len(t)
  <2>0. Len(s) + i \in DOMAIN u
    BY <1>2
  <2>1. g[i] = Cost(w, t[i]) /\ h[Len(s) + i] = Cost(w, t[i])
    BY <1>2, <2>0
  <2>2. Fits(p, t[i])
    BY <1>2 DEF AllFit, Range
  <2> QED BY <2>1, <2>2, CostType
<1>5. /\ Total(w, s) = SumUpTo(f, Len(s)) /\ Total(w, t) = SumUpTo(g, Len(t))
      /\ Total(w, u) = SumUpTo(h, Len(s) + Len(t))
  BY <1>2 DEF Total
<1> HIDE DEF f, g, h
<1>6. Len(s) \in Nat /\ Len(t) \in Nat
  BY <1>2
<1>7. SumUpTo(h, Len(s) + Len(t)) = SumUpTo(f, Len(s)) + SumUpTo(g, Len(t))
  BY <1>3, <1>4, <1>6, SumCat
<1>8. Total(w, u) = Total(w, s) + Total(w, t)
  BY <1>5, <1>7
<1> QED BY <1>8 DEF u

\* The totals of no work and of one piece.
LEMMA TotalOne ==
  ASSUME NEW p, NEW w, Weights(p, w), NEW x, Fits(p, x)
  PROVE  /\ Total(w, <<>>) = 0
         /\ Total(w, <<x>>) = Cost(w, x) /\ AllFit(p, <<x>>)
<1>1. Total(w, <<>>) = 0
  <2> DEFINE f == [i \in DOMAIN <<>> |-> Cost(w, <<>>[i])]
  <2>1. Total(w, <<>>) = SumUpTo(f, 0)
    BY DEF Total
  <2> HIDE DEF f
  <2> QED BY <2>1, SumFacts
<1> DEFINE f == [i \in DOMAIN <<x>> |-> Cost(w, <<x>>[i])]
<1>2. Total(w, <<x>>) = SumUpTo(f, 1)
  BY DEF Total
<1>3. f[1] = Cost(w, x)
  OBVIOUS
<1> HIDE DEF f
<1>4. SumUpTo(f, 0) = 0 /\ SumUpTo(f, 0 + 1) = SumUpTo(f, 0) + f[0 + 1]
  BY SumFacts
<1>5. SumUpTo(f, 1) = Cost(w, x)
  BY <1>3, <1>4, CostType
<1>6. AllFit(p, <<x>>)
  <2>1. x \in {x}
    OBVIOUS
  <2>2. <<x>> \in Seq({x}) /\ Range(<<x>>) = {x}
    BY <2>1, SingleFacts
  <2> QED BY <2>2 DEF AllFit
<1> QED BY <1>1, <1>2, <1>5, <1>6

\* The total is what the first piece costs, and the others.
LEMMA TotalHead ==
  ASSUME NEW p, NEW w, Weights(p, w), NEW s, AllFit(p, s), s # <<>>
  PROVE  /\ AllFit(p, Tail(s)) /\ Fits(p, Head(s))
         /\ Total(w, s) = Cost(w, Head(s)) + Total(w, Tail(s))
<1> DEFINE x == Head(s)
           t == Tail(s)
<1>1. s \in Seq(Range(s)) /\ \A y \in Range(s) : Fits(p, y)
  BY DEF AllFit
<1>2. /\ t \in Seq(Range(s)) /\ x \in Range(s)
      /\ Range(s) = {x} \union Range(t)
  BY <1>1, HeadTail
<1>3. s = <<x>> \o t
  BY <1>1
<1> HIDE DEF x, t
<1>4. t \in Seq(Range(t))
  BY <1>2, SeqFacts
<1>5. AllFit(p, t) /\ Fits(p, x)
  BY <1>1, <1>2, <1>4 DEF AllFit
<1>6. AllFit(p, <<x>>) /\ Total(w, <<x>>) = Cost(w, x)
  BY <1>5, TotalOne
<1>7. Total(w, <<x>> \o t) = Cost(w, x) + Total(w, t)
  BY <1>5, <1>6, TotalCat
<1> QED BY <1>3, <1>5, <1>7 DEF x, t

\* On a page with a measure every piece of work costs something.
LEMMA CostPositive ==
  ASSUME NEW p, PageOK(p), NEW w, Descends(p, w), NEW x, Fits(p, x)
  PROVE  Weights(p, w) /\ Cost(w, x) \in Nat \ {0}
<1>1. Weights(p, w)
  BY DEF Descends, Weights, Names
<1>2. Cost(w, x) \in Nat
  BY <1>1, CostType
<1>3. ASSUME NEW n \in Names(p) PROVE w[n] \in Nat \ {0}
  <2> DEFINE s == p.dependents[n]
  <2>1. s \in Seq(Range(p.modifiers)) /\ \A y \in Range(p.modifiers) : Fits(p, y)
    BY DEF PageOK, Fits
  <2>2. Total(w, s) < w[n]
    BY DEF Descends, Names
  <2> HIDE DEF s
  <2>3. AllFit(p, s)
    BY <2>1, SeqFacts DEF AllFit
  <2>4. Total(w, s) \in Nat
    BY <1>1, <2>3, TotalFacts
  <2> QED BY <1>1, <2>2, <2>4 DEF Weights
<1>4. Cost(w, x) # 0
  <2>1. CASE IsModify(p, x)
    <3>1. w[x.name] \in Nat /\ x.do = "modify"
      BY <1>3, <2>1 DEF IsModify
    <3>2. \/ Cost(w, x) = 1 \/ Cost(w, x) = 2 + w[x.name]
          \/ Cost(w, x) = 1 + w[x.name]
      BY <3>1 DEF Cost
    <3> QED BY <3>1, <3>2
  <2>2. CASE x.do = "patch" /\ x.name \in Names(p)
    <3>1. Cost(w, x) = 1 + w[x.name] /\ w[x.name] \in Nat
      BY <1>3, <2>2 DEF Cost
    <3> QED BY <3>1
  <2>3. CASE x.do = "announce" /\ x.name \in Names(p)
    <3>1. Cost(w, x) = w[x.name]
      BY <2>3 DEF Cost
    <3> QED BY <1>3, <2>3, <3>1
  <2>4. CASE x.do = "settle"
    <3>1. Cost(w, x) = 1
      BY <2>4 DEF Cost
    <3> QED BY <3>1
  <2> QED BY <2>1, <2>2, <2>3, <2>4 DEF Fits
<1> QED BY <1>1, <1>2, <1>4

\* What a step leaves to be done costs less than what it did.
LEMMA StepLowers ==
  ASSUME NEW p, PageOK(p), NEW w, Descends(p, w),
         NEW c, AllFit(p, c.todo), c.todo # <<>>
  PROVE  \E first :
           /\ AllFit(p, first) /\ Step(p, c).todo = first \o Tail(c.todo)
           /\ Total(w, first) < Cost(w, Head(c.todo))
<1> DEFINE x == Head(c.todo)
           s == c.form
<1>1. Fits(p, x) /\ Weights(p, w) /\ Cost(w, x) \in Nat \ {0}
  <2>1. x \in Range(c.todo)
    BY HeadTail DEF AllFit
  <2> QED BY <2>1, CostPositive DEF AllFit
<1>2. ASSUME NEW n \in Names(p)
      PROVE  /\ AllFit(p, <<>>) /\ Total(w, <<>>) = 0
             /\ AllFit(p, <<Announce(n)>>) /\ Total(w, <<Announce(n)>>) = w[n]
             /\ AllFit(p, <<Announce(n), Settle>>)
             /\ Total(w, <<Announce(n), Settle>>) = w[n] + 1
             /\ w[n] \in Nat
  <2>1. /\ Announce(n).do = "announce" /\ Announce(n).name = n
        /\ Settle.do = "settle"
    BY DEF Announce, Settle
  <2>2. Fits(p, Announce(n)) /\ Fits(p, Settle)
    BY <2>1 DEF Fits
  <2>3. Cost(w, Announce(n)) = w[n] /\ Cost(w, Settle) = 1
    BY <2>1 DEF Cost
  <2> DEFINE a == Announce(n)
             b == Settle
  <2> HIDE DEF a, b
  <2>4. /\ AllFit(p, <<a>>) /\ Total(w, <<a>>) = Cost(w, a)
        /\ AllFit(p, <<b>>) /\ Total(w, <<b>>) = Cost(w, b)
        /\ Total(w, <<>>) = 0
    BY <1>1, <2>2, TotalOne DEF a, b
  <2>5. AllFit(p, <<a, b>>) /\ AllFit(p, <<>>)
    BY FollowFit DEF a, b
  <2>6. Total(w, <<a, b>>) = Cost(w, a) + Cost(w, b)
    <3>1. <<a, b>> # <<>> /\ Head(<<a, b>>) = a /\ Tail(<<a, b>>) = <<b>>
      OBVIOUS
    <3>2. Total(w, <<a, b>>) = Cost(w, Head(<<a, b>>)) + Total(w, Tail(<<a, b>>))
      BY <1>1, <2>5, <3>1, TotalHead
    <3> QED BY <2>4, <3>1, <3>2
  <2>7. w[n] \in Nat
    BY <1>1 DEF Weights
  <2> QED BY <2>3, <2>4, <2>5, <2>6, <2>7 DEF a, b
<1>3. CASE IsModify(p, x)
  <2> DEFINE n == x.name
             m == x.modifier
             first == Follows(n, m, s)
  <2>1. Step(p, c).todo = first \o Tail(c.todo)
    BY <1>3 DEF IsModify, Step
  <2>2. n \in Names(p) /\ x.do = "modify"
    BY <1>3 DEF IsModify
  <2>3. \/ first = <<>>
        \/ m.type \notin {"visible", "hidden"} /\ first = <<Announce(n)>>
        \/ m.type \in {"disabled", "enabled"} /\ first = <<Announce(n), Settle>>
    BY DEF Follows
  <2>4. Cost(w, x) = IF m.type \in {"visible", "hidden"} THEN 1
                     ELSE IF m.type \in {"disabled", "enabled"} THEN 2 + w[n]
                     ELSE 1 + w[n]
    BY <2>2 DEF Cost
  <2> HIDE DEF first, n
  <2>5. AllFit(p, first) /\ Total(w, first) < Cost(w, x)
    <3>1. CASE first = <<>>
      <4>1. AllFit(p, first) /\ Total(w, first) = 0
        BY <1>2, <2>2, <3>1
      <4> HIDE DEF x
      <4> QED BY <1>1, <4>1
    <3>2. CASE m.type \notin {"visible", "hidden"} /\ first = <<Announce(n)>>
      <4>1. AllFit(p, first) /\ Total(w, first) = w[n] /\ w[n] \in Nat
        BY <1>2, <2>2, <3>2
      <4> QED BY <2>4, <3>2, <4>1
    <3>3. CASE m.type \in {"disabled", "enabled"} /\ first = <<Announce(n), Settle>>
      <4>1. AllFit(p, first) /\ Total(w, first) = w[n] + 1 /\ w[n] \in Nat
        BY <1>2, <2>2, <3>3
      <4> QED BY <2>4, <3>3, <4>1
    <3> QED BY <2>3, <3>1, <3>2, <3>3
  <2> QED BY <2>1, <2>5
<1>4. CASE x.do = "patch" /\ x.name \in Names(p)
  <2> DEFINE first == <<Announce(x.name)>>
  <2>1. Step(p, c).todo = first \o Tail(c.todo)
    BY <1>4 DEF Step
  <2>2. Cost(w, x) = 1 + w[x.name]
    BY <1>4 DEF Cost
  <2>3. /\ AllFit(p, first) /\ w[x.name] \in Nat
        /\ Total(w, first) = w[x.name]
    BY <1>2, <1>4
  <2> HIDE DEF first
  <2>4. Total(w, first) < Cost(w, x)
    BY <2>2, <2>3
  <2> QED BY <2>1, <2>3, <2>4
<1>5. CASE x.do = "announce" /\ x.name \in Names(p)
  <2> DEFINE first == p.dependents[x.name]
  <2>1. Step(p, c).todo = first \o Tail(c.todo)
    BY <1>5 DEF Step
  <2>2. Total(w, first) < w[x.name] /\ Cost(w, x) = w[x.name]
    BY <1>5 DEF Descends, Names, Cost
  <2>3. AllFit(p, first)
    <3>1. /\ first \in Seq(Range(p.modifiers))
          /\ \A y \in Range(p.modifiers) : Fits(p, y)
      BY <1>5 DEF PageOK, Fits
    <3> HIDE DEF first
    <3> QED BY <3>1, SeqFacts DEF AllFit
  <2> QED BY <2>1, <2>2, <2>3
<1>6. CASE x.do = "settle"
  <2> DEFINE first == <<>>
  <2>1. Step(p, c).todo = first \o Tail(c.todo)
    BY <1>6 DEF Step
  <2>2. AllFit(p, first)
    BY DEF AllFit, Range
  <2> HIDE DEF x
  <2>3. Total(w, first) = 0
    BY <1>1, TotalOne
  <2> HIDE DEF first
  <2>4. Total(w, first) < Cost(w, x)
    BY <1>1, <2>3
  <2> QED BY <2>1, <2>2, <2>4 DEF x
<1> QED BY <1>1, <1>3, <1>4, <1>5, <1>6 DEF Fits

\* A cascade is over, or costs no more than k.
Within(w, k, c) == c.todo = <<>> \/ Total(w, c.todo) <= k

\* A step, if there is one, lowers the cost.
LEMMA Step1Within ==
  ASSUME NEW p, PageOK(p), NEW w, Descends(p, w),
         NEW c, AllFit(p, c.todo), NEW k \in Int, Within(w, k, c)
  PROVE  Within(w, k - 1, Step1(p, c)) /\ AllFit(p, Step1(p, c).todo)
<1>1. CASE c.todo = <<>>
  BY <1>1 DEF Step1, Within
<1>2. CASE c.todo # <<>>
  <2> DEFINE rest == Tail(c.todo)
             d == Step(p, c)
  <2>1. PICK first :
          /\ AllFit(p, first) /\ d.todo = first \o rest
          /\ Total(w, first) < Cost(w, Head(c.todo))
    BY <1>2, StepLowers
  <2>2. Weights(p, w)
    BY DEF Descends, Weights, Names
  <2>3. /\ AllFit(p, rest) /\ Fits(p, Head(c.todo))
        /\ Total(w, c.todo) = Cost(w, Head(c.todo)) + Total(w, rest)
    BY <1>2, <2>2, TotalHead
  <2>4. Step1(p, c) = d
    BY <1>2 DEF Step1
  <2> HIDE DEF rest, d
  <2>5. Total(w, d.todo) = Total(w, first) + Total(w, rest)
    BY <2>1, <2>2, <2>3, TotalCat
  <2>6. /\ Total(w, first) \in Nat /\ Total(w, rest) \in Nat
        /\ Cost(w, Head(c.todo)) \in Nat
    BY <2>1, <2>2, <2>3, TotalFacts, CostType
  <2>7. Total(w, c.todo) <= k
    BY <1>2 DEF Within
  <2>8. Total(w, d.todo) <= k - 1
    BY <2>1, <2>3, <2>5, <2>6, <2>7
  <2>9. AllFit(p, d.todo)
    BY <2>1, <2>3, CatFit
  <2> QED BY <2>4, <2>8, <2>9 DEF Within
<1> QED BY <1>1, <1>2

\* Eight steps lower it by eight.
LEMMA EightWithin ==
  ASSUME NEW p, PageOK(p), NEW w, Descends(p, w),
         NEW c, AllFit(p, c.todo), NEW k \in Int, Within(w, k, c)
  PROVE  Within(w, k - 8, Steps8(p, c)) /\ AllFit(p, Steps8(p, c).todo)
<1> DEFINE Fine(e, j) == AllFit(p, e.todo) /\ Within(w, j, e)
<1>1. \A e : \A j \in Int : Fine(e, j) => Fine(Step1(p, e), j - 1)
  BY Step1Within
<1> HIDE DEF Fine
<1>2. ASSUME NEW e, NEW j \in Int, Fine(e, j) PROVE Fine(Step2(p, e), j - 2)
  <2>1. Fine(Step1(p, e), j - 1) /\ j - 1 \in Int
    BY <1>1, <1>2
  <2>2. Fine(Step1(p, Step1(p, e)), (j - 1) - 1)
    BY <1>1, <2>1
  <2>3. (j - 1) - 1 = j - 2
    OBVIOUS
  <2> QED BY <2>2, <2>3 DEF Step2
<1>3. CASE c.todo = <<>>
  BY <1>3 DEF Steps8, Within
<1>4. CASE c.todo # <<>>
  <2> DEFINE c2 == Step2(p, c)
             c4 == Step2(p, c2)
             c6 == Step2(p, c4)
  <2>1. Fine(c, k)
    BY DEF Fine
  <2>2. Fine(c2, k - 2) /\ k - 2 \in Int
    BY <1>2, <2>1
  <2> HIDE DEF c2
  <2>3. Fine(c4, (k - 2) - 2) /\ (k - 2) - 2 \in Int
    BY <1>2, <2>2
  <2> HIDE DEF c4
  <2>4. Fine(c6, ((k - 2) - 2) - 2) /\ ((k - 2) - 2) - 2 \in Int
    BY <1>2, <2>3
  <2> HIDE DEF c6
  <2>5. Fine(Step2(p, c6), (((k - 2) - 2) - 2) - 2)
    BY <1>2, <2>4
  <2>6. (((k - 2) - 2) - 2) - 2 = k - 8
    OBVIOUS
  <2>7. Steps8(p, c) = Step2(p, c6)
    BY <1>4 DEF Steps8, c6, c4, c2
  <2> QED BY <2>5, <2>6, <2>7 DEF Fine
<1> QED BY <1>3, <1>4

\* The work that is left costs no more than a change of field n, so none of
\* it changes that field.
Below(p, w, n, v, c) ==
  /\ AllFit(p, c.todo) /\ Sound(p, c.form) /\ c.form.values[n] = v
  /\ \A x \in Range(c.todo) : Cost(w, x) <= w[n]

\* A field that is set is the only one that gets another value.
LEMMA OtherValue ==
  ASSUME NEW p, NEW s, Sound(p, s), NEW n \in Names(p), NEW m, m # n, NEW v
  PROVE  SetValue(p, m, v, s).values[n] = s.values[n]
<1>0. IsForm(s)
  BY DEF Sound
<1> DEFINE t == SetValue(p, m, v, s)
<1>1. /\ IsForm(t) /\ SameButMarks(s, t) /\ MarkedAgain(p, m, s, t)
      /\ t.values = [s.values EXCEPT ![m] = v]
  BY <1>0, SetValueFacts
<1> HIDE DEF t
<1>2. n \in DOMAIN s.values
  BY DEF Sound, Keyed
<1> QED BY <1>1, <1>2 DEF t

LEMMA StepBelow ==
  ASSUME NEW p, PageOK(p), NEW w, Descends(p, w), NEW n \in Names(p), NEW v,
         NEW c, Below(p, w, n, v, c), c.todo # <<>>
  PROVE  Below(p, w, n, v, Step(p, c))
<1> DEFINE x == Head(c.todo)
           s == c.form
           d == Step(p, c)
<1>1. /\ AllFit(p, c.todo) /\ Sound(p, s) /\ s.values[n] = v
      /\ c.todo \in Seq(Range(c.todo))
  BY DEF Below, AllFit
<1>2. /\ x \in Range(c.todo) /\ Range(c.todo) = {x} \union Range(Tail(c.todo))
      /\ Fits(p, x) /\ Cost(w, x) <= w[n]
  <2>1. x \in Range(c.todo) /\ Range(c.todo) = {x} \union Range(Tail(c.todo))
    BY <1>1, HeadTail
  <2> HIDE DEF x
  <2> QED BY <1>1, <2>1 DEF Below, AllFit
<1>3. Weights(p, w) /\ Cost(w, x) \in Nat \ {0} /\ w[n] \in Nat
  <2>1. Weights(p, w) /\ Cost(w, x) \in Nat \ {0}
    BY <1>2, CostPositive
  <2> QED BY <2>1 DEF Weights
<1>4. Good(p, s.dirty, {}, c)
  BY <1>1 DEF Good
<1>5. Good(p, s.dirty, {}, d)
  BY <1>4, StepGood
<1>6. AllFit(p, d.todo) /\ Sound(p, d.form)
  <2> HIDE DEF d
  <2> QED BY <1>5 DEF Good
<1>7. \A y \in Range(d.todo) : Cost(w, y) <= w[n]
  <2>1. PICK first :
          /\ AllFit(p, first) /\ d.todo = first \o Tail(c.todo)
          /\ Total(w, first) < Cost(w, x)
    BY <1>1, StepLowers
  <2>2. AllFit(p, Tail(c.todo))
    BY <1>1, <1>3, TotalHead
  <2>3. Range(d.todo) = Range(first) \union Range(Tail(c.todo))
    <3> DEFINE rest == Tail(c.todo)
    <3> HIDE DEF d, rest
    <3>1. Joins(first \o rest, first, rest)
      BY <2>1, <2>2, CatFit DEF rest
    <3>2. d.todo = first \o rest
      BY <2>1 DEF rest
    <3> QED BY <3>1, <3>2 DEF Joins, rest
  <2>4. ASSUME NEW y \in Range(first) PROVE Cost(w, y) <= w[n]
    <3>1. /\ Total(w, first) \in Nat /\ Cost(w, y) <= Total(w, first)
          /\ Cost(w, y) \in Nat
      BY <1>3, <2>1, <2>4, TotalFacts, CostType DEF AllFit
    <3> HIDE DEF x
    <3> QED BY <1>2, <1>3, <2>1, <3>1
  <2> QED BY <1>1, <1>2, <2>3, <2>4 DEF Below
<1>8. d.form.values[n] = s.values[n]
  <2>1. CASE IsModify(p, x)
    <3> DEFINE m == x.modifier
               t == Apply(p, x.name, m, s)
               holds == Satisfies(m.constraint, s.values)
    <3>1. d.form = t
      BY <2>1 DEF IsModify, Step
    <3>2. x.name \in Names(p) /\ m.type \in Types /\ x.do = "modify"
      BY <2>1 DEF IsModify
    <3>3. CASE ~Acts(m, holds)
      BY <3>1, <3>3 DEF Apply
    <3>4. CASE Acts(m, holds) /\ m.type \in {"visible", "hidden"}
      <4> DEFINE h == IF (m.type = "hidden") = holds THEN s.hidden \union {x.name}
                      ELSE s.hidden \ {x.name}
      <4>1. t = [s EXCEPT !.hidden = h]
        BY <3>4 DEF Apply
      <4> HIDE DEF t, h
      <4>2. t.values = s.values
        BY <1>1, <4>1 DEF Sound, IsForm
      <4> QED BY <3>1, <4>2
    <3>5. CASE Acts(m, holds) /\ m.type \in {"disabled", "enabled"}
      <4> DEFINE b == (m.type = "disabled") = holds
      <4>1. t = SetDisabled(p, x.name, b, s)
        BY <3>5 DEF Apply
      <4> HIDE DEF t, b
      <4>2. t.values = s.values
        BY <1>1, <4>1, SetDisabledFacts DEF Sound
      <4> QED BY <3>1, <4>2
    <3>6. CASE Acts(m, holds) /\ m.type \in {"checked", "unchecked", "value"}
      <4>1. \E z : t = SetValue(p, x.name, z, s)
        BY <3>6 DEF Apply
      <4>2. Cost(w, x) = 1 + w[x.name]
        BY <3>2, <3>6 DEF Cost
      <4>3. x.name # n
        BY <1>2, <1>3, <4>2
      <4> HIDE DEF t
      <4> QED BY <1>1, <3>1, <4>1, <4>3, OtherValue
    <3> QED BY <3>2, <3>3, <3>4, <3>5, <3>6 DEF Types
  <2>2. CASE x.do = "patch" /\ x.name \in Names(p)
    <3>1. d.form = SetValue(p, x.name, x.value, s)
      BY <2>2 DEF Step
    <3>2. Cost(w, x) = 1 + w[x.name]
      BY <2>2 DEF Cost
    <3>3. x.name # n
      BY <1>2, <1>3, <3>2
    <3> QED BY <1>1, <3>1, <3>3, OtherValue
  <2>3. CASE x.do = "announce" /\ x.name \in Names(p)
    <3> DEFINE u == s.stale \union p.watchers[x.name]
               t == [s EXCEPT !.stale = u]
    <3>1. d.form = t
      BY <2>3 DEF Step
    <3> HIDE DEF u, d
    <3>2. t.values = s.values
      BY <1>1 DEF Sound, IsForm
    <3> QED BY <3>1, <3>2
  <2>4. CASE x.do = "settle"
    <3> DEFINE b == AnyDirty(s)
               t == [s EXCEPT !.changed = b]
    <3>1. d.form = t
      BY <2>4 DEF Step
    <3> HIDE DEF b, d
    <3>2. t.values = s.values
      BY <1>1 DEF Sound, IsForm
    <3> QED BY <3>1, <3>2
  <2> QED BY <1>2, <2>1, <2>2, <2>3, <2>4 DEF Fits
<1> HIDE DEF d
<1>9. Below(p, w, n, v, d)
  BY <1>1, <1>6, <1>7, <1>8 DEF Below
<1> QED BY <1>9 DEF d

LEMMA EightBelow ==
  ASSUME NEW p, PageOK(p), NEW w, Descends(p, w), NEW n \in Names(p), NEW v,
         NEW c, Below(p, w, n, v, c)
  PROVE  Below(p, w, n, v, Steps8(p, c))
<1>1. \A e : Below(p, w, n, v, e) => Below(p, w, n, v, Step1(p, e))
  BY StepBelow DEF Step1
<1>2. \A e : Below(p, w, n, v, e) => Below(p, w, n, v, Step2(p, e))
  BY <1>1 DEF Step2
<1> QED BY <1>2 DEF Steps8

\* What the recursive definition in Run says of its function.
Rounds(p, c, N, f) ==
  f = [n \in 0..N |-> IF n = 0 THEN c ELSE Steps8(p, f[n - 1])]

\* There is such a function: every beginning of it exists, and so all of it.
LEMMA RoundsDefined ==
  ASSUME NEW p, NEW c, NEW N \in Nat
  PROVE  \E f : Rounds(p, c, N, f)
<1> DEFINE S == {n \in Nat : \E f : Rounds(p, c, n, f)}
<1>1. 0 \in S
  <2> DEFINE f == [n \in 0..0 |-> c]
  <2>1. Rounds(p, c, 0, f)
    BY DEF Rounds
  <2> HIDE DEF f
  <2> QED BY <2>1
<1>2. ASSUME NEW n \in S PROVE n + 1 \in S
  <2>1. PICK f : Rounds(p, c, n, f)
    BY <1>2
  <2> DEFINE g == [i \in 0..(n + 1) |->
                     IF i = n + 1 THEN Steps8(p, f[n]) ELSE f[i]]
  <2>2. \A i \in 0..(n + 1) :
          g[i] = IF i = 0 THEN c ELSE Steps8(p, g[i - 1])
    <3> TAKE i \in 0..(n + 1)
    <3>1. CASE i = 0
      BY <2>1, <3>1 DEF Rounds
    <3>2. CASE i \in 1..n
      <4>1. g[i] = f[i] /\ g[i - 1] = f[i - 1]
        BY <3>2
      <4>2. f[i] = Steps8(p, f[i - 1])
        BY <2>1, <3>2 DEF Rounds
      <4> QED BY <3>2, <4>1, <4>2
    <3>3. CASE i = n + 1
      <4>1. g[i] = Steps8(p, f[n]) /\ g[i - 1] = f[n]
        BY <3>3
      <4> QED BY <3>3, <4>1
    <3> QED BY <3>1, <3>2, <3>3
  <2>3. Rounds(p, c, n + 1, g)
    <3>1. g = [i \in 0..(n + 1) |-> g[i]]
      OBVIOUS
    <3> HIDE DEF g
    <3> QED BY <2>2, <3>1 DEF Rounds
  <2> HIDE DEF g
  <2> QED BY <2>3
<1>3. S = Nat
  <2> HIDE DEF S
  <2>1. S \in SUBSET Nat
    BY DEF S
  <2> QED BY <1>1, <1>2, <2>1, NatSetInduction
<1> QED BY <1>3

\* The function that Run defines, and its last value.
LEMMA RunRounds ==
  ASSUME NEW p, NEW c
  PROVE  \E f : /\ Run(p, c) = f[Enough] /\ f[0] = c
                /\ \A n \in Nat : n + 1 <= Enough => f[n + 1] = Steps8(p, f[n])
<1> DEFINE run == CHOOSE f : Rounds(p, c, Enough, f)
<1>1. Enough \in Nat
  BY DEF Enough
<1>2. Rounds(p, c, Enough, run)
  BY <1>1, RoundsDefined
<1>3. Run(p, c) = run[Enough]
  BY DEF Run, Rounds
<1> HIDE DEF run
<1>4. run[0] = c
  BY <1>1, <1>2 DEF Rounds
<1>5. ASSUME NEW n \in Nat, n + 1 <= Enough
      PROVE  run[n + 1] = Steps8(p, run[n])
  BY <1>1, <1>2, <1>5 DEF Rounds
<1> QED BY <1>3, <1>4, <1>5

\* A whole cascade keeps it good, however long it is followed.
LEMMA RunGood ==
  ASSUME NEW p, PageOK(p), NEW D, NEW K \in SUBSET Names(p), NEW c,
         Good(p, D, K, c)
  PROVE  Good(p, D, K, Run(p, c))
<1>1. Enough \in Nat
  BY DEF Enough
<1>2. PICK f : /\ Run(p, c) = f[Enough] /\ f[0] = c
              /\ \A n \in Nat : n + 1 <= Enough => f[n + 1] = Steps8(p, f[n])
  BY RunRounds
<1> DEFINE S == {n \in Nat : n <= Enough => Good(p, D, K, f[n])}
<1>3. 0 \in S
  BY <1>2
<1>4. ASSUME NEW n \in S PROVE n + 1 \in S
  BY <1>1, <1>2, <1>4, EightGood
<1>5. S = Nat
  <2> HIDE DEF S
  <2>1. S \in SUBSET Nat
    BY DEF S
  <2> QED BY <1>3, <1>4, <2>1, NatSetInduction
<1> QED BY <1>1, <1>2, <1>5

\* A cascade that costs no more than it is followed for comes to an end.
LEMMA RunEnds ==
  ASSUME NEW p, PageOK(p), NEW w, Descends(p, w), NEW c, AllFit(p, c.todo),
         Total(w, c.todo) <= 8 * Enough
  PROVE  Run(p, c).todo = <<>>
<1>1. Enough \in Nat
  BY DEF Enough
<1>2. PICK f : /\ Run(p, c) = f[Enough] /\ f[0] = c
              /\ \A n \in Nat : n + 1 <= Enough => f[n + 1] = Steps8(p, f[n])
  BY RunRounds
<1> DEFINE Fine(n) == /\ AllFit(p, f[n].todo)
                      /\ Within(w, 8 * Enough - 8 * n, f[n])
           S == {n \in Nat : n <= Enough => Fine(n)}
<1>3. 0 \in S
  BY <1>1, <1>2 DEF Within
<1>4. ASSUME NEW n \in S PROVE n + 1 \in S
  <2> SUFFICES ASSUME n + 1 <= Enough PROVE Fine(n + 1)
    OBVIOUS
  <2>1. /\ n \in Nat /\ AllFit(p, f[n].todo)
        /\ Within(w, 8 * Enough - 8 * n, f[n])
    BY <1>1, <1>4
  <2>2. f[n + 1] = Steps8(p, f[n])
    BY <1>2, <2>1
  <2>3. 8 * Enough - 8 * n \in Int
    BY <1>1, <2>1
  <2>4. /\ Within(w, (8 * Enough - 8 * n) - 8, f[n + 1])
        /\ AllFit(p, f[n + 1].todo)
    BY <2>1, <2>2, <2>3, EightWithin
  <2>5. (8 * Enough - 8 * n) - 8 = 8 * Enough - 8 * (n + 1)
    BY <1>1, <2>1
  <2> QED BY <2>4, <2>5
<1>5. S = Nat
  <2> HIDE DEF S
  <2>1. S \in SUBSET Nat
    BY DEF S
  <2> QED BY <1>3, <1>4, <2>1, NatSetInduction
<1>6. AllFit(p, f[Enough].todo) /\ Within(w, 8 * Enough - 8 * Enough, f[Enough])
  BY <1>1, <1>5
<1> DEFINE todo == f[Enough].todo
<1>7. SUFFICES ASSUME todo # <<>> PROVE FALSE
  BY <1>2
<1> HIDE DEF todo
<1>8. AllFit(p, todo) /\ Total(w, todo) <= 0
  BY <1>1, <1>6, <1>7 DEF Within, todo
<1>9. Weights(p, w)
  BY DEF Descends, Weights, Names
<1>10. /\ AllFit(p, Tail(todo)) /\ Fits(p, Head(todo))
       /\ Total(w, todo) = Cost(w, Head(todo)) + Total(w, Tail(todo))
  BY <1>7, <1>8, <1>9, TotalHead
<1>11. Total(w, Tail(todo)) \in Nat /\ Cost(w, Head(todo)) \in Nat \ {0}
  BY <1>9, <1>10, TotalFacts, CostPositive
<1> QED BY <1>8, <1>10, <1>11

\* A cascade that costs no more than a change of a field does not change it.
LEMMA RunBelow ==
  ASSUME NEW p, PageOK(p), NEW w, Descends(p, w), NEW n \in Names(p), NEW v,
         NEW c, Below(p, w, n, v, c)
  PROVE  Below(p, w, n, v, Run(p, c))
<1>1. Enough \in Nat
  BY DEF Enough
<1>2. PICK f : /\ Run(p, c) = f[Enough] /\ f[0] = c
              /\ \A i \in Nat : i + 1 <= Enough => f[i + 1] = Steps8(p, f[i])
  BY RunRounds
<1> DEFINE S == {i \in Nat : i <= Enough => Below(p, w, n, v, f[i])}
<1>3. 0 \in S
  BY <1>2
<1>4. ASSUME NEW i \in S PROVE i + 1 \in S
  BY <1>1, <1>2, <1>4, EightBelow
<1>5. S = Nat
  <2> HIDE DEF S
  <2>1. S \in SUBSET Nat
    BY DEF S
  <2> QED BY <1>3, <1>4, <2>1, NatSetInduction
<1> QED BY <1>1, <1>2, <1>5

\* What a cascade leaves: a sound form, the same fields changed by the user,
\* and, if it came to an end, every field marked as it should be.
LEMMA CascadeFacts ==
  ASSUME NEW p, PageOK(p), NEW todo, NEW s,
         NEW K \in SUBSET Names(p),
         Good(p, s.dirty, K, [todo |-> todo, form |-> s])
  PROVE  LET r == Cascade(p, todo, s) IN
         /\ Sound(p, r.form) /\ r.form.dirty = s.dirty
         /\ r.endless \in BOOLEAN
         /\ K = Names(p) /\ WatchOK(p) /\ Covers(p) /\ ~r.endless =>
              r.form.invalid = Refused(p, r.form)
<1> DEFINE c == Run(p, [todo |-> todo, form |-> s])
           t == c.form
           x == (t.invalid \ t.stale) \union (Refused(p, t) \cap t.stale)
           u == [t EXCEPT !.invalid = x]
           e == c.todo # <<>>
           r == [endless |-> e, form |-> u]
<1>1. Cascade(p, todo, s) = r
  BY DEF Cascade
<1>2. Good(p, s.dirty, K, c)
  BY RunGood
<1> HIDE DEF c
<1>3. Sound(p, t) /\ IsForm(t) /\ t.dirty = s.dirty
  BY <1>2 DEF Good, Sound
<1>4. Refused(p, t) \subseteq Names(p) \ t.off
  BY DEF Refused, Names
<1>5. x \subseteq Names(p) \ t.off
  BY <1>3, <1>4 DEF Sound
<1>6. K = Names(p) /\ WatchOK(p) /\ Covers(p) /\ ~e => x = Refused(p, t)
  <2> SUFFICES ASSUME K = Names(p), WatchOK(p), Covers(p), c.todo = <<>>, NEW m
               PROVE  m \in x <=> m \in Refused(p, t)
    OBVIOUS
  <2>1. CASE m \notin Names(p)
    BY <1>4, <1>5, <2>1
  <2>2. CASE m \in Names(p)
    <3>1. Current(p, m, c)
      BY <1>2, <2>2 DEF Good
    <3>2. Range(c.todo) = {}
      BY DEF Range
    <3>3. Marked(p, m, t) \/ m \in t.stale
      BY <3>1, <3>2 DEF Current, Pending
    <3>4. m \in Refused(p, t) <=> m \notin t.off /\ Refuses(p, m, t.values)
      BY <2>2 DEF Refused, Names
    <3>5. CASE m \in t.stale
      BY <3>5
    <3>6. CASE m \notin t.stale
      BY <3>3, <3>4, <3>6 DEF Marked
    <3> QED BY <3>5, <3>6
  <2> QED BY <2>1, <2>2
<1> HIDE DEF x, t
<1>7. u = [values |-> t.values, off |-> t.off, hidden |-> t.hidden,
           dirty |-> t.dirty, changed |-> t.changed, invalid |-> x,
           stale |-> t.stale]
  BY <1>3 DEF IsForm
<1> HIDE DEF u
<1>8. /\ u.values = t.values /\ u.off = t.off /\ u.hidden = t.hidden
      /\ u.dirty = t.dirty /\ u.changed = t.changed
      /\ u.invalid = x /\ u.stale = t.stale
  BY <1>7
<1>9. IsForm(u)
  BY <1>7, <1>8 DEF IsForm
<1>10. Sound(p, u)
  BY <1>3, <1>5, <1>8, <1>9 DEF Sound
<1>11. Refused(p, u) = Refused(p, t)
  BY <1>8 DEF Refused
<1>12. e \in BOOLEAN
  OBVIOUS
<1> HIDE DEF e
<1>13. r.form = u /\ r.endless = e
  OBVIOUS
<1>14. K = Names(p) /\ WatchOK(p) /\ Covers(p) /\ ~r.endless =>
         r.form.invalid = Refused(p, r.form)
  BY <1>6, <1>8, <1>11, <1>13
<1>15. /\ Sound(p, r.form) /\ r.form.dirty = s.dirty
       /\ r.endless \in BOOLEAN
  BY <1>3, <1>8, <1>10, <1>12, <1>13
<1> HIDE DEF r
<1> QED BY <1>1, <1>14, <1>15

\* What the measure of a page says of a cascade.
LEMMA CascadeMeasured ==
  ASSUME NEW p, PageOK(p), NEW w, Descends(p, w),
         NEW s, Sound(p, s), NEW todo, AllFit(p, todo)
  PROVE  LET r == Cascade(p, todo, s) IN
         /\ Total(w, todo) <= 8 * Enough => ~r.endless
         /\ \A n \in Names(p) :
              (\A x \in Range(todo) : Cost(w, x) <= w[n]) =>
                r.form.values[n] = s.values[n]
<1> DEFINE b == [todo |-> todo, form |-> s]
           c == Run(p, b)
           t == c.form
           x == (t.invalid \ t.stale) \union (Refused(p, t) \cap t.stale)
           u == [t EXCEPT !.invalid = x]
           r == [endless |-> c.todo # <<>>, form |-> u]
<1>1. Cascade(p, todo, s) = r
  BY DEF Cascade
<1>2. b.todo = todo /\ b.form = s
  OBVIOUS
<1> HIDE DEF b
<1>3. Total(w, todo) <= 8 * Enough => c.todo = <<>>
  BY <1>2, RunEnds
<1>4. ASSUME NEW n \in Names(p), \A y \in Range(todo) : Cost(w, y) <= w[n]
      PROVE  t.values[n] = s.values[n]
  <2>1. Below(p, w, n, s.values[n], b)
    BY <1>2, <1>4 DEF Below
  <2>2. Below(p, w, n, s.values[n], c)
    BY <2>1, RunBelow
  <2> HIDE DEF c
  <2> QED BY <2>2 DEF Below
<1>5. Sound(p, t)
  <2>1. Good(p, s.dirty, {}, b)
    BY <1>2 DEF Good
  <2>2. Good(p, s.dirty, {}, c)
    BY <2>1, RunGood
  <2> HIDE DEF c
  <2> QED BY <2>2 DEF Good
<1> HIDE DEF c, x, t
<1>6. u.values = t.values
  BY <1>5 DEF Sound, IsForm
<1> HIDE DEF u
<1>7. r.form = u /\ (r.endless <=> c.todo # <<>>)
  OBVIOUS
<1> HIDE DEF r
<1> QED BY <1>1, <1>3, <1>4, <1>6, <1>7

-----------------------------------------------------------------------------
\* The switches in a cascade.

\* What switch x says of its field is true of the form s.
Obeyed(x, s) ==
  LET m     == x.modifier
      holds == Satisfies(m.constraint, s.values)
  IN  CASE m.type = "disabled" -> x.name \in s.off <=> holds
        [] m.type = "enabled"  -> x.name \notin s.off <=> holds
        [] m.type = "hidden"   -> x.name \in s.hidden <=> holds
        [] m.type = "visible"  -> x.name \notin s.hidden <=> holds

\* The work y applies the modifier x, or announces a change that it follows.
Recalls(x, y) ==
  \/ y = x
  \/ y.do = "announce" /\ y.name \in x.modifier.deps

Recalled(x, todo) == \E y \in Range(todo) : Recalls(x, y)

\* The modifiers at work are those of the page.
Own(p, todo) ==
  \A y \in Range(todo) : y.do = "modify" => y \in Range(p.modifiers)

\* A condition is true or false, and its reads are reported.
Condition(c, keys) ==
  \A Values : /\ Reported(c, keys, Values)
              /\ \A d \in [keys -> Values] : Satisfies(c, d) \in BOOLEAN

Conditions(p) ==
  \A x \in Range(p.modifiers) : Condition(x.modifier.constraint, Keyed(p))

\* A field's change applies the modifiers that depend on it.
DependOK(p) ==
  \A n \in Names(p) : \A x \in Range(p.modifiers) :
    n \in x.modifier.deps \ {x.name} => x \in Range(p.dependents[n])

Ruled(p, c) ==
  /\ Own(p, c.todo)
  /\ \A x \in Lone(p) : Obeyed(x, c.form) \/ Recalled(x, c.todo)

\* A condition that does not follow field n has the same value when n changes.
LEMMA ConditionAsBefore ==
  ASSUME NEW p, Conditions(p), NEW x \in Lone(p),
         NEW n \in Names(p), n \notin x.modifier.deps,
         NEW d, d = [k \in Keyed(p) |-> d[k]], NEW v
  PROVE  Satisfies(x.modifier.constraint, [d EXCEPT ![n] = v])
           <=> Satisfies(x.modifier.constraint, d)
<1> DEFINE c == x.modifier.constraint
           Values == {d[k] : k \in Keyed(p)} \union {v}
<1>1. x \in Range(p.modifiers) /\ n \notin Reads(c)
  BY DEF Lone, Switches
<1>2. d \in [Keyed(p) -> Values] /\ v \in Values
  OBVIOUS
<1>3. n \in Keyed(p) \ Reads(c)
  BY <1>1 DEF Keyed
<1> HIDE DEF Values
<1>4. Reported(c, Keyed(p), Values)
  BY <1>1 DEF Conditions, Condition
<1> QED BY <1>2, <1>3, <1>4 DEF Reported

\* A condition is true or false of every form.
LEMMA ConditionIsTruth ==
  ASSUME NEW p, Conditions(p), NEW x \in Range(p.modifiers), NEW s, Sound(p, s)
  PROVE  Satisfies(x.modifier.constraint, s.values) \in BOOLEAN
<1> DEFINE d == s.values
           Values == {d[k] : k \in Keyed(p)}
<1>1. d = [k \in Keyed(p) |-> d[k]]
  BY DEF Sound
<1>2. d \in [Keyed(p) -> Values]
  BY <1>1
<1> HIDE DEF Values
<1> QED BY <1>2 DEF Conditions, Condition

\* A switch is obeyed as before by a form with the same values in which its
\* field is as before.
LEMMA ObeyedAsBefore ==
  ASSUME NEW p, NEW x \in Lone(p), NEW s, NEW t,
         Satisfies(x.modifier.constraint, t.values)
           <=> Satisfies(x.modifier.constraint, s.values),
         x.modifier.type \in {"disabled", "enabled"} =>
           (x.name \in t.off <=> x.name \in s.off),
         x.modifier.type \in {"hidden", "visible"} =>
           (x.name \in t.hidden <=> x.name \in s.hidden)
  PROVE  Obeyed(x, s) => Obeyed(x, t)
BY DEF Obeyed, Lone, Switches

\* When a value is set and announced, every switch is obeyed or recalled.
LEMMA ValueObeyed ==
  ASSUME NEW p, Conditions(p), NEW n \in Names(p), NEW v,
         NEW s, Sound(p, s), NEW first, Announce(n) \in Range(first),
         NEW x \in Lone(p), Obeyed(x, s)
  PROVE  Obeyed(x, SetValue(p, n, v, s)) \/ Recalled(x, first)
<1> DEFINE t == SetValue(p, n, v, s)
<1>1. IsForm(s) /\ s.values = [k \in Keyed(p) |-> s.values[k]]
  BY DEF Sound
<1>2. /\ IsForm(t) /\ SameButMarks(s, t) /\ MarkedAgain(p, n, s, t)
      /\ t.values = [s.values EXCEPT ![n] = v]
  BY <1>1, SetValueFacts
<1> HIDE DEF t
<1>3. CASE n \in x.modifier.deps
  <2>1. Announce(n).do = "announce" /\ Announce(n).name = n
    BY DEF Announce
  <2>2. Recalls(x, Announce(n))
    BY <1>3, <2>1 DEF Recalls
  <2> QED BY <2>2 DEF Recalled
<1>4. CASE n \notin x.modifier.deps
  <2>1. Satisfies(x.modifier.constraint, t.values)
          <=> Satisfies(x.modifier.constraint, s.values)
    BY <1>1, <1>2, <1>4, ConditionAsBefore
  <2>2. t.off = s.off /\ t.hidden = s.hidden
    BY <1>2 DEF SameButMarks
  <2>3. Obeyed(x, t)
    BY <2>1, <2>2, ObeyedAsBefore
  <2> QED BY <2>3 DEF t
<1> QED BY <1>3, <1>4

\* When a modifier is applied, the switches stay obeyed or are recalled, and
\* when it is a switch itself, it is obeyed.
LEMMA ApplyObeyed ==
  ASSUME NEW p, PageOK(p), Conditions(p), NEW s, Sound(p, s),
         NEW y \in Range(p.modifiers), NEW x \in Lone(p),
         Obeyed(x, s) \/ y = x
  PROVE  \/ Obeyed(x, Apply(p, y.name, y.modifier, s))
         \/ Recalled(x, Follows(y.name, y.modifier, s))
<1> DEFINE n == y.name
           m == y.modifier
           t == Apply(p, n, m, s)
           first == Follows(n, m, s)
           holds == Satisfies(m.constraint, s.values)
<1>1. /\ n \in Names(p) /\ m.type \in Types /\ IsForm(s)
      /\ holds \in BOOLEAN
  BY ConditionIsTruth DEF PageOK, IsModify, Sound
<1>2. y = x => Acts(m, holds)
  BY <1>1 DEF Lone, Switches, Acts
<1>3. y # x => ~Rivals(x, y)
  BY DEF Lone
<1>4. x.modifier.type \in {"disabled", "enabled", "hidden", "visible"}
  BY DEF Lone, Switches
<1>5. CASE ~Acts(m, holds)
  <2>1. t = s
    BY <1>5 DEF Apply
  <2> HIDE DEF t
  <2> QED BY <1>2, <1>5, <2>1 DEF t
<1>6. CASE Acts(m, holds) /\ m.type \in {"visible", "hidden"}
  <2> DEFINE b == (m.type = "hidden") = holds
             h == IF b THEN s.hidden \union {n} ELSE s.hidden \ {n}
  <2>1. t = [s EXCEPT !.hidden = h]
    BY <1>6 DEF Apply
  <2>2. n \in h <=> b
    OBVIOUS
  <2>3. \A k : k # n => (k \in h <=> k \in s.hidden)
    OBVIOUS
  <2> HIDE DEF t, h
  <2>4. t.hidden = h /\ t.values = s.values /\ t.off = s.off
    BY <1>1, <2>1 DEF IsForm
  <2>5. CASE y = x
    <3>1. m.type = "hidden" => (n \in t.hidden <=> holds)
      BY <1>1, <2>2, <2>4, <1>6
    <3>2. m.type = "visible" => (n \notin t.hidden <=> holds)
      BY <1>1, <2>2, <2>4, <1>6
    <3>3. Obeyed(y, t)
      BY <1>6, <2>4, <3>1, <3>2 DEF Obeyed
    <3> QED BY <2>5, <3>3 DEF t
  <2>6. CASE y # x
    <3>1. x.modifier.type \in {"hidden", "visible"} => x.name # n
      BY <1>3, <1>6, <2>6 DEF Rivals
    <3>2. Obeyed(x, t)
      BY <2>3, <2>4, <2>6, <3>1, ObeyedAsBefore
    <3> QED BY <3>2 DEF t
  <2> QED BY <2>5, <2>6
<1>7. CASE Acts(m, holds) /\ m.type \in {"disabled", "enabled"}
  <2> DEFINE b == (m.type = "disabled") = holds
  <2>1. t = SetDisabled(p, n, b, s)
    BY <1>7 DEF Apply
  <2>2. b \in BOOLEAN
    OBVIOUS
  <2> HIDE DEF t
  <2>3. /\ t.values = s.values /\ t.hidden = s.hidden
        /\ n \in t.off <=> b
        /\ t.off = s.off \union {n} \/ t.off = s.off \ {n}
    <3> HIDE DEF b
    <3> QED BY <1>1, <2>1, <2>2, SetDisabledFacts
  <2>4. CASE y = x
    <3>1. m.type = "disabled" => (n \in t.off <=> holds)
      BY <1>1, <2>3, <1>7
    <3>2. m.type = "enabled" => (n \notin t.off <=> holds)
      BY <1>1, <2>3, <1>7
    <3>3. Obeyed(y, t)
      BY <1>7, <2>3, <3>1, <3>2 DEF Obeyed
    <3> QED BY <2>4, <3>3 DEF t
  <2>5. CASE y # x
    <3>1. x.modifier.type \in {"disabled", "enabled"} => x.name # n
      BY <1>3, <1>7, <2>5 DEF Rivals
    <3>2. Obeyed(x, t)
      BY <2>3, <2>5, <3>1, ObeyedAsBefore
    <3> QED BY <3>2 DEF t
  <2> QED BY <2>4, <2>5
<1>8. CASE Acts(m, holds) /\ m.type \in {"checked", "unchecked", "value"}
  <2>1. \E v : t = SetValue(p, n, v, s)
    BY <1>8 DEF Apply
  <2>2. Announce(n) \in Range(first)
    <3>1. first = <<Announce(n)>>
      BY <1>8 DEF Follows
    <3> HIDE DEF first
    <3> QED BY <1>1, <3>1, FollowFit
  <2>3. y # x
    BY <1>4, <1>8
  <2> HIDE DEF t, first
  <2>4. Obeyed(x, t) \/ Recalled(x, first)
    BY <1>1, <2>1, <2>2, <2>3, ValueObeyed
  <2> QED BY <2>4 DEF t, first
<1> QED BY <1>1, <1>5, <1>6, <1>7, <1>8 DEF Types

\* The elements of a cascade's work when its first piece is replaced.
LEMMA RestFacts ==
  ASSUME NEW p, NEW todo, AllFit(p, todo), todo # <<>>,
         NEW first, AllFit(p, first)
  PROVE  /\ Range(todo) = {Head(todo)} \union Range(Tail(todo))
         /\ Range(first \o Tail(todo)) = Range(first) \union Range(Tail(todo))
<1> DEFINE rest == Tail(todo)
<1>1. todo \in Seq(Range(todo)) /\ \A x \in Range(todo) : Fits(p, x)
  BY DEF AllFit
<1>2. /\ rest \in Seq(Range(todo))
      /\ Range(todo) = {Head(todo)} \union Range(rest)
  BY <1>1, HeadTail
<1> HIDE DEF rest
<1>3. AllFit(p, rest)
  <2>1. rest \in Seq(Range(rest))
    BY <1>2, SeqFacts
  <2> QED BY <1>1, <1>2, <2>1 DEF AllFit
<1>4. Joins(first \o rest, first, rest)
  BY <1>3, CatFit
<1> QED BY <1>2, <1>4 DEF Joins, rest

\* The rest of a cascade's work, with other work before it.
LEMMA ContinueRuled ==
  ASSUME NEW p, NEW c, AllFit(p, c.todo), c.todo # <<>>, Ruled(p, c),
         NEW first, AllFit(p, first), Own(p, first), NEW t,
         \A x \in Lone(p) :
           Obeyed(x, c.form) \/ Recalls(x, Head(c.todo)) =>
             Obeyed(x, t) \/ Recalled(x, first)
  PROVE  Ruled(p, [todo |-> first \o Tail(c.todo), form |-> t])
<1> DEFINE rest == Tail(c.todo)
           todo == first \o rest
           e == [todo |-> todo, form |-> t]
<1>2. Range(c.todo) = {Head(c.todo)} \union Range(rest)
  BY RestFacts
<1>4. Range(todo) = Range(first) \union Range(rest)
  BY RestFacts
<1> HIDE DEF todo, rest
<1>5. e.todo = todo /\ e.form = t
  OBVIOUS
<1> HIDE DEF e
<1>6. Own(p, todo)
  BY <1>2, <1>4 DEF Own, Ruled
<1>7. ASSUME NEW x \in Lone(p)
      PROVE  Obeyed(x, t) \/ Recalled(x, todo)
  <2>1. CASE \E y \in Range(rest) : Recalls(x, y)
    BY <1>4, <2>1 DEF Recalled
  <2>2. CASE ~\E y \in Range(rest) : Recalls(x, y)
    <3>1. Obeyed(x, c.form) \/ Recalls(x, Head(c.todo))
      BY <1>2, <2>2 DEF Ruled, Recalled
    <3>2. Obeyed(x, t) \/ Recalled(x, first)
      BY <3>1
    <3> QED BY <1>4, <3>2 DEF Recalled
  <2> QED BY <2>1, <2>2
<1>8. Ruled(p, e)
  BY <1>5, <1>6, <1>7 DEF Ruled
<1> QED BY <1>8 DEF e, todo, rest

\* What follows a modifier.
LEMMA FollowsWork ==
  ASSUME NEW n, NEW m, NEW s
  PROVE  \A y \in Range(Follows(n, m, s)) : y.do \in {"announce", "settle"}
<1> DEFINE a == Announce(n)
           b == Settle
           first == Follows(n, m, s)
<1>1. a.do = "announce" /\ b.do = "settle"
  BY DEF Announce, Settle
<1>2. first \in {<<>>, <<a>>, <<a, b>>}
  BY DEF Follows
<1> HIDE DEF first, a, b
<1>3. /\ DOMAIN <<a, b>> = {1, 2} /\ <<a, b>>[1] = a /\ <<a, b>>[2] = b
      /\ DOMAIN <<a>> = {1} /\ <<a>>[1] = a
  OBVIOUS
<1>4. Range(first) \in {{}, {a}, {a, b}}
  BY <1>2, <1>3 DEF Range
<1> QED BY <1>1, <1>4 DEF first

\* Each step of a cascade keeps the switches obeyed or recalled.
LEMMA StepRuled ==
  ASSUME NEW p, PageOK(p), DependOK(p), Conditions(p), NEW c,
         Sound(p, c.form), AllFit(p, c.todo), c.todo # <<>>, Ruled(p, c)
  PROVE  Ruled(p, Step(p, c))
<1> DEFINE y == Head(c.todo)
           s == c.form
<1>1. y \in Range(c.todo) /\ Fits(p, y)
  <2>1. y \in Range(c.todo)
    BY HeadTail DEF AllFit
  <2> QED BY <2>1 DEF AllFit
<1>2. CASE IsModify(p, y)
  <2> DEFINE t == Apply(p, y.name, y.modifier, s)
             first == Follows(y.name, y.modifier, s)
  <2>1. Step(p, c) = [todo |-> first \o Tail(c.todo), form |-> t]
    BY <1>2 DEF IsModify, Step
  <2>2. y \in Range(p.modifiers)
    BY <1>1, <1>2 DEF Ruled, Own, IsModify
  <2>3. AllFit(p, first)
    BY <1>2, ApplyFacts
  <2>4. Own(p, first)
    <3>1. \A z \in Range(first) : z.do \in {"announce", "settle"}
      BY FollowsWork
    <3> HIDE DEF first
    <3> QED BY <3>1 DEF Own
  <2>5. ASSUME NEW x \in Lone(p), Obeyed(x, s) \/ Recalls(x, y)
        PROVE  Obeyed(x, t) \/ Recalled(x, first)
    <3>1. Obeyed(x, s) \/ y = x
      BY <1>2, <2>5 DEF Recalls, IsModify
    <3> QED BY <2>2, <3>1, ApplyObeyed
  <2> HIDE DEF t, first
  <2> QED BY <2>1, <2>3, <2>4, <2>5, ContinueRuled
<1>3. CASE y.do = "patch" /\ y.name \in Names(p)
  <2> DEFINE t == SetValue(p, y.name, y.value, s)
             first == <<Announce(y.name)>>
  <2>1. Step(p, c) = [todo |-> first \o Tail(c.todo), form |-> t]
    BY <1>3 DEF Step
  <2>2. AllFit(p, first) /\ Announce(y.name) \in Range(first)
    BY <1>3, FollowFit
  <2>3. Own(p, first)
    <3>1. Announce(y.name).do = "announce"
      BY DEF Announce
    <3>2. Range(first) = {Announce(y.name)}
      BY DEF Range
    <3> QED BY <3>1, <3>2 DEF Own
  <2> HIDE DEF first
  <2>4. ASSUME NEW x \in Lone(p), Obeyed(x, s) \/ Recalls(x, y)
        PROVE  Obeyed(x, t) \/ Recalled(x, first)
    <3>1. x.do = "modify"
      BY DEF Lone, Switches, PageOK, IsModify
    <3>2. Obeyed(x, s)
      BY <1>3, <2>4, <3>1 DEF Recalls
    <3> QED BY <1>3, <2>2, <3>2, ValueObeyed
  <2> HIDE DEF t
  <2> QED BY <2>1, <2>2, <2>3, <2>4, ContinueRuled DEF first
<1>4. CASE y.do = "announce" /\ y.name \in Names(p)
  <2> DEFINE w == p.watchers[y.name]
             t == [s EXCEPT !.stale = @ \union w]
             first == p.dependents[y.name]
  <2>1. Step(p, c) = [todo |-> first \o Tail(c.todo), form |-> t]
    BY <1>4 DEF Step
  <2>2. /\ AllFit(p, first) /\ Own(p, first)
    <3>1. /\ first \in Seq(Range(p.modifiers))
          /\ \A z \in Range(p.modifiers) : Fits(p, z)
      BY <1>4 DEF PageOK, Fits
    <3> HIDE DEF first
    <3>2. /\ first \in Seq(Range(first))
          /\ Range(first) \subseteq Range(p.modifiers)
      BY <3>1, SeqFacts
    <3> QED BY <3>1, <3>2 DEF AllFit, Own
  <2>3. t.values = s.values /\ t.off = s.off /\ t.hidden = s.hidden
    <3> HIDE DEF w
    <3> QED BY DEF Sound, IsForm
  <2> HIDE DEF t
  <2>4. ASSUME NEW x \in Lone(p), Obeyed(x, s) \/ Recalls(x, y)
        PROVE  Obeyed(x, t) \/ Recalled(x, first)
    <3>1. CASE Obeyed(x, s)
      BY <2>3, <3>1, ObeyedAsBefore
    <3>2. CASE Recalls(x, y)
      <4>1. x \in Range(p.modifiers) /\ x.name \notin x.modifier.deps
            /\ x.do = "modify"
        BY DEF Lone, Switches, PageOK, IsModify
      <4>2. y.name \in x.modifier.deps \ {x.name}
        BY <1>4, <3>2, <4>1 DEF Recalls
      <4>3. x \in Range(first)
        BY <1>4, <4>1, <4>2 DEF DependOK
      <4> QED BY <4>3 DEF Recalled, Recalls
    <3> QED BY <2>4, <3>1, <3>2
  <2> HIDE DEF first
  <2> QED BY <2>1, <2>2, <2>4, ContinueRuled
<1>5. CASE y.do = "settle"
  <2> DEFINE b == AnyDirty(s)
             t == [s EXCEPT !.changed = b]
  <2>1. Step(p, c) = [todo |-> <<>> \o Tail(c.todo), form |-> t]
    BY <1>5 DEF Step
  <2>2. t.values = s.values /\ t.off = s.off /\ t.hidden = s.hidden
    <3> HIDE DEF b
    <3> QED BY DEF Sound, IsForm
  <2>3. AllFit(p, <<>>) /\ Own(p, <<>>)
    BY DEF AllFit, Own, Range
  <2> HIDE DEF t
  <2>4. ASSUME NEW x \in Lone(p), Obeyed(x, s) \/ Recalls(x, y)
        PROVE  Obeyed(x, t) \/ Recalled(x, <<>>)
    <3>1. x.do = "modify"
      BY DEF Lone, Switches, PageOK, IsModify
    <3>2. Obeyed(x, s)
      BY <1>5, <2>4, <3>1 DEF Recalls
    <3> QED BY <2>2, <3>2, ObeyedAsBefore
  <2> QED BY <2>1, <2>3, <2>4, ContinueRuled
<1> QED BY <1>1, <1>2, <1>3, <1>4, <1>5 DEF Fits

\* Eight steps keep them so.
LEMMA EightRuled ==
  ASSUME NEW p, PageOK(p), DependOK(p), Conditions(p), NEW D, NEW c,
         Good(p, D, {}, c), Ruled(p, c)
  PROVE  Good(p, D, {}, Steps8(p, c)) /\ Ruled(p, Steps8(p, c))
<1>1. \A e : Good(p, D, {}, e) /\ Ruled(p, e) =>
               Good(p, D, {}, Step1(p, e)) /\ Ruled(p, Step1(p, e))
  <2> SUFFICES ASSUME NEW e, Good(p, D, {}, e), Ruled(p, e)
               PROVE  Good(p, D, {}, Step1(p, e)) /\ Ruled(p, Step1(p, e))
    OBVIOUS
  <2>1. CASE e.todo = <<>>
    BY <2>1 DEF Step1
  <2>2. CASE e.todo # <<>>
    <3>1. Step1(p, e) = Step(p, e)
      BY <2>2 DEF Step1
    <3>2. Good(p, D, {}, Step(p, e))
      BY <2>2, StepGood
    <3>3. Ruled(p, Step(p, e))
      BY <2>2, StepRuled DEF Good
    <3> QED BY <3>1, <3>2, <3>3
  <2> QED BY <2>1, <2>2
<1>2. \A e : Good(p, D, {}, e) /\ Ruled(p, e) =>
               Good(p, D, {}, Step2(p, e)) /\ Ruled(p, Step2(p, e))
  BY <1>1 DEF Step2
<1> QED BY <1>2 DEF Steps8

\* When a cascade comes to an end, all switches are obeyed.
LEMMA CascadeRuled ==
  ASSUME NEW p, PageOK(p), DependOK(p), Conditions(p),
         NEW s, Sound(p, s), NEW todo, AllFit(p, todo), Own(p, todo),
         \A x \in Lone(p) : Obeyed(x, s) \/ Recalled(x, todo)
  PROVE  LET r == Cascade(p, todo, s) IN
         ~r.endless => \A x \in Lone(p) : Obeyed(x, r.form)
<1> DEFINE b == [todo |-> todo, form |-> s]
           c == Run(p, b)
           t == c.form
           z == (t.invalid \ t.stale) \union (Refused(p, t) \cap t.stale)
           u == [t EXCEPT !.invalid = z]
           r == [endless |-> c.todo # <<>>, form |-> u]
           Fine(e) == Good(p, s.dirty, {}, e) /\ Ruled(p, e)
<1>1. Cascade(p, todo, s) = r
  BY DEF Cascade
<1>2. b.todo = todo /\ b.form = s
  OBVIOUS
<1> HIDE DEF b
<1>3. Fine(b)
  BY <1>2 DEF Good, Ruled
<1>4. Fine(c)
  <2>1. Enough \in Nat
    BY DEF Enough
  <2>2. PICK f : /\ Run(p, b) = f[Enough] /\ f[0] = b
                /\ \A n \in Nat : n + 1 <= Enough => f[n + 1] = Steps8(p, f[n])
    BY RunRounds
  <2> DEFINE S == {n \in Nat : n <= Enough => Fine(f[n])}
  <2>3. 0 \in S
    BY <1>3, <2>2
  <2>4. ASSUME NEW n \in S PROVE n + 1 \in S
    BY <2>1, <2>2, <2>4, EightRuled
  <2>5. S = Nat
    <3> HIDE DEF S
    <3>1. S \in SUBSET Nat
      BY DEF S
    <3> QED BY <2>3, <2>4, <3>1, NatSetInduction
  <2> QED BY <2>1, <2>2, <2>5
<1> HIDE DEF c
<1>5. c.todo = <<>> => \A x \in Lone(p) : Obeyed(x, t)
  <2>1. Range(<<>>) = {}
    BY DEF Range
  <2> QED BY <1>4, <2>1 DEF Ruled, Recalled
<1>6. Sound(p, t)
  BY <1>4 DEF Good
<1> HIDE DEF z, t
<1>7. u.values = t.values /\ u.off = t.off /\ u.hidden = t.hidden
  BY <1>6 DEF Sound, IsForm
<1> HIDE DEF u
<1>8. \A x \in Lone(p) : Obeyed(x, t) => Obeyed(x, u)
  BY <1>7, ObeyedAsBefore
<1>9. r.form = u /\ (r.endless <=> c.todo # <<>>)
  OBVIOUS
<1> HIDE DEF r
<1> QED BY <1>1, <1>5, <1>8, <1>9

-----------------------------------------------------------------------------
\* Cascades on a page on which modifiers only switch fields.

\* All modifiers of a page are switches that nothing else works against.
Switched(p) == Range(p.modifiers) \subseteq Lone(p)

\* The form counts as changed, for the fields H that the user has changed and
\* that are enabled, as the switches say.
Firm(p, H, s) ==
  /\ H \subseteq s.dirty \ s.off /\ s.changed
  /\ \A y \in Range(p.modifiers) :
       y.name \in H /\ y.modifier.type \in {"disabled", "enabled"} =>
         Obeyed(y, s)

\* The fields K have the values g, or are about to be given them.  Unless
\* there are values to set, the form stays firm.
Tame(p, K, g, H, c) ==
  /\ Own(p, c.todo)
  /\ \A y \in Range(c.todo) : y.do = "patch" => y.value = g[y.name]
  /\ \A k \in K : \/ c.form.values[k] = g[k]
                  \/ \E y \in Range(c.todo) : y.do = "patch" /\ y.name = k
  /\ H # {} => /\ \A y \in Range(c.todo) : y.do # "patch"
               /\ Firm(p, H, c.form)

\* A form that differs in neither values nor enabled fields is as firm.
LEMMA FirmAsBefore ==
  ASSUME NEW p, Switched(p), NEW H, NEW s, Firm(p, H, s), NEW t,
         t.values = s.values, t.off = s.off, t.dirty = s.dirty, t.changed
  PROVE  Firm(p, H, t)
<1>1. \A y \in Range(p.modifiers) :
        y.modifier.type \in {"disabled", "enabled"} =>
          (Obeyed(y, s) => Obeyed(y, t))
  BY ObeyedAsBefore DEF Switched
<1> QED BY <1>1 DEF Firm

\* A switch leaves values and marks of changes as they are, and a firm form
\* firm.
LEMMA SwitchFacts ==
  ASSUME NEW p, PageOK(p), Conditions(p), Switched(p), NEW s, Sound(p, s),
         NEW y \in Range(p.modifiers)
  PROVE  LET t == Apply(p, y.name, y.modifier, s) IN
         /\ t.values = s.values
         /\ \A H : Firm(p, H, s) => Firm(p, H, t)
<1> DEFINE n == y.name
           m == y.modifier
           t == Apply(p, n, m, s)
           holds == Satisfies(m.constraint, s.values)
<1>1. IsForm(s) /\ holds \in BOOLEAN
  BY ConditionIsTruth DEF Sound
<1>2. /\ m.type \in {"disabled", "enabled", "hidden", "visible"}
      /\ Acts(m, holds)
  BY <1>1 DEF Switched, Lone, Switches, Acts
<1>3. CASE m.type \in {"visible", "hidden"}
  <2> DEFINE h == IF (m.type = "hidden") = holds
                  THEN s.hidden \union {n} ELSE s.hidden \ {n}
  <2>1. t = [s EXCEPT !.hidden = h]
    BY <1>2, <1>3 DEF Apply
  <2> HIDE DEF t, h
  <2>2. /\ t.values = s.values /\ t.off = s.off /\ t.dirty = s.dirty
        /\ t.changed = s.changed
    BY <1>1, <2>1 DEF IsForm
  <2>3. ASSUME NEW H, Firm(p, H, s) PROVE Firm(p, H, t)
    <3>1. \A z \in Range(p.modifiers) :
            z.modifier.type \in {"disabled", "enabled"} =>
              (Obeyed(z, s) => Obeyed(z, t))
      BY <2>2, ObeyedAsBefore DEF Switched
    <3> QED BY <2>2, <2>3, <3>1 DEF Firm
  <2> QED BY <2>2, <2>3 DEF t
<1>4. CASE m.type \in {"disabled", "enabled"}
  <2> DEFINE b == (m.type = "disabled") = holds
  <2>1. t = SetDisabled(p, n, b, s)
    BY <1>2, <1>4 DEF Apply
  <2>2. b \in BOOLEAN
    OBVIOUS
  <2> HIDE DEF t
  <2>3. /\ t.values = s.values /\ t.dirty = s.dirty /\ t.changed = s.changed
        /\ n \in t.off <=> b
        /\ t.off = s.off \union {n} \/ t.off = s.off \ {n}
    <3> HIDE DEF b
    <3> QED BY <1>1, <2>1, <2>2, SetDisabledFacts
  <2>4. ASSUME NEW H, Firm(p, H, s) PROVE Firm(p, H, t)
    <3>1. H \subseteq s.dirty \ s.off /\ s.changed
      BY <2>4 DEF Firm
    <3>2. n \in H => ~b
      <4> SUFFICES ASSUME n \in H PROVE ~b
        OBVIOUS
      <4>1. Obeyed(y, s) /\ n \notin s.off
        BY <1>4, <2>4, <3>1 DEF Firm
      <4> QED BY <1>1, <1>4, <4>1 DEF Obeyed
    <3>3. \A k \in H : k \notin t.off /\ k \notin s.off
      BY <2>3, <3>1, <3>2
    <3>4. \A z \in Range(p.modifiers) :
            z.name \in H /\ z.modifier.type \in {"disabled", "enabled"} =>
              (Obeyed(z, s) => Obeyed(z, t))
      BY <2>3, <3>3, ObeyedAsBefore DEF Switched
    <3> QED BY <2>3, <2>4, <3>1, <3>3, <3>4 DEF Firm
  <2> QED BY <2>3, <2>4 DEF t
<1> QED BY <1>2, <1>3, <1>4

\* The rest of a cascade's work, with work before it that sets no value.
LEMMA ContinueTame ==
  ASSUME NEW p, NEW K, NEW g, NEW H, NEW c, AllFit(p, c.todo),
         c.todo # <<>>, Tame(p, K, g, H, c),
         NEW first, AllFit(p, first), Own(p, first),
         \A y \in Range(first) : y.do # "patch", NEW t,
         \A k \in K :
           /\ c.form.values[k] = g[k] => t.values[k] = g[k]
           /\ Head(c.todo).do = "patch" /\ Head(c.todo).name = k =>
                t.values[k] = g[k],
         H # {} => Firm(p, H, t)
  PROVE  Tame(p, K, g, H, [todo |-> first \o Tail(c.todo), form |-> t])
<1> DEFINE rest == Tail(c.todo)
           todo == first \o rest
           e == [todo |-> todo, form |-> t]
<1>1. /\ Range(c.todo) = {Head(c.todo)} \union Range(rest)
      /\ Range(todo) = Range(first) \union Range(rest)
  BY RestFacts
<1> HIDE DEF todo, rest
<1>2. e.todo = todo /\ e.form = t
  OBVIOUS
<1> HIDE DEF e
<1>3. Own(p, todo)
  BY <1>1 DEF Own, Tame
<1>4. \A y \in Range(todo) : y.do = "patch" => y.value = g[y.name]
  BY <1>1 DEF Tame
<1>5. ASSUME NEW k \in K
      PROVE  \/ t.values[k] = g[k]
             \/ \E y \in Range(todo) : y.do = "patch" /\ y.name = k
  BY <1>1 DEF Tame
<1>6. H # {} => \A y \in Range(todo) : y.do # "patch"
  BY <1>1 DEF Tame
<1>7. Tame(p, K, g, H, e)
  BY <1>2, <1>3, <1>4, <1>5, <1>6 DEF Tame
<1> QED BY <1>7 DEF e, todo, rest

\* The values of a form after one is set.
LEMMA PutFacts ==
  ASSUME NEW p, NEW n \in Names(p), NEW v, NEW s, Sound(p, s)
  PROVE  \A k \in Names(p) :
           SetValue(p, n, v, s).values[k] = IF k = n THEN v ELSE s.values[k]
<1> DEFINE t == SetValue(p, n, v, s)
<1>1. IsForm(s) /\ Names(p) \subseteq DOMAIN s.values
  BY DEF Sound, Keyed
<1>2. /\ IsForm(t) /\ SameButMarks(s, t) /\ MarkedAgain(p, n, s, t)
      /\ t.values = [s.values EXCEPT ![n] = v]
  BY <1>1, SetValueFacts
<1> HIDE DEF t
<1>3. \A k \in Names(p) : t.values[k] = IF k = n THEN v ELSE s.values[k]
  BY <1>1, <1>2
<1> QED BY <1>3 DEF t

\* Each step of a cascade keeps it tame.
LEMMA StepTame ==
  ASSUME NEW p, PageOK(p), Conditions(p), Switched(p),
         NEW K \in SUBSET Names(p), NEW g, NEW H, NEW c,
         Sound(p, c.form), AllFit(p, c.todo), c.todo # <<>>,
         Tame(p, K, g, H, c)
  PROVE  Tame(p, K, g, H, Step(p, c))
<1> DEFINE y == Head(c.todo)
           s == c.form
<1>1. y \in Range(c.todo) /\ Fits(p, y)
  <2>1. y \in Range(c.todo)
    BY HeadTail DEF AllFit
  <2> QED BY <2>1 DEF AllFit
<1>2. H # {} => Firm(p, H, s) /\ y.do # "patch"
  BY <1>1 DEF Tame
<1>3. CASE IsModify(p, y)
  <2> DEFINE t == Apply(p, y.name, y.modifier, s)
             first == Follows(y.name, y.modifier, s)
  <2>1. Step(p, c) = [todo |-> first \o Tail(c.todo), form |-> t]
    BY <1>3 DEF IsModify, Step
  <2>2. y \in Range(p.modifiers)
    BY <1>1, <1>3 DEF Tame, Own, IsModify
  <2>3. AllFit(p, first)
    BY <1>3, ApplyFacts
  <2>4. \A z \in Range(first) : z.do \in {"announce", "settle"}
    BY FollowsWork
  <2>5. t.values = s.values /\ (\A I : Firm(p, I, s) => Firm(p, I, t))
    BY <2>2, SwitchFacts
  <2> HIDE DEF t, first
  <2>6. Own(p, first) /\ \A z \in Range(first) : z.do # "patch"
    BY <2>4 DEF Own
  <2>7. y.do # "patch"
    BY <1>3 DEF IsModify
  <2> QED BY <1>2, <2>1, <2>3, <2>5, <2>6, <2>7, ContinueTame
<1>4. CASE y.do = "patch" /\ y.name \in Names(p)
  <2> DEFINE t == SetValue(p, y.name, y.value, s)
             first == <<Announce(y.name)>>
  <2>1. Step(p, c) = [todo |-> first \o Tail(c.todo), form |-> t]
    BY <1>4 DEF Step
  <2>2. AllFit(p, first)
    BY <1>4, FollowFit
  <2>3. Own(p, first) /\ \A z \in Range(first) : z.do # "patch"
    <3>1. Announce(y.name).do = "announce"
      BY DEF Announce
    <3>2. Range(first) = {Announce(y.name)}
      BY DEF Range
    <3> QED BY <3>1, <3>2 DEF Own
  <2>4. \A k \in Names(p) :
          t.values[k] = IF k = y.name THEN y.value ELSE s.values[k]
    <3> HIDE DEF y, s
    <3>1. y.name \in Names(p) /\ Sound(p, s)
      BY <1>4 DEF s
    <3> QED BY <3>1, PutFacts
  <2>5. y.value = g[y.name] /\ H = {}
    BY <1>1, <1>2, <1>4 DEF Tame
  <2> HIDE DEF t, first
  <2>7. \A k \in K : /\ s.values[k] = g[k] => t.values[k] = g[k]
                     /\ y.do = "patch" /\ y.name = k => t.values[k] = g[k]
    BY <2>4, <2>5
  <2>8. H # {} => Firm(p, H, t)
    BY <2>5
  <2> HIDE DEF y, s
  <2>9. Tame(p, K, g, H, [todo |-> first \o Tail(c.todo), form |-> t])
    BY <2>2, <2>3, <2>7, <2>8, ContinueTame DEF y, s
  <2> QED BY <2>1, <2>9
<1>5. CASE y.do = "announce" /\ y.name \in Names(p)
  <2> DEFINE w == p.watchers[y.name]
             t == [s EXCEPT !.stale = @ \union w]
             first == p.dependents[y.name]
  <2>1. Step(p, c) = [todo |-> first \o Tail(c.todo), form |-> t]
    BY <1>5 DEF Step
  <2>2. /\ AllFit(p, first) /\ Own(p, first)
        /\ \A z \in Range(first) : z.do # "patch"
    <3>1. /\ first \in Seq(Range(p.modifiers))
          /\ \A z \in Range(p.modifiers) : Fits(p, z) /\ z.do = "modify"
      BY <1>5 DEF PageOK, Fits, IsModify
    <3> HIDE DEF first
    <3>2. /\ first \in Seq(Range(first))
          /\ Range(first) \subseteq Range(p.modifiers)
      BY <3>1, SeqFacts
    <3> QED BY <3>1, <3>2 DEF AllFit, Own
  <2>3. /\ t.values = s.values /\ t.off = s.off /\ t.dirty = s.dirty
        /\ t.changed = s.changed
    <3> HIDE DEF w
    <3> QED BY DEF Sound, IsForm
  <2> HIDE DEF t, first
  <2>4. H # {} => Firm(p, H, t)
    BY <1>2, <2>3, FirmAsBefore DEF Firm
  <2> QED BY <1>5, <2>1, <2>2, <2>3, <2>4, ContinueTame
<1>6. CASE y.do = "settle"
  <2> DEFINE b == AnyDirty(s)
             t == [s EXCEPT !.changed = b]
  <2>1. Step(p, c) = [todo |-> <<>> \o Tail(c.todo), form |-> t]
    BY <1>6 DEF Step
  <2>2. H # {} => b
    BY <1>2 DEF Firm, AnyDirty
  <2> HIDE DEF b
  <2>3. /\ t.values = s.values /\ t.off = s.off /\ t.dirty = s.dirty
        /\ t.changed = b
    BY DEF Sound, IsForm
  <2> HIDE DEF t
  <2>4. /\ AllFit(p, <<>>) /\ Own(p, <<>>)
        /\ \A z \in Range(<<>>) : z.do # "patch"
    BY DEF AllFit, Own, Range
  <2>5. H # {} => Firm(p, H, t)
    BY <1>2, <2>2, <2>3, FirmAsBefore
  <2> QED BY <1>6, <2>1, <2>3, <2>4, <2>5, ContinueTame
<1> QED BY <1>1, <1>3, <1>4, <1>5, <1>6 DEF Fits

\* Eight steps keep it so.
LEMMA EightTame ==
  ASSUME NEW p, PageOK(p), Conditions(p), Switched(p),
         NEW K \in SUBSET Names(p), NEW g, NEW H, NEW D, NEW c,
         Good(p, D, {}, c), Tame(p, K, g, H, c)
  PROVE  Good(p, D, {}, Steps8(p, c)) /\ Tame(p, K, g, H, Steps8(p, c))
<1>1. \A e : Good(p, D, {}, e) /\ Tame(p, K, g, H, e) =>
               Good(p, D, {}, Step1(p, e)) /\ Tame(p, K, g, H, Step1(p, e))
  <2> SUFFICES ASSUME NEW e, Good(p, D, {}, e), Tame(p, K, g, H, e)
               PROVE  /\ Good(p, D, {}, Step1(p, e))
                      /\ Tame(p, K, g, H, Step1(p, e))
    OBVIOUS
  <2>1. CASE e.todo = <<>>
    BY <2>1 DEF Step1
  <2>2. CASE e.todo # <<>>
    <3>1. Step1(p, e) = Step(p, e)
      BY <2>2 DEF Step1
    <3>2. Good(p, D, {}, Step(p, e))
      BY <2>2, StepGood
    <3>3. Tame(p, K, g, H, Step(p, e))
      BY <2>2, StepTame DEF Good
    <3> QED BY <3>1, <3>2, <3>3
  <2> QED BY <2>1, <2>2
<1>2. \A e : Good(p, D, {}, e) /\ Tame(p, K, g, H, e) =>
               Good(p, D, {}, Step2(p, e)) /\ Tame(p, K, g, H, Step2(p, e))
  BY <1>1 DEF Step2
<1> QED BY <1>2 DEF Steps8

\* And so do all the steps of a cascade.
LEMMA RunTame ==
  ASSUME NEW p, PageOK(p), Conditions(p), Switched(p),
         NEW K \in SUBSET Names(p), NEW g, NEW H, NEW D, NEW c,
         Good(p, D, {}, c), Tame(p, K, g, H, c)
  PROVE  Good(p, D, {}, Run(p, c)) /\ Tame(p, K, g, H, Run(p, c))
<1>1. Enough \in Nat
  BY DEF Enough
<1>2. PICK f : /\ Run(p, c) = f[Enough] /\ f[0] = c
              /\ \A n \in Nat : n + 1 <= Enough => f[n + 1] = Steps8(p, f[n])
  BY ONLY RunRounds
<1> DEFINE S == {n \in Nat : n <= Enough =>
                   Good(p, D, {}, f[n]) /\ Tame(p, K, g, H, f[n])}
<1>3. 0 \in S
  BY <1>2
<1>4. ASSUME NEW n \in S PROVE n + 1 \in S
  BY <1>1, <1>2, <1>4, EightTame
<1>5. S = Nat
  <2> HIDE DEF S
  <2>1. S \in SUBSET Nat
    BY DEF S
  <2> QED BY <1>3, <1>4, <2>1, NatSetInduction
<1> QED BY <1>1, <1>2, <1>5

\* When a tame cascade comes to an end, the fields have their values, and a
\* form that was to stay firm counts as changed.
LEMMA CascadeTame ==
  ASSUME NEW p, PageOK(p), Conditions(p), Switched(p),
         NEW s, Sound(p, s), NEW todo, AllFit(p, todo),
         NEW K \in SUBSET Names(p), NEW g, NEW H,
         Tame(p, K, g, H, [todo |-> todo, form |-> s])
  PROVE  LET r == Cascade(p, todo, s) IN
         /\ ~r.endless => \A k \in K : r.form.values[k] = g[k]
         /\ H # {} => H \subseteq r.form.dirty \ r.form.off /\ r.form.changed
<1> DEFINE b == [todo |-> todo, form |-> s]
           c == Run(p, b)
           t == c.form
           z == (t.invalid \ t.stale) \union (Refused(p, t) \cap t.stale)
           u == [t EXCEPT !.invalid = z]
           r == [endless |-> c.todo # <<>>, form |-> u]
           Fine(e) == Good(p, s.dirty, {}, e) /\ Tame(p, K, g, H, e)
<1>1. Cascade(p, todo, s) = r
  BY DEF Cascade
<1>2. b.todo = todo /\ b.form = s /\ Tame(p, K, g, H, b)
  OBVIOUS
<1> HIDE DEF b
<1>3. Fine(b)
  BY <1>2 DEF Good
<1>4. Fine(c)
  BY <1>3, RunTame
<1> HIDE DEF c
<1>5. /\ c.todo = <<>> => \A k \in K : t.values[k] = g[k]
      /\ H # {} => H \subseteq t.dirty \ t.off /\ t.changed
  <2>1. Range(<<>>) = {}
    BY DEF Range
  <2> QED BY <1>4, <2>1 DEF Tame, Firm
<1>6. Sound(p, t)
  BY <1>4 DEF Good
<1> HIDE DEF z, t
<1>7. /\ u.values = t.values /\ u.off = t.off /\ u.dirty = t.dirty
      /\ u.changed = t.changed
  BY <1>6 DEF Sound, IsForm
<1> HIDE DEF u
<1>9. r.form = u /\ (r.endless <=> c.todo # <<>>)
  OBVIOUS
<1> HIDE DEF r
<1> QED BY <1>1, <1>5, <1>7, <1>9

-----------------------------------------------------------------------------
\* The pages.

\* A test of a page's fields reads no property that ConstraintService's
\* getProps does not report: setting another one does not change it.
TestsReported ==
  \A q \in Pages :
    \A f \in Range(Forms[q].fields) :
      \A c \in f.tests \union {f.required} :
        \A Values :
          Reported(c, {g.name : g \in Range(Forms[q].fields)}
                        \union {"_editing"}, Values)

\* The same of the conditions of its modifiers, which are true or false.
ConditionsReported ==
  \A q \in Pages :
    \A f \in Range(Forms[q].fields) :
      \A m \in Range(f.mods) :
        Condition(m.constraint, {g.name : g \in Range(Forms[q].fields)}
                                  \union {"_editing"})

\* The parts of a page are found by their names.
LEMMA FieldFacts ==
  ASSUME NEW q \in Pages
  PROVE  LET fields == Forms[q].fields
             c == Component(q, Forms[q])
         IN  /\ Names(c) = {f.name : f \in Range(fields)}
             /\ c.names \in Seq(Names(c))
             /\ \A n \in Names(c) :
                  /\ c.fields[n] \in Range(fields) /\ c.fields[n].name = n
                  /\ \A g \in Range(fields) : g.name = n => g = c.fields[n]
<1> DEFINE fields == Forms[q].fields
           c == Component(q, Forms[q])
           names == [i \in DOMAIN fields |-> fields[i].name]
           of(n) == CHOOSE i \in DOMAIN fields : names[i] = n
<1>1. /\ fields \in Seq(Range(fields))
      /\ \A i, j \in DOMAIN fields : fields[i].name = fields[j].name => i = j
  BY FieldsAssumption
<1>2. c.names = names /\ c.fields = [n \in Range(names) |-> fields[of(n)]]
  BY DEF Component
<1> HIDE DEF c
<1>3. Range(names) = {f.name : f \in Range(fields)}
  BY DEF Range
<1>4. Names(c) = Range(names)
  BY <1>2 DEF Names
<1>5. names \in Seq(Range(names))
  <2>1. Len(fields) \in Nat /\ DOMAIN fields = 1..Len(fields)
    BY <1>1
  <2>2. \A i \in 1..Len(fields) : names[i] \in Range(names)
    BY <2>1 DEF Range
  <2>3. names = [i \in 1..Len(fields) |-> names[i]]
    BY <2>1
  <2> HIDE DEF names
  <2> QED BY <2>1, <2>2, <2>3
<1>6. ASSUME NEW n \in Range(names)
      PROVE  /\ c.fields[n] \in Range(fields) /\ c.fields[n].name = n
             /\ \A g \in Range(fields) : g.name = n => g = c.fields[n]
  <2>1. \E i \in DOMAIN fields : names[i] = n
    BY DEF Range
  <2>2. of(n) \in DOMAIN fields /\ names[of(n)] = n
    BY <2>1
  <2> HIDE DEF of
  <2>3. c.fields[n] = fields[of(n)]
    BY <1>2
  <2>4. ASSUME NEW g \in Range(fields), g.name = n
        PROVE  g = c.fields[n]
    <3>1. PICK j \in DOMAIN fields : fields[j] = g
      BY DEF Range
    <3>2. j = of(n)
      BY <1>1, <2>2, <2>4, <3>1
    <3> QED BY <2>3, <3>1, <3>2
  <2>5. c.fields[n] \in Range(fields)
    BY <2>2, <2>3 DEF Range
  <2>6. c.fields[n].name = n
    BY <2>2, <2>3
  <2> QED BY <2>4, <2>5, <2>6
<1> HIDE DEF names
<1>7. /\ Names(c) = {f.name : f \in Range(fields)}
      /\ c.names \in Seq(Names(c))
      /\ \A n \in Names(c) :
           /\ c.fields[n] \in Range(fields) /\ c.fields[n].name = n
           /\ \A g \in Range(fields) : g.name = n => g = c.fields[n]
  <2>1. Names(c) = {f.name : f \in Range(fields)}
    BY <1>3, <1>4
  <2>2. c.names \in Seq(Names(c))
    BY <1>2, <1>4, <1>5
  <2> QED BY <1>4, <1>6, <2>1, <2>2
<1> QED BY <1>7 DEF c

\* The modifiers of a page are work on its fields.
LEMMA ModifiersFacts ==
  ASSUME NEW q \in Pages
  PROVE  LET mods == Modifiers(Forms[q].fields) IN
         /\ mods \in Seq(Range(mods))
         /\ \A x \in Range(mods) :
              /\ x.do = "modify" /\ x.modifier.type \in Types
              /\ x.name \in {f.name : f \in Range(Forms[q].fields)}
              /\ \E f \in Range(Forms[q].fields) :
                   x.modifier \in Range(f.mods)
<1> DEFINE fields == Forms[q].fields
           names == {f.name : f \in Range(fields)}
           all == UNION {Range(f.mods) : f \in Range(fields)}
           S == {Modify(n, m) : n \in names, m \in all}
           ss == [i \in DOMAIN fields |->
                    [j \in DOMAIN fields[i].mods |->
                       Modify(fields[i].name, fields[i].mods[j])]]
<1>1. /\ fields \in Seq(Range(fields))
      /\ \A f \in Range(fields) : f.mods \in Seq(Range(f.mods))
      /\ \A f \in Range(fields) : \A m \in Range(f.mods) : m.type \in Types
  BY FieldsAssumption
<1>2. Len(fields) \in Nat /\ DOMAIN fields = 1..Len(fields)
  BY <1>1
<1>3. ASSUME NEW i \in 1..Len(fields)
      PROVE  ss[i] \in Seq(S)
  <2> DEFINE f == fields[i]
             mods == f.mods
  <2>1. f \in Range(fields)
    BY <1>2 DEF Range
  <2>2. Len(mods) \in Nat /\ DOMAIN mods = 1..Len(mods)
    BY <1>1, <2>1
  <2>3. ss[i] = [j \in 1..Len(mods) |-> Modify(f.name, mods[j])]
    BY <1>2, <2>2
  <2>4. ASSUME NEW j \in 1..Len(mods)
        PROVE  Modify(f.name, mods[j]) \in S
    <3>1. mods[j] \in Range(f.mods)
      BY <2>2 DEF Range
    <3>2. mods[j] \in all
      BY <2>1, <3>1
    <3>3. f.name \in names
      BY <2>1
    <3> HIDE DEF all, names, f, mods
    <3> QED BY <3>2, <3>3
  <2> HIDE DEF S, ss, f, mods
  <2> QED BY <2>2, <2>3, <2>4
<1>4. ss = [i \in 1..Len(fields) |-> ss[i]]
  BY <1>2
<1>5. Modifiers(fields) = FlattenSeq(ss)
  BY DEF Modifiers
<1>6. ss \in Seq(Seq(S))
  <2> DEFINE T == Seq(S)
             n == Len(fields)
  <2> HIDE DEF S, ss
  <2>1. /\ n \in Nat /\ ss = [i \in 1..n |-> ss[i]]
        /\ \A i \in 1..n : ss[i] \in T
    BY <1>2, <1>3, <1>4
  <2> HIDE DEF T, n
  <2>2. ss \in Seq(T)
    BY <2>1
  <2> QED BY <2>2 DEF T
<1>7. Modifiers(fields) \in Seq(S)
  <2> HIDE DEF S, ss
  <2> QED BY <1>5, <1>6, FlattenFacts
<1>8. /\ Modifiers(fields) \in Seq(Range(Modifiers(fields)))
      /\ Range(Modifiers(fields)) \subseteq S
  <2> HIDE DEF S
  <2> QED BY <1>7, SeqFacts
<1>9. ASSUME NEW x \in S
      PROVE  /\ x.do = "modify" /\ x.modifier.type \in Types
             /\ x.name \in names
             /\ \E f \in Range(fields) : x.modifier \in Range(f.mods)
  <2>1. PICK n \in names, m \in all : x = Modify(n, m)
    BY <1>9
  <2>2. m.type \in Types /\ \E f \in Range(fields) : m \in Range(f.mods)
    BY <1>1
  <2>3. x.do = "modify" /\ x.modifier = m /\ x.name = n
    BY <2>1 DEF Modify
  <2> HIDE DEF names, all
  <2> QED BY <2>2, <2>3
<1> HIDE DEF S
<1> QED BY <1>8, <1>9

\* A page as its components make it.
Opened(p) ==
  /\ PageOK(p) /\ WatchOK(p) /\ DependOK(p)
  /\ TestsReported => Covers(p)
  /\ ConditionsReported => Conditions(p)

\* Every page is made as the proofs need it.
LEMMA OpenedFacts ==
  ASSUME NEW q \in Pages
  PROVE  Opened(Component(q, Forms[q]))
<1> DEFINE fields == Forms[q].fields
           c == Component(q, Forms[q])
           mods == Modifiers(fields)
           names == [i \in DOMAIN fields |-> fields[i].name]
<1>1. /\ Names(c) = {f.name : f \in Range(fields)}
      /\ c.names \in Seq(Names(c))
      /\ \A n \in Names(c) :
           /\ c.fields[n] \in Range(fields) /\ c.fields[n].name = n
           /\ \A g \in Range(fields) : g.name = n => g = c.fields[n]
  BY FieldFacts
<1>2. /\ mods \in Seq(Range(mods))
      /\ \A x \in Range(mods) :
           /\ x.do = "modify" /\ x.modifier.type \in Types
           /\ x.name \in {f.name : f \in Range(fields)}
           /\ \E f \in Range(fields) : x.modifier \in Range(f.mods)
  BY ModifiersFacts
<1>3. /\ c.names = names /\ c.modifiers = mods
      /\ c.views = ViewFields(names, mods)
      /\ c.submitted \subseteq Range(names)
      /\ c.dependents = [n \in Range(names) |-> Dependents(n, mods)]
      /\ c.watchers = [n \in Range(names) |-> Watchers(n, Range(fields))]
  BY DEF Component
<1> HIDE DEF c, mods, names
<1>4. Names(c) = Range(names)
  BY <1>3 DEF Names
<1>5. "_editing" \notin Names(c)
  BY <1>1, FieldsAssumption
<1>6. c.views \in Seq(Names(c))
  <2> DEFINE T == LET views == {x \in Range(mods) :
                                   x.modifier.type \in {"visible", "hidden"}}
                      IN  UNION {x.modifier.deps : x \in views}
  <2>1. c.views = Only(names, T)
    BY <1>3 DEF ViewFields
  <2> HIDE DEF T
  <2>2. Only(names, T) \in Seq(Names(c) \cap T)
    BY <1>1, <1>3, OnlyFacts
  <2> QED BY <2>1, <2>2, WiderSeq
<1>7. ASSUME NEW n \in Names(c)
      PROVE  c.dependents[n] \in Seq(Range(mods))
  <2> DEFINE T == {x \in Range(mods) : n \in x.modifier.deps \ {x.name}}
  <2>1. c.dependents[n] = Only(mods, T)
    BY <1>3, <1>4 DEF Dependents
  <2> HIDE DEF T
  <2>2. Only(mods, T) \in Seq(Range(mods) \cap T)
    BY <1>2, OnlyFacts
  <2>3. Range(mods) \cap T \subseteq Range(mods)
    OBVIOUS
  <2> QED BY <2>1, <2>2, <2>3, WiderSeq
<1>8. ASSUME NEW n \in Names(c), NEW m
      PROVE  m \in c.watchers[n] <=>
               \E f \in Range(fields) :
                 /\ f.name = m /\ m # n
                 /\ \E k \in f.tests \union {f.required} : n \in Reads(k)
  <2>1. c.watchers[n] = Watchers(n, Range(fields))
    BY <1>3, <1>4
  <2> QED BY <2>1 DEF Watchers
<1>9. \A n \in Names(c) : c.watchers[n] \subseteq Names(c)
  BY <1>1, <1>8
<1>10. PageOK(c)
  <2>1. \A x \in Range(mods) : IsModify(c, x)
    BY <1>1, <1>2 DEF IsModify
  <2>2. /\ c.modifiers \in Seq(Range(c.modifiers))
        /\ \A x \in Range(c.modifiers) : IsModify(c, x)
    BY <1>2, <1>3, <2>1
  <2>3. \A n \in Names(c) : c.dependents[n] \in Seq(Range(c.modifiers))
    BY <1>3, <1>7
  <2>4. c.submitted \subseteq Names(c)
    BY <1>3, <1>4
  <2>5. c.names \in Seq(Names(c))
    BY <1>1
  <2> QED BY <1>5, <1>6, <1>9, <2>2, <2>3, <2>4, <2>5 DEF PageOK
<1>11. WatchOK(c)
  <2> SUFFICES ASSUME NEW n \in Names(c), NEW m \in Names(c)
               PROVE  m \in c.watchers[n] <=>
                        m # n /\ \E k \in TestsOf(c, m) : n \in Reads(k)
    BY DEF WatchOK
  <2> DEFINE f == c.fields[m]
  <2>1. /\ f \in Range(fields) /\ f.name = m
        /\ \A g \in Range(fields) : g.name = m => g = f
    BY <1>1
  <2>2. TestsOf(c, m) = f.tests \union {f.required}
    BY DEF TestsOf
  <2> HIDE DEF f
  <2> QED BY <1>8, <2>1, <2>2
<1>12. TestsReported => Covers(c)
  <2> SUFFICES ASSUME TestsReported, NEW m \in Names(c),
                      NEW k \in TestsOf(c, m), NEW Values
               PROVE  Reported(k, Keyed(c), Values)
    BY DEF Covers
  <2> DEFINE f == c.fields[m]
             keys == {g.name : g \in Range(fields)} \union {"_editing"}
  <2>1. f \in Range(fields) /\ k \in f.tests \union {f.required}
    BY <1>1 DEF TestsOf
  <2>2. keys = Keyed(c)
    BY <1>1 DEF Keyed
  <2> HIDE DEF f
  <2>3. Reported(k, keys, Values)
    BY <2>1 DEF TestsReported
  <2> HIDE DEF keys
  <2> QED BY <2>2, <2>3
<1>14. DependOK(c)
  <2> SUFFICES ASSUME NEW n \in Names(c), NEW x \in Range(mods),
                      n \in x.modifier.deps \ {x.name}
               PROVE  x \in Range(c.dependents[n])
    BY <1>3 DEF DependOK
  <2> DEFINE T == {y \in Range(mods) : n \in y.modifier.deps \ {y.name}}
  <2>1. c.dependents[n] = Only(mods, T) /\ x \in T
    BY <1>3, <1>4 DEF Dependents
  <2> HIDE DEF T
  <2>2. Range(Only(mods, T)) = Range(mods) \cap T
    BY <1>2, OnlyFacts
  <2> QED BY <2>1, <2>2
<1>15. ConditionsReported => Conditions(c)
  <2> SUFFICES ASSUME ConditionsReported, NEW x \in Range(mods)
               PROVE  Condition(x.modifier.constraint, Keyed(c))
    BY <1>3 DEF Conditions
  <2> DEFINE keys == {g.name : g \in Range(fields)} \union {"_editing"}
  <2>1. PICK f \in Range(fields) : x.modifier \in Range(f.mods)
    BY <1>2
  <2>2. keys = Keyed(c)
    BY <1>1 DEF Keyed
  <2>3. Condition(x.modifier.constraint, keys)
    BY <2>1 DEF ConditionsReported
  <2> HIDE DEF keys
  <2> QED BY <2>2, <2>3
<1>13. Opened(c)
  BY <1>10, <1>11, <1>12, <1>14, <1>15 DEF Opened
<1> QED BY <1>13 DEF c

\* What the buttons of a page are, and what it is called.
LEMMA SpecFacts ==
  ASSUME NEW q \in Pages
  PROVE  LET c == Component(q, Forms[q]) IN
         /\ c.name = q /\ c # NoPage
         /\ c.spec.done = Forms[q].done /\ c.spec.done \in STRING
         /\ c.spec.cancel = Forms[q].cancel /\ c.spec.cancel \in STRING
         /\ c.spec.cancel \notin Exempt
<1> DEFINE c == Component(q, Forms[q])
<1>1. c.name = q /\ c.spec = [Forms[q] EXCEPT !.fields = <<>>]
  BY DEF Component
<1>2. c # NoPage
  <2>1. "fields" \in DOMAIN c
    BY DEF Component
  <2>2. "fields" \notin DOMAIN NoPage
    BY DEF NoPage
  <2> HIDE DEF c
  <2> QED BY <2>1, <2>2
<1> HIDE DEF c
<1>3. /\ {"done", "cancel"} \subseteq DOMAIN Forms[q]
      /\ Forms[q].done \in STRING /\ Forms[q].cancel \in STRING
      /\ Forms[q].cancel \notin Exempt
  BY ButtonsAssumption
<1>4. c.spec.done = Forms[q].done /\ c.spec.cancel = Forms[q].cancel
  BY <1>1, <1>3
<1> QED BY <1>1, <1>2, <1>3, <1>4 DEF c

-----------------------------------------------------------------------------
\* How cascades start.

\* A cascade that starts from a form that is current so far is good.
LEMMA GoodStart ==
  ASSUME NEW p, NEW s, Sound(p, s), NEW todo, AllFit(p, todo),
         NEW K \in SUBSET Names(p),
         WatchOK(p) /\ Covers(p) =>
           \A m \in K : Marked(p, m, s) \/ Pending(p, m, todo)
  PROVE  Good(p, s.dirty, K, [todo |-> todo, form |-> s])
<1> DEFINE c == [todo |-> todo, form |-> s]
<1>1. c.todo = todo /\ c.form = s
  OBVIOUS
<1> HIDE DEF c
<1>2. WatchOK(p) /\ Covers(p) => \A m \in K : Current(p, m, c)
  BY <1>1 DEF Current
<1>3. Good(p, s.dirty, K, c)
  BY <1>1, <1>2 DEF Good
<1> QED BY <1>3 DEF c

\* A form whose fields have all been validated.
LEMMA CheckedMarks ==
  ASSUME NEW p, NEW s, s.invalid = Refused(p, s)
  PROVE  \A m \in Names(p) : Marked(p, m, s)
BY DEF Marked, Refused, Names

\* Work on fields of the page, one piece for each name.
LEMMA EachFit ==
  ASSUME NEW p, NEW keys \in Seq(Names(p)), NEW todo,
         todo = [i \in DOMAIN keys |-> todo[i]],
         \A i \in DOMAIN keys :
           \/ todo[i] = Announce(keys[i])
           \/ \E v : todo[i] = Patch(keys[i], v)
  PROVE  AllFit(p, todo)
<1>1. /\ Len(keys) \in Nat /\ DOMAIN keys = 1..Len(keys)
      /\ \A i \in 1..Len(keys) : keys[i] \in Names(p)
  OBVIOUS
<1>2. /\ todo = [i \in 1..Len(keys) |-> todo[i]]
      /\ DOMAIN todo = 1..Len(keys)
  BY <1>1
<1>3. \A i \in 1..Len(keys) : todo[i] \in Range(todo)
  BY <1>2 DEF Range
<1>4. todo \in Seq(Range(todo))
  BY <1>1, <1>2, <1>3
<1>5. ASSUME NEW i \in 1..Len(keys)
      PROVE  Fits(p, todo[i])
  <2>1. CASE todo[i] = Announce(keys[i])
    <3>1. todo[i].do = "announce" /\ todo[i].name = keys[i]
      BY <2>1 DEF Announce
    <3> QED BY <1>1, <3>1 DEF Fits
  <2>2. CASE \E v : todo[i] = Patch(keys[i], v)
    <3>1. todo[i].do = "patch" /\ todo[i].name = keys[i]
      BY <2>2 DEF Patch
    <3> QED BY <1>1, <3>1 DEF Fits
  <2> QED BY <1>1, <2>1, <2>2
<1>6. \A x \in Range(todo) : Fits(p, x)
  BY <1>2, <1>5 DEF Range
<1> QED BY <1>4, <1>6 DEF AllFit

\* Such work applies no modifier.
LEMMA EachOwn ==
  ASSUME NEW p, NEW keys, NEW todo, todo = [i \in DOMAIN keys |-> todo[i]],
         \A i \in DOMAIN keys :
           \/ todo[i] = Announce(keys[i])
           \/ \E v : todo[i] = Patch(keys[i], v)
  PROVE  Own(p, todo)
<1>1. ASSUME NEW i \in DOMAIN keys
      PROVE  todo[i].do \in {"announce", "patch"}
  <2>1. \A n, v : /\ Announce(n).do = "announce"
                  /\ Patch(n, v).do = "patch"
    BY DEF Announce, Patch
  <2> QED BY <2>1
<1>2. \A y \in Range(todo) : y.do \in {"announce", "patch"}
  BY <1>1 DEF Range
<1> QED BY <1>2 DEF Own

\* The form a page starts with.
LEMMA FirstFacts ==
  ASSUME NEW p, PageOK(p), NEW editing
  PROVE  LET r == First(p, editing) IN
         /\ Sound(p, r.form) /\ r.form.dirty = {}
         /\ r.endless \in BOOLEAN
         /\ Measured(p) => ~r.endless
         /\ WatchOK(p) /\ Covers(p) /\ ~r.endless =>
              r.form.invalid = Refused(p, r.form)
         /\ DependOK(p) /\ Conditions(p) /\ ~r.endless =>
              \A x \in Lone(p) : Obeyed(x, r.form)
<1> DEFINE data == [_editing |-> Flag(editing)]
           names == Range(p.names)
           start == [n \in names \union {"_editing"} |->
                       IF n = "_editing" THEN data[n]
                       ELSE IF Satisfies(p.fields[n].route, data)
                       THEN V("route") ELSE p.fields[n].first]
           disabled == {n \in names : Satisfies(p.fields[n].disabled, data)}
           no == FALSE
           s == [values |-> start, off |-> disabled, hidden |-> {},
                 dirty |-> {}, changed |-> no, invalid |-> {},
                 stale |-> {}]
           x == Refused(p, s)
           t == [s EXCEPT !.invalid = x]
           views == [i \in DOMAIN p.views |-> Announce(p.views[i])]
           todo == views \o p.modifiers
<1>1. First(p, editing) = Cascade(p, todo, t)
  BY DEF First
<1>2. start = [n \in Keyed(p) |-> start[n]]
  BY DEF Keyed, Names
<1>3. disabled \subseteq Names(p)
  BY DEF Names
<1>0. ASSUME NEW w, Bounded(p, w) PROVE Total(w, todo) <= 8 * Enough
  BY <1>0 DEF Bounded
<1>4. /\ AllFit(p, todo) /\ Own(p, todo)
      /\ \A y \in Lone(p) : Recalled(y, todo)
  <2>1. p.views \in Seq(Names(p))
    BY DEF PageOK
  <2>2. /\ views = [i \in DOMAIN p.views |-> views[i]]
        /\ \A i \in DOMAIN p.views : views[i] = Announce(p.views[i])
    OBVIOUS
  <2>3. AllFit(p, views) /\ Own(p, views)
    <3> HIDE DEF views
    <3> QED BY <2>1, <2>2, EachFit, EachOwn
  <2>4. AllFit(p, p.modifiers)
    BY DEF PageOK, AllFit, Fits
  <2> HIDE DEF views
  <2>5. /\ AllFit(p, views \o p.modifiers)
        /\ Joins(views \o p.modifiers, views, p.modifiers)
    BY <2>3, <2>4, CatFit
  <2>6. Own(p, todo)
    BY <2>3, <2>5 DEF Own, Joins
  <2>7. \A y \in Lone(p) : Recalled(y, todo)
    BY <2>5 DEF Lone, Switches, Recalled, Recalls, Joins
  <2> QED BY <2>5, <2>6, <2>7
<1> HIDE DEF start, disabled, todo, no
<1>5. t = [values |-> start, off |-> disabled, hidden |-> {},
           dirty |-> {}, changed |-> no, invalid |-> x, stale |-> {}]
  <2> HIDE DEF x
  <2> QED OBVIOUS
<1>6. x \subseteq Names(p) \ disabled
  <2>1. s.off = disabled
    OBVIOUS
  <2> HIDE DEF s
  <2> QED BY <2>1 DEF Refused, Names
<1>7. x = {n \in Names(p) \ disabled : Refuses(p, n, start)}
  BY DEF Refused, Names
<1> HIDE DEF x, t
<1>8. /\ t.values = start /\ t.off = disabled /\ t.hidden = {}
      /\ t.dirty = {} /\ t.changed = no /\ t.invalid = x /\ t.stale = {}
  BY <1>5
<1>9. IsForm(t)
  BY <1>5, <1>8 DEF IsForm
<1>10. Sound(p, t)
  BY <1>2, <1>3, <1>6, <1>8, <1>9 DEF Sound, no
<1>11. t.invalid = Refused(p, t)
  BY <1>7, <1>8 DEF Refused, Names
<1>12. Good(p, t.dirty, Names(p), [todo |-> todo, form |-> t])
  BY <1>4, <1>10, <1>11, CheckedMarks, GoodStart
<1>13. LET r == Cascade(p, todo, t) IN
       /\ Sound(p, r.form) /\ r.form.dirty = t.dirty
       /\ r.endless \in BOOLEAN
       /\ WatchOK(p) /\ Covers(p) /\ ~r.endless =>
            r.form.invalid = Refused(p, r.form)
  BY <1>12, CascadeFacts
<1>14. Measured(p) => ~Cascade(p, todo, t).endless
  BY <1>0, <1>4, <1>10, CascadeMeasured DEF Measured
<1>15. LET r == Cascade(p, todo, t) IN
       DependOK(p) /\ Conditions(p) /\ ~r.endless =>
         \A y \in Lone(p) : Obeyed(y, r.form)
  BY <1>4, <1>10, CascadeRuled
<1> QED BY <1>1, <1>8, <1>13, <1>14, <1>15

-----------------------------------------------------------------------------
\* What is always true of the page that is shown and of its form.

Ways == {"", "saved", "discarded", "lost", "unguarded", "unsent",
         "interrupted"}
Phases == {"closed", "loading", "failed", "ready", "posting", "asking",
           "requesting"}

Built == \E q \in Pages : page = Component(q, Forms[q])

PageInv ==
  /\ phase = "closed" <=> page = NoPage
  /\ page = NoPage =>
       /\ off = {} /\ hidden = {} /\ dirty = {} /\ invalid = {}
       /\ changed = FALSE
  /\ page # NoPage => Built /\ Sound(page, Form)

IInv ==
  /\ at \in STRING /\ left \in Ways /\ phase \in Phases
  /\ dirty \subseteq touched /\ Cardinality(touched) <= MaxTouched
  /\ endless \in BOOLEAN /\ undone \in BOOLEAN
  /\ PageInv

\* Every field is marked as invalid exactly when it is refused.
Checked == page # NoPage => invalid = Refused(page, Form)

\* On a page with a measure, cascades end, and input sticks.
Ends   == page # NoPage /\ Measured(page) => ~endless
Sticks == page # NoPage /\ (\E w : Descends(page, w)) => ~undone

\* Every switch is obeyed.
Commands == page # NoPage => \A x \in Lone(page) : Obeyed(x, Form)

\* What every step keeps: the second and the third part for cascades that come
\* to an end.
Kept ==
  /\ IInv'
  /\ TestsReported /\ Checked /\ ~endless' => Checked'
  /\ ConditionsReported /\ Commands /\ ~endless' => Commands'
  /\ Ends => Ends'
  /\ Sticks => Sticks'

\* The strings that the model itself names.
LEMMA KnownUrls == {"/dashboard", "/login", "/503"} \subseteq STRING
BY RoutesAssumption

\* A page that is open is one that its components have built.
LEMMA OpenPage ==
  ASSUME IInv, phase # "closed"
  PROVE  /\ page # NoPage /\ Opened(page) /\ Sound(page, Form)
         /\ page.spec.done \in STRING /\ page.spec.cancel \in STRING
         /\ page.spec.cancel \notin Exempt
BY OpenedFacts, SpecFacts DEF IInv, PageInv, Built

\* A step that leaves the values and marks as they are keeps the invariant.
LEMMA QuietStep ==
  ASSUME IInv, phase # "closed", phase' \in Phases \ {"closed"},
         dirty' \subseteq dirty, changed' \in BOOLEAN,
         UNCHANGED <<at, page, values, off, hidden, invalid, endless, undone,
                     touched, left>>
  PROVE  Kept
<1>1. /\ page # NoPage /\ Sound(page, Form) /\ Built
      /\ dirty \subseteq touched
      /\ at \in STRING /\ left \in Ways
      /\ Cardinality(touched) <= MaxTouched
      /\ endless \in BOOLEAN /\ undone \in BOOLEAN
  BY OpenPage DEF IInv, PageInv
<1>2. /\ Form.values = values /\ Form.off = off /\ Form.hidden = hidden
      /\ Form.dirty = dirty /\ Form.invalid = invalid /\ Form.stale = {}
  BY DEF Form
<1>3. /\ Form'.values = values' /\ Form'.off = off'
      /\ Form'.hidden = hidden' /\ Form'.dirty = dirty'
      /\ Form'.changed = changed'
      /\ Form'.invalid = invalid' /\ Form'.stale = {}
  BY DEF Form
<1>4. IsForm(Form')
  BY <1>3 DEF IsForm, Form
<1>5. Sound(page, Form')
  BY <1>1, <1>2, <1>3, <1>4 DEF Sound
<1>6. Sound(page, Form)'
  BY <1>5
<1>7. Built'
  BY <1>1 DEF Built
<1>8. PageInv'
  BY <1>1, <1>6, <1>7 DEF PageInv
<1>9. IInv'
  BY <1>1, <1>8 DEF IInv
<1>10. Checked => Checked'
  <2>1. Refused(page, Form') = Refused(page, Form)
    BY <1>2, <1>3 DEF Refused
  <2> QED BY <1>1, <2>1 DEF Checked
<1>11. (Ends => Ends') /\ (Sticks => Sticks')
  BY DEF Ends, Sticks
<1>12. Commands => Commands'
  <2> SUFFICES ASSUME Commands, NEW x \in Lone(page) PROVE Obeyed(x, Form')
    BY DEF Commands
  <2>1. Obeyed(x, Form)
    BY <1>1 DEF Commands
  <2>2. /\ Form'.values = Form.values /\ Form'.off = Form.off
        /\ Form'.hidden = Form.hidden
    BY <1>2, <1>3
  <2> QED BY <2>1, <2>2, ObeyedAsBefore
<1> QED BY <1>9, <1>10, <1>11, <1>12 DEF Kept

\* The page is left.
LEMMA LeaveStep ==
  ASSUME IInv, NEW url \in STRING, NEW how \in Ways, Leave(url, how)
  PROVE  Kept
<1>1. /\ at' \in STRING /\ left' \in Ways /\ phase' = "closed"
      /\ page' = NoPage /\ undone' = FALSE /\ touched' = {}
      /\ off' = {} /\ hidden' = {} /\ dirty' = {} /\ invalid' = {}
      /\ changed' = FALSE /\ endless' = FALSE
  BY DEF Leave, NoForm
<1>2. PageInv'
  BY <1>1 DEF PageInv
<1>3. Cardinality(touched') <= MaxTouched
  BY <1>1, FS_EmptySet, MaxTouchedAssumption
<1>4. IInv'
  BY <1>1, <1>2, <1>3 DEF IInv, Phases
<1> QED BY <1>1, <1>4 DEF Kept, Checked, Commands, Ends, Sticks

\* The form becomes the result of a cascade.
LEMMA BecomesStep ==
  ASSUME NEW p, page' = p, p # NoPage, Built', Opened(p),
         NEW r, Sound(p, r.form), r.endless \in BOOLEAN,
         Checked /\ WatchOK(p) /\ Covers(p) /\ ~r.endless =>
           r.form.invalid = Refused(p, r.form),
         ConditionsReported /\ Commands /\ ~r.endless =>
           \A x \in Lone(p) : Obeyed(x, r.form),
         Measured(p) => ~r.endless, Sticks => Sticks',
         NEW pristine \in BOOLEAN, Becomes(r, pristine),
         phase' \in Phases \ {"closed"}, at' \in STRING, left' \in Ways,
         undone' \in BOOLEAN, r.form.dirty \subseteq touched',
         Cardinality(touched') <= MaxTouched
  PROVE  Kept
<1>1. /\ values' = r.form.values /\ off' = r.form.off
      /\ hidden' = r.form.hidden /\ dirty' \subseteq r.form.dirty
      /\ invalid' = r.form.invalid /\ endless' = r.endless
  BY DEF Becomes
<1>2. changed' \in BOOLEAN
  BY DEF Becomes
<1>3. /\ Form'.values = values' /\ Form'.off = off'
      /\ Form'.hidden = hidden' /\ Form'.dirty = dirty'
      /\ Form'.changed = changed'
      /\ Form'.invalid = invalid' /\ Form'.stale = {}
  BY DEF Form
<1>4. IsForm(Form')
  BY <1>3 DEF IsForm, Form
<1>5. Sound(p, Form')
  BY <1>1, <1>2, <1>3, <1>4 DEF Sound
<1>6. Sound(page, Form)'
  BY <1>5
<1>7. PageInv'
  BY <1>6 DEF PageInv
<1>8. IInv'
  BY <1>1, <1>7 DEF IInv
<1>9. TestsReported /\ Checked /\ ~endless' => Checked'
  <2>1. Refused(p, Form') = Refused(p, r.form)
    BY <1>1, <1>3 DEF Refused
  <2> QED BY <1>1, <2>1 DEF Checked, Opened
<1>10. Ends'
  BY <1>1 DEF Ends
<1>11. ConditionsReported /\ Commands /\ ~endless' => Commands'
  <2> SUFFICES ASSUME ConditionsReported, Commands, ~endless', NEW x \in Lone(p)
               PROVE  Obeyed(x, Form')
    BY DEF Commands
  <2>1. Obeyed(x, r.form)
    BY <1>1
  <2>2. /\ Form'.values = r.form.values /\ Form'.off = r.form.off
        /\ Form'.hidden = r.form.hidden
    BY <1>1, <1>3
  <2> QED BY <2>1, <2>2, ObeyedAsBefore
<1> QED BY <1>8, <1>9, <1>10, <1>11 DEF Kept

-----------------------------------------------------------------------------
\* The actions.

\* A page is opened.
LEMMA OpenStep ==
  ASSUME IInv, NEW r \in FormRoutes, Open(r)
  PROVE  Kept
<1> DEFINE p == Component(r.page, Forms[r.page])
           first == First(p, r.editing)
<1>1. r.page \in Pages /\ r.url \in STRING
  BY RoutesAssumption DEF FormRoutes
<1>2. /\ at' = r.url /\ page' = p /\ phase' \in {"loading", "ready"}
      /\ Becomes(first, FALSE)
      /\ undone' = FALSE /\ touched' = {} /\ left' = ""
  BY DEF Open
<1>3. Opened(p) /\ p # NoPage
  BY <1>1, OpenedFacts, SpecFacts
<1>4. Built'
  BY <1>1, <1>2 DEF Built
<1> HIDE DEF p
<1>5. /\ Sound(p, first.form) /\ first.form.dirty = {}
      /\ first.endless \in BOOLEAN /\ (Measured(p) => ~first.endless)
      /\ WatchOK(p) /\ Covers(p) /\ ~first.endless =>
           first.form.invalid = Refused(p, first.form)
      /\ ConditionsReported /\ ~first.endless =>
           \A x \in Lone(p) : Obeyed(x, first.form)
  BY <1>3, FirstFacts DEF Opened
<1> HIDE DEF first
<1>6. /\ phase' \in Phases \ {"closed"} /\ left' \in Ways
      /\ undone' \in BOOLEAN /\ at' \in STRING
  BY <1>1, <1>2 DEF Phases, Ways
<1>7. Cardinality(touched') <= MaxTouched
  <2>1. touched' = {}
    BY <1>2
  <2> QED BY <2>1, FS_EmptySet, MaxTouchedAssumption
<1>8. first.form.dirty \subseteq touched'
  BY <1>5
<1>9. Sticks'
  BY <1>2 DEF Sticks
<1> QED BY <1>2, <1>3, <1>4, <1>5, <1>6, <1>7, <1>8, <1>9, BecomesStep

\* A cascade in the form of a page that stays open.
LEMMA CascadeStep ==
  ASSUME IInv, phase # "closed", NEW s, Sound(page, s), NEW todo,
         AllFit(page, todo),
         Checked /\ WatchOK(page) /\ Covers(page) =>
           \A m \in Names(page) : Marked(page, m, s) \/ Pending(page, m, todo),
         Own(page, todo),
         ConditionsReported /\ Commands =>
           \A x \in Lone(page) : Obeyed(x, s) \/ Recalled(x, todo),
         \A w : Descends(page, w) /\ Bounded(page, w)
                  => Total(w, todo) <= 8 * Enough,
         Sticks => Sticks',
         NEW pristine \in BOOLEAN, Becomes(Cascade(page, todo, s), pristine),
         UNCHANGED <<at, page, left>>, phase' \in Phases \ {"closed"},
         undone' \in BOOLEAN, s.dirty \subseteq touched',
         Cardinality(touched') <= MaxTouched
  PROVE  Kept
<1> DEFINE r == Cascade(page, todo, s)
<1>1. page # NoPage /\ Opened(page)
  BY OpenPage
<1>2. PageOK(page)
  BY <1>1 DEF Opened
<1>3. \E K \in SUBSET Names(page) :
        /\ Checked => K = Names(page)
        /\ Good(page, s.dirty, K, [todo |-> todo, form |-> s])
  <2>1. CASE Checked
    <3>1. Good(page, s.dirty, Names(page), [todo |-> todo, form |-> s])
      BY <2>1, GoodStart
    <3> QED BY <3>1
  <2>2. CASE ~Checked
    <3>1. Good(page, s.dirty, {}, [todo |-> todo, form |-> s])
      BY GoodStart
    <3> QED BY <2>2, <3>1
  <2> QED BY <2>1, <2>2
<1>4. PICK K \in SUBSET Names(page) :
        /\ Checked => K = Names(page)
        /\ Good(page, s.dirty, K, [todo |-> todo, form |-> s])
  BY <1>3
<1>5. /\ Sound(page, r.form) /\ r.form.dirty = s.dirty
      /\ r.endless \in BOOLEAN
      /\ K = Names(page) /\ WatchOK(page) /\ Covers(page) /\ ~r.endless =>
           r.form.invalid = Refused(page, r.form)
  BY <1>2, <1>4, CascadeFacts
<1>9. Measured(page) => ~r.endless
  BY <1>2, CascadeMeasured DEF Measured
<1>10. ConditionsReported /\ Commands /\ ~r.endless =>
         \A x \in Lone(page) : Obeyed(x, r.form)
  BY <1>1, <1>2, CascadeRuled DEF Opened
<1>6. Becomes(r, pristine)
  OBVIOUS
<1> HIDE DEF r
<1>7. Checked /\ WatchOK(page) /\ Covers(page) /\ ~r.endless =>
        r.form.invalid = Refused(page, r.form)
  BY <1>4, <1>5
<1>8. Built' /\ at' \in STRING /\ left' \in Ways
  BY <1>1 DEF Built, IInv, PageInv
<1> QED BY <1>1, <1>5, <1>6, <1>7, <1>8, <1>9, <1>10, BecomesStep

\* The form as it is, at the start of a cascade.
LEMMA FormFacts ==
  ASSUME IInv, phase # "closed"
  PROVE  /\ Sound(page, Form) /\ Form.dirty = dirty
         /\ Form.values = values /\ Form.off = off
         /\ Checked => \A m \in Names(page) : Marked(page, m, Form)
         /\ Commands => \A x \in Lone(page) : Obeyed(x, Form)
<1>1. page # NoPage /\ Sound(page, Form)
  BY OpenPage
<1>2. /\ Form.dirty = dirty /\ Form.values = values /\ Form.off = off
      /\ Form.invalid = invalid
  BY DEF Form
<1> QED BY <1>1, <1>2, CheckedMarks DEF Checked, Commands

\* A sequence in reverse order has the same elements.
LEMMA ReverseFacts ==
  ASSUME NEW S, NEW s \in Seq(S)
  PROVE  Reverse(s) \in Seq(S) /\ Range(s) \subseteq Range(Reverse(s))
<1>1. /\ Len(s) \in Nat /\ DOMAIN s = 1..Len(s)
      /\ \A i \in 1..Len(s) : s[i] \in S
  OBVIOUS
<1>2. Reverse(s) = [i \in 1..Len(s) |-> s[(Len(s) - i) + 1]]
  BY DEF Reverse
<1>3. \A i \in 1..Len(s) : s[(Len(s) - i) + 1] \in S
  BY <1>1
<1>4. ASSUME NEW i \in 1..Len(s) PROVE s[i] \in Range(Reverse(s))
  <2>1. /\ (Len(s) - i) + 1 \in 1..Len(s)
        /\ (Len(s) - ((Len(s) - i) + 1)) + 1 = i
    BY <1>1
  <2>2. Reverse(s)[(Len(s) - i) + 1] = s[i]
    BY <1>2, <2>1
  <2> QED BY <1>2, <2>1, <2>2 DEF Range
<1>5. Range(s) \subseteq Range(Reverse(s))
  BY <1>1, <1>4 DEF Range
<1> QED BY <1>1, <1>2, <1>3, <1>5

\* What setting values costs does not depend on them.
LEMMA PatchTotal ==
  ASSUME NEW S, NEW keys \in Seq(S), NEW w, NEW stored
  PROVE  Total(w, [i \in DOMAIN keys |-> Patch(keys[i], stored[keys[i]])])
           = Total(w, [i \in DOMAIN keys |-> Patch(keys[i], None)])
<1> DEFINE s == [i \in DOMAIN keys |-> Patch(keys[i], stored[keys[i]])]
           t == [i \in DOMAIN keys |-> Patch(keys[i], None)]
           f == [i \in DOMAIN s |-> Cost(w, s[i])]
           g == [i \in DOMAIN t |-> Cost(w, t[i])]
<1>1. DOMAIN keys = 1..Len(keys) /\ Len(keys) \in Nat
  OBVIOUS
<1>2. Len(s) = Len(keys) /\ Len(t) = Len(keys)
  BY <1>1
<1>3. \A n, v : Cost(w, Patch(n, v)) = 1 + w[n]
  <2> TAKE n, v
  <2>1. Patch(n, v).do = "patch" /\ Patch(n, v).name = n
    BY DEF Patch
  <2> QED BY <2>1 DEF Cost
<1>4. f = [i \in DOMAIN keys |-> 1 + w[keys[i]]]
  BY <1>3
<1>5. g = [i \in DOMAIN keys |-> 1 + w[keys[i]]]
  BY <1>3
<1>6. Total(w, s) = SumUpTo(f, Len(s)) /\ Total(w, t) = SumUpTo(g, Len(t))
  BY DEF Total
<1> HIDE DEF f, g, s, t
<1>7. Total(w, s) = Total(w, t)
  BY <1>2, <1>4, <1>5, <1>6
<1> QED BY <1>7 DEF s, t

\* An object is loaded: its values are set one after the other.
LEMMA LoadStep ==
  ASSUME IInv, NEW sample, NEW keys \in KeyOrders(page), Load(sample, keys)
  PROVE  Kept
<1> DEFINE stored == Stored(page, sample)
           todo == [i \in DOMAIN keys |-> Patch(keys[i], stored[keys[i]])]
<1>1. /\ phase = "loading" /\ phase' = "ready"
      /\ Becomes(Cascade(page, todo, Form), TRUE)
      /\ UNCHANGED <<at, page, undone, touched, left>>
  BY DEF Load
<1>2. phase # "closed"
  BY <1>1
<1>3. PageOK(page)
  BY <1>2, OpenPage DEF Opened
<1>4. keys \in Seq(Names(page))
  <2>1. page.names \in Seq(Names(page))
    BY <1>3 DEF PageOK
  <2>2. Only(page.names, page.submitted)
          \in Seq(Names(page) \cap page.submitted)
    BY <2>1, OnlyFacts
  <2>3. Keys(page) \in Seq(Names(page))
    BY <2>2, WiderSeq DEF Keys
  <2> QED BY <2>3, ReverseFacts DEF KeyOrders
<1>5. AllFit(page, todo) /\ Own(page, todo)
  <2>1. /\ todo = [i \in DOMAIN keys |-> todo[i]]
        /\ \A i \in DOMAIN keys : \E v : todo[i] = Patch(keys[i], v)
    <3> HIDE DEF stored
    <3> QED OBVIOUS
  <2> HIDE DEF todo
  <2> QED BY <1>4, <2>1, EachFit, EachOwn
<1>8. ASSUME NEW w, Bounded(page, w) PROVE Total(w, todo) <= 8 * Enough
  <2> DEFINE none == [i \in DOMAIN keys |-> Patch(keys[i], None)]
  <2>1. Total(w, none) <= 8 * Enough
    BY <1>8 DEF Bounded
  <2>2. Total(w, todo) = Total(w, none)
    BY <1>4, PatchTotal
  <2> QED BY <2>1, <2>2
<1> HIDE DEF todo
<1>6. /\ Sound(page, Form) /\ Form.dirty = dirty
      /\ Checked => \A m \in Names(page) : Marked(page, m, Form)
      /\ Commands => \A x \in Lone(page) : Obeyed(x, Form)
  BY <1>2, FormFacts
<1>7. /\ phase' \in Phases \ {"closed"} /\ undone' \in BOOLEAN
      /\ Form.dirty \subseteq touched' /\ Cardinality(touched') <= MaxTouched
  BY <1>1, <1>6 DEF Phases, IInv
<1>9. Sticks => Sticks'
  BY <1>1 DEF Sticks
<1> QED BY <1>1, <1>2, <1>5, <1>6, <1>7, <1>8, <1>9, CascadeStep

\* Announcing some fields costs no more than announcing all.
LEMMA AnnounceTotal ==
  ASSUME NEW p, NEW w, Weights(p, w), NEW s \in Seq(Names(p)), NEW T
  PROVE  LET all  == [i \in DOMAIN s |-> Announce(s[i])]
             some == [i \in DOMAIN Only(s, T) |-> Announce(Only(s, T)[i])]
         IN  /\ Total(w, some) \in Int /\ Total(w, all) \in Int
             /\ Total(w, some) <= Total(w, all)
             /\ \A n \in Range(s) : w[n] <= Total(w, all)
<1>1. \A n : Cost(w, Announce(n)) = w[n]
  <2> TAKE n
  <2>1. Announce(n).do = "announce" /\ Announce(n).name = n
    BY DEF Announce
  <2> QED BY <2>1 DEF Cost
<1>2. ASSUME NEW t \in Seq(Names(p))
      PROVE  LET f == [i \in DOMAIN t |-> w[t[i]]] IN
             /\ Total(w, [i \in DOMAIN t |-> Announce(t[i])]) = SumUpTo(f, Len(t))
             /\ SumUpTo(f, Len(t)) \in Nat
             /\ \A i \in DOMAIN t : f[i] \in Nat /\ f[i] <= SumUpTo(f, Len(t))
  <2> DEFINE f == [i \in DOMAIN t |-> w[t[i]]]
             a == [i \in DOMAIN t |-> Announce(t[i])]
             g == [i \in DOMAIN a |-> Cost(w, a[i])]
  <2>1. DOMAIN t = 1..Len(t) /\ Len(t) \in Nat /\ \A i \in DOMAIN t : t[i] \in Names(p)
    OBVIOUS
  <2>2. Len(a) = Len(t) /\ DOMAIN a = DOMAIN t
    BY <2>1
  <2>3. g = f
    BY <1>1, <2>2
  <2>4. Total(w, a) = SumUpTo(g, Len(a))
    BY DEF Total
  <2>5. \A i \in 1..Len(t) : f[i] \in Nat
    BY <2>1 DEF Weights
  <2> HIDE DEF f, g, a
  <2>6. SumUpTo(f, Len(t)) \in Nat /\ \A i \in 1..Len(t) : f[i] <= SumUpTo(f, Len(t))
    BY <2>1, <2>5, SumNat
  <2> QED BY <2>1, <2>2, <2>3, <2>4, <2>5, <2>6 DEF f, a
<1> DEFINE o == Only(s, T)
           f == [i \in DOMAIN s |-> w[s[i]]]
           g == [i \in DOMAIN o |-> w[o[i]]]
<1>3. o \in Seq(Names(p))
  <2>1. o \in Seq(Names(p) \intersect T)
    BY OnlyFacts
  <2>2. Names(p) \intersect T \subseteq Names(p)
    OBVIOUS
  <2> QED BY <2>1, <2>2, WiderSeq
<1>4. SumUpTo(g, Len(o)) <= SumUpTo(f, Len(s))
  <2>1. \A i \in DOMAIN s : f[i] \in Nat
    BY <1>2
  <2>2. \A k \in DOMAIN o : \A i \in DOMAIN s : o[k] = s[i] => g[k] = f[i]
    OBVIOUS
  <2> HIDE DEF f, g
  <2> QED BY <2>1, <2>2, SumOnly
<1>5. \A n \in Range(s) : w[n] <= SumUpTo(f, Len(s))
  BY <1>2 DEF Range
<1>6. /\ Total(w, [i \in DOMAIN s |-> Announce(s[i])]) = SumUpTo(f, Len(s))
      /\ SumUpTo(f, Len(s)) \in Nat
  BY <1>2
<1> HIDE DEF o
<1>7. /\ Total(w, [i \in DOMAIN o |-> Announce(o[i])]) = SumUpTo(g, Len(o))
      /\ SumUpTo(g, Len(o)) \in Nat
  BY <1>2, <1>3
<1> HIDE DEF f, g
<1> QED BY <1>4, <1>5, <1>6, <1>7 DEF o

\* An invalid form is not sent: its invalid fields announce themselves.
LEMMA RefuseStep ==
  ASSUME IInv, Refuse
  PROVE  Kept
<1> DEFINE again == Only(page.names, invalid)
           todo == [i \in DOMAIN again |-> Announce(again[i])]
<1>1. /\ phase = "ready" /\ undone' = FALSE
      /\ Becomes(Cascade(page, todo, Form), FALSE)
      /\ UNCHANGED <<at, page, phase, touched, left>>
  BY DEF Refuse, MaySubmit
<1>2. phase # "closed"
  BY <1>1
<1>3. PageOK(page)
  BY <1>2, OpenPage DEF Opened
<1>4. again \in Seq(Names(page))
  <2>1. page.names \in Seq(Names(page))
    BY <1>3 DEF PageOK
  <2>2. again \in Seq(Names(page) \cap invalid)
    BY <2>1, OnlyFacts
  <2> HIDE DEF again
  <2> QED BY <2>2, WiderSeq
<1>5. AllFit(page, todo) /\ Own(page, todo)
  <2> HIDE DEF again
  <2>1. /\ todo = [i \in DOMAIN again |-> todo[i]]
        /\ \A i \in DOMAIN again : todo[i] = Announce(again[i])
    OBVIOUS
  <2> HIDE DEF todo
  <2> QED BY <1>4, <2>1, EachFit, EachOwn
<1>8. ASSUME NEW w, Descends(page, w), Bounded(page, w)
      PROVE  Total(w, todo) <= 8 * Enough
  <2> DEFINE all == [i \in DOMAIN page.names |-> Announce(page.names[i])]
  <2>1. Total(w, all) <= 8 * Enough
    BY <1>8 DEF Bounded
  <2>2. Weights(page, w) /\ page.names \in Seq(Names(page))
    BY <1>3, <1>8 DEF Descends, Weights, Names, PageOK
  <2>3. /\ Total(w, todo) \in Int /\ Total(w, all) \in Int
        /\ Total(w, todo) <= Total(w, all)
    BY <2>2, AnnounceTotal
  <2>4. 8 * Enough \in Int
    BY DEF Enough
  <2> HIDE DEF all, todo
  <2> QED BY <2>1, <2>3, <2>4
<1> HIDE DEF todo
<1>6. /\ Sound(page, Form) /\ Form.dirty = dirty
      /\ Checked => \A m \in Names(page) : Marked(page, m, Form)
      /\ Commands => \A x \in Lone(page) : Obeyed(x, Form)
  BY <1>2, FormFacts
<1>7. /\ phase' \in Phases \ {"closed"} /\ undone' \in BOOLEAN
      /\ Form.dirty \subseteq touched' /\ Cardinality(touched') <= MaxTouched
  BY <1>1, <1>6 DEF Phases, IInv
<1>9. Sticks'
  BY <1>1 DEF Sticks
<1> QED BY <1>1, <1>2, <1>5, <1>6, <1>7, <1>8, <1>9, CascadeStep

\* The form with one more field that the user has changed.
LEMMA TouchFacts ==
  ASSUME IInv, phase # "closed", NEW n \in Names(page)
  PROVE  LET s == [Form EXCEPT !.dirty = @ \union {n}, !.changed = TRUE] IN
         /\ Sound(page, s) /\ s.dirty = dirty \union {n}
         /\ Checked => \A m \in Names(page) : Marked(page, m, s)
         /\ Commands => \A y \in Lone(page) : Obeyed(y, s)
<1> DEFINE x == dirty \union {n}
           b == TRUE
           u == [Form EXCEPT !.dirty = x, !.changed = b]
<1>1. [Form EXCEPT !.dirty = @ \union {n}, !.changed = TRUE] = u
  BY DEF Form
<1>2. b \in BOOLEAN
  OBVIOUS
<1>3. /\ Form.values = values /\ Form.off = off /\ Form.hidden = hidden
      /\ Form.dirty = dirty /\ Form.invalid = invalid /\ Form.stale = {}
  BY DEF Form
<1> HIDE DEF x, b
<1>4. u = [values |-> values, off |-> off, hidden |-> hidden, dirty |-> x,
           changed |-> b, invalid |-> invalid, stale |-> {}]
  <2> DEFINE f == Form
  <2>1. f = [values |-> values, off |-> off, hidden |-> hidden,
             dirty |-> dirty, changed |-> changed, invalid |-> invalid,
             stale |-> {}]
    BY DEF Form
  <2>2. u = [f EXCEPT !.dirty = x, !.changed = b]
    OBVIOUS
  <2> HIDE DEF f, u
  <2>3. u = [[f EXCEPT !.dirty = x] EXCEPT !.changed = b]
    BY <2>2
  <2> QED BY <2>1, <2>3
<1> HIDE DEF u
<1>5. /\ u.values = values /\ u.off = off /\ u.hidden = hidden
      /\ u.dirty = x /\ u.changed = b /\ u.invalid = invalid
      /\ u.stale = {}
  BY <1>4
<1>6. IsForm(u)
  BY <1>4, <1>5 DEF IsForm
<1>7. /\ Sound(page, Form)
      /\ Checked => \A m \in Names(page) : Marked(page, m, Form)
  BY FormFacts
<1>8. x \subseteq Names(page)
  BY <1>3, <1>7 DEF x, Sound
<1>9. Sound(page, u)
  BY <1>2, <1>3, <1>5, <1>6, <1>7, <1>8 DEF Sound
<1>10. Checked => \A m \in Names(page) : Marked(page, m, u)
  BY <1>3, <1>5, <1>7 DEF Marked
<1>11. u.dirty = dirty \union {n}
  BY <1>5 DEF x
<1>12. Commands => \A y \in Lone(page) : Obeyed(y, u)
  <2> SUFFICES ASSUME Commands, NEW y \in Lone(page) PROVE Obeyed(y, u)
    OBVIOUS
  <2>1. Obeyed(y, Form)
    BY FormFacts
  <2> QED BY <1>3, <1>5, <2>1, ObeyedAsBefore
<1> QED BY <1>1, <1>9, <1>10, <1>11, <1>12

\* The user changes a field, and the modifiers that depend on it run.
LEMMA EditStep ==
  ASSUME IInv, NEW n \in DOMAIN values \ {"_editing"}, NEW v, Edit(n, v)
  PROVE  Kept
<1> DEFINE u == [Form EXCEPT !.dirty = @ \union {n}, !.changed = TRUE]
           s == SetValue(page, n, v, u)
           todo == <<Announce(n)>>
           r == Cascade(page, todo, s)
<1>1. /\ phase = "ready" /\ Becomes(r, FALSE)
      /\ undone' = (r.form.values[n] # v)
      /\ touched' = touched \union {n}
      /\ Cardinality(touched \union {n}) <= MaxTouched
      /\ UNCHANGED <<at, page, phase, left>>
  BY DEF Edit
<1>2. phase # "closed"
  BY <1>1
<1>3. PageOK(page)
  BY <1>2, OpenPage DEF Opened
<1>4. n \in Names(page)
  <2>1. Sound(page, Form) /\ Form.values = values
    BY <1>2, FormFacts
  <2>2. DOMAIN values = Keyed(page)
    BY <2>1 DEF Sound
  <2> QED BY <2>2 DEF Keyed
<1>5. /\ Sound(page, u) /\ u.dirty = dirty \union {n}
      /\ Checked => \A m \in Names(page) : Marked(page, m, u)
      /\ Commands => \A x \in Lone(page) : Obeyed(x, u)
  BY <1>2, <1>4, TouchFacts
<1> HIDE DEF u
<1>6. Changes(page, n, u, s)
  BY <1>4, <1>5, SetValueChanges
<1>14. s = SetValue(page, n, v, u)
  OBVIOUS
<1> HIDE DEF s
<1>7. Sound(page, s) /\ Marked(page, n, s) /\ s.dirty = dirty \union {n}
  BY <1>3, <1>4, <1>5, <1>6, ChangeFacts DEF Changes
<1>8. AllFit(page, todo) /\ Announce(n) \in Range(todo)
  BY <1>4, FollowFit
<1>16. Own(page, todo)
  <2>1. Announce(n).do = "announce" /\ Range(todo) = {Announce(n)}
    BY DEF Announce, Range
  <2> QED BY <2>1 DEF Own
<1>11. \A w : \A x \in Range(todo) : Cost(w, x) = w[n]
  <2>1. Announce(n).do = "announce" /\ Announce(n).name = n
    BY DEF Announce
  <2>2. \A w : Cost(w, Announce(n)) = w[n]
    BY <2>1 DEF Cost
  <2>3. Range(todo) = {Announce(n)}
    BY DEF Range
  <2> QED BY <2>2, <2>3
<1>12. ASSUME NEW w, Descends(page, w), Bounded(page, w)
       PROVE  Total(w, todo) <= 8 * Enough
  <2> DEFINE all == [i \in DOMAIN page.names |-> Announce(page.names[i])]
  <2>1. Total(w, all) <= 8 * Enough
    BY <1>12 DEF Bounded
  <2>2. Weights(page, w) /\ page.names \in Seq(Names(page))
    BY <1>3, <1>12 DEF Descends, Weights, Names, PageOK
  <2>3. Total(w, all) \in Int /\ w[n] <= Total(w, all)
    BY <1>4, <2>2, AnnounceTotal DEF Names
  <2>4. Total(w, todo) = w[n]
    <3>1. Fits(page, Announce(n))
      BY <1>8 DEF AllFit
    <3>2. Total(w, todo) = Cost(w, Announce(n))
      BY <2>2, <3>1, TotalOne
    <3> QED BY <1>8, <1>11, <3>2
  <2>5. 8 * Enough \in Int /\ w[n] \in Int
    BY <1>4, <2>2 DEF Enough, Weights
  <2> HIDE DEF all, todo
  <2> QED BY <2>1, <2>3, <2>4, <2>5
<1>13. s.values[n] = v
  <2>1. IsForm(u) /\ n \in DOMAIN u.values
    BY <1>4, <1>5 DEF Sound, Keyed
  <2>2. SetValue(page, n, v, u).values = [u.values EXCEPT ![n] = v]
    BY <2>1, SetValueFacts
  <2> QED BY <1>14, <2>1, <2>2
<1>15. Sticks'
  <2> SUFFICES ASSUME NEW w, Descends(page, w) PROVE ~undone'
    BY <1>1 DEF Sticks
  <2>1. \A x \in Range(todo) : Cost(w, x) <= w[n]
    <3>1. w[n] \in Nat
      BY <1>4 DEF Descends, Names
    <3> HIDE DEF todo
    <3> QED BY <1>11, <3>1
  <2> HIDE DEF todo
  <2>2. r.form.values[n] = s.values[n]
    BY <1>3, <1>4, <1>7, <1>8, <2>1, CascadeMeasured
  <2> QED BY <1>1, <1>13, <2>2
<1> HIDE DEF todo
<1>9. ASSUME Checked, WatchOK(page), Covers(page), NEW m \in Names(page)
      PROVE  Marked(page, m, s) \/ Pending(page, m, todo)
  <2>1. CASE m = n
    BY <1>7, <2>1
  <2>2. CASE m \in page.watchers[n]
    <3>1. Announce(n).do = "announce" /\ Announce(n).name = n
      BY DEF Announce
    <3> QED BY <1>8, <2>2, <3>1 DEF Pending
  <2>3. CASE m \notin {n} \union page.watchers[n]
    BY <1>3, <1>4, <1>5, <1>6, <1>9, <2>3, ChangeFacts
  <2> QED BY <2>1, <2>2, <2>3
<1>10. /\ phase' \in Phases \ {"closed"} /\ undone' \in BOOLEAN
       /\ s.dirty \subseteq touched' /\ Cardinality(touched') <= MaxTouched
  <2>1. phase' \in Phases \ {"closed"}
    BY <1>1 DEF Phases
  <2>2. undone' \in BOOLEAN
    BY <1>1
  <2>3. s.dirty \subseteq touched'
    BY <1>1, <1>7 DEF IInv
  <2>4. Cardinality(touched') <= MaxTouched
    BY <1>1
  <2> QED BY <2>1, <2>2, <2>3, <2>4
<1>17. ConditionsReported /\ Commands =>
         \A x \in Lone(page) : Obeyed(x, s) \/ Recalled(x, todo)
  <2> SUFFICES ASSUME ConditionsReported, Commands, NEW x \in Lone(page)
               PROVE  Obeyed(x, s) \/ Recalled(x, todo)
    OBVIOUS
  <2>1. Conditions(page)
    BY <1>2, OpenPage DEF Opened
  <2> QED BY <1>4, <1>5, <1>8, <1>14, <2>1, ValueObeyed
<1> QED BY <1>1, <1>2, <1>7, <1>8, <1>9, <1>10, <1>12, <1>15, <1>16, <1>17,
           CascadeStep

-----------------------------------------------------------------------------
\* Every step.

\* No step breaks the invariant, nor, if the tests are reported and the
\* cascade comes to an end, the marks.
LEMMA NextStep ==
  ASSUME IInv, [Next]_vars
  PROVE  Kept
<1>1. CASE \E r \in FormRoutes : Open(r)
  BY <1>1, OpenStep
<1>2. CASE \E sample \in UNION {p.spec.samples : p \in Showing},
              keys \in UNION {KeyOrders(p) : p \in Showing} :
              Load(sample, keys)
  <2>1. PICK sample, keys :
          /\ keys \in UNION {KeyOrders(p) : p \in Showing}
          /\ Load(sample, keys)
    BY <1>2
  <2>2. keys \in KeyOrders(page)
    BY <2>1 DEF Showing
  <2> QED BY <2>1, <2>2, LoadStep
<1>3. CASE LoadFails
  BY <1>3, QuietStep DEF LoadFails, form, Phases, IInv, PageInv, Sound, Form
<1>4. CASE \E n \in DOMAIN values \ {"_editing"} :
             \E v \in page.inputs[n] : Edit(n, v)
  BY <1>4, EditStep
<1>5. CASE Refuse
  BY <1>5, RefuseStep
<1>6. CASE Submit
  <2>1. phase = "ready" /\ phase' = "posting"
    BY <1>6 DEF Submit, MaySubmit
  <2>2. changed \in BOOLEAN
    BY <2>1, OpenPage DEF Sound, Form
  <2>3. dirty' \subseteq dirty /\ changed' \in BOOLEAN
    BY <1>6, <2>2 DEF Submit
  <2>4. UNCHANGED <<at, page, values, off, hidden, invalid, endless, undone,
                    touched, left>>
    BY <1>6 DEF Submit
  <2> QED BY <2>1, <2>3, <2>4, QuietStep DEF Phases
<1>7. ASSUME Saved, phase \in {"posting", "asking"},
             phase' \in {"asking", "ready"}
      PROVE  Kept
  <2>1. dirty' \subseteq dirty /\ changed' \in BOOLEAN
    BY <1>7 DEF Saved
  <2>2. UNCHANGED <<at, page, values, off, hidden, invalid, endless, undone,
                    touched, left>>
    BY <1>7 DEF Saved
  <2>3. phase # "closed" /\ phase' \in Phases \ {"closed"}
    BY <1>7 DEF Phases
  <2> QED BY <2>1, <2>2, <2>3, QuietStep
<1>8. CASE PostSucceeds
  <2>1. phase = "posting"
    BY <1>8 DEF PostSucceeds
  <2>2. CASE Saved /\ phase' \in {"asking", "ready"}
    BY <1>7, <2>1, <2>2
  <2>3. CASE Leave(page.spec.done, "saved")
    <3>1. page.spec.done \in STRING /\ "saved" \in Ways
      BY <2>1, OpenPage DEF Ways
    <3> QED BY <2>3, <3>1, LeaveStep
  <2> QED BY <1>8, <2>2, <2>3 DEF PostSucceeds
<1>9. ASSUME phase # "closed", phase' \in Phases \ {"closed"},
             UNCHANGED <<at, page, form, undone, touched, left>>
      PROVE  Kept
  <2>1. changed \in BOOLEAN
    BY <1>9, OpenPage DEF Sound, Form
  <2>2. UNCHANGED <<at, page, values, off, hidden, invalid, endless, undone,
                    touched, left>> /\ dirty' = dirty /\ changed' = changed
    BY <1>9 DEF form
  <2> QED BY <1>9, <2>1, <2>2, QuietStep
<1>10. CASE PostFails
  BY <1>9, <1>10 DEF PostFails, Phases
<1>11. CASE Answer
  BY <1>9, <1>11 DEF Answer, Phases
<1>12. CASE RequestSucceeds
  <2>1. phase = "requesting" /\ Leave(page.spec.done, "saved")
    BY <1>12 DEF RequestSucceeds
  <2>2. page.spec.done \in STRING /\ "saved" \in Ways
    BY <2>1, OpenPage DEF Ways
  <2> QED BY <2>1, <2>2, LeaveStep
<1>13. CASE RequestFails
  BY <1>9, <1>13 DEF RequestFails, Phases
<1>14. CASE \E url \in Targets : Navigate(url)
  <2>1. PICK url \in Targets : Navigate(url)
    BY <1>14
  <2>2. phase # "closed"
    BY <2>1 DEF Navigate
  <2>3. url \in STRING
    BY <2>2, OpenPage, KnownUrls DEF Targets
  <2>4. \E how \in Ways : Leave(url, how)
    BY <2>1 DEF Navigate, Ways
  <2> QED BY <2>3, <2>4, LeaveStep
<1>15. CASE \E url \in {"/login", "/503"} : Interrupted(url)
  <2>1. PICK url \in {"/login", "/503"} : Interrupted(url)
    BY <1>15
  <2>2. url \in STRING /\ "interrupted" \in Ways
    BY <2>1, KnownUrls DEF Ways
  <2> QED BY <2>1, <2>2, LeaveStep DEF Interrupted
<1>16. CASE UNCHANGED vars
  <2>1. CASE phase = "closed"
    BY <1>16, <2>1
    DEF Kept, IInv, PageInv, Checked, Commands, Built, Ends, Sticks, vars, form
  <2>2. CASE phase # "closed"
    BY <1>9, <1>16, <2>2 DEF vars, IInv
  <2> QED BY <2>1, <2>2
<1> QED BY <1>1, <1>2, <1>3, <1>4, <1>5, <1>6, <1>8, <1>10, <1>11, <1>12,
           <1>13, <1>14, <1>15, <1>16 DEF Next

-----------------------------------------------------------------------------
\* The theorems.

\* No page is open at first.
LEMMA InitInv == Init => IInv /\ Checked /\ Commands /\ Ends /\ Sticks
<1> SUFFICES ASSUME Init
             PROVE  IInv /\ Checked /\ Commands /\ Ends /\ Sticks
  OBVIOUS
<1>1. /\ at = "/dashboard" /\ page = NoPage /\ phase = "closed"
      /\ off = {} /\ hidden = {} /\ dirty = {} /\ changed = FALSE
      /\ invalid = {} /\ endless = FALSE /\ undone = FALSE
      /\ touched = {} /\ left = "saved"
  BY DEF Init
<1>2. PageInv
  BY <1>1 DEF PageInv
<1>3. Cardinality(touched) <= MaxTouched
  <2>1. touched = {}
    BY <1>1
  <2> QED BY <2>1, FS_EmptySet, MaxTouchedAssumption
<1>4. IInv
  BY <1>1, <1>2, <1>3, KnownUrls DEF IInv, Ways, Phases
<1> QED BY <1>1, <1>4 DEF Checked, Commands, Ends, Sticks

\* The inductive invariant holds always.
LEMMA Invariant == Spec => []IInv
<1>1. Init => IInv
  BY InitInv
<1>2. IInv /\ [Next]_vars => IInv'
  BY NextStep DEF Kept
<1> QED BY <1>1, <1>2, PTL DEF Spec

\* It implies the types.
LEMMA InvTyped == IInv => TypeOK
<1> SUFFICES ASSUME IInv PROVE TypeOK
  OBVIOUS
<1>1. page.name \in Pages \union {""}
  <2>1. CASE page = NoPage
    BY <2>1 DEF NoPage
  <2>2. CASE page # NoPage
    BY <2>2, SpecFacts DEF IInv, PageInv, Built
  <2> QED BY <2>1, <2>2
<1>2. /\ off \union hidden \union dirty \union invalid \subseteq DOMAIN values
      /\ invalid \intersect off = {} /\ changed \in BOOLEAN
  <2>1. CASE page = NoPage
    BY <2>1 DEF IInv, PageInv
  <2>2. CASE page # NoPage
    <3>1. Sound(page, Form)
      BY <2>2 DEF IInv, PageInv
    <3>2. /\ Form.values = values /\ Form.off = off /\ Form.hidden = hidden
          /\ Form.dirty = dirty /\ Form.invalid = invalid
          /\ Form.changed = changed
      BY DEF Form
    <3>3. DOMAIN values = Keyed(page)
      BY <3>1, <3>2 DEF Sound
    <3>4. changed \in BOOLEAN
      BY <3>1, <3>2 DEF Sound
    <3>5. /\ off \union hidden \union dirty \union invalid \subseteq Names(page)
          /\ invalid \intersect off = {}
      BY <3>1, <3>2 DEF Sound
    <3> QED BY <3>3, <3>4, <3>5 DEF Keyed
  <2> QED BY <2>1, <2>2
<1> QED BY <1>1, <1>2 DEF TypeOK, IInv, PageInv, Ways, Phases

\* Types: what a form says about its fields is said of fields it has, and no
\* disabled field is ever marked as invalid, whatever the modifiers do.
THEOREM TypeCorrect == Spec => []TypeOK
BY Invariant, InvTyped, PTL

\* Validity (FormComponent, CustomValidators): although a validator that
\* reads other fields runs again only when a property that getProps reports
\* has changed, no field is ever shown as valid when it is not, or the other
\* way round, if the tests read no other property and the modifiers come to
\* an end.
THEOREM ValidityAlwaysCurrent ==
  ASSUME TestsReported
  PROVE  Spec /\ []CascadesEnd => []ValidityIsCurrent
<1>1. Init => Checked
  BY InitInv
<1>2. IInv /\ Checked /\ CascadesEnd' /\ [Next]_vars => Checked'
  BY NextStep DEF Kept, CascadesEnd
<1>3. IInv /\ Checked => ValidityIsCurrent
  <2> SUFFICES ASSUME IInv, Checked, phase \in {"ready", "posting"}
               PROVE  invalid = Refused(page, Form)
    BY DEF ValidityIsCurrent
  <2>1. page # NoPage
    BY OpenPage
  <2> QED BY <2>1 DEF Checked
<1> QED BY <1>1, <1>2, <1>3, Invariant, PTL DEF Spec

\* The same for what matters to the backend: a form is sent only when the
\* validators of all its enabled fields accept their current values.
SendsOnlyValid ==
  [][phase # "posting" /\ phase' = "posting" => Refused(page, Form) = {}]_vars

\* Only valid forms are sent (SubmitButtonComponent::onSubmit).
THEOREM OnlyValidSent ==
  ASSUME TestsReported
  PROVE  Spec /\ []CascadesEnd => SendsOnlyValid
<1>1. Spec /\ []CascadesEnd => []ValidityIsCurrent
  BY ValidityAlwaysCurrent
<1>2. ValidityIsCurrent /\ [Next]_vars =>
        [phase # "posting" /\ phase' = "posting" =>
           Refused(page, Form) = {}]_vars
  <2> SUFFICES ASSUME ValidityIsCurrent, Next,
                      phase # "posting", phase' = "posting"
               PROVE  Refused(page, Form) = {}
    OBVIOUS
  <2>1. Submit
    BY DEF Next, Open, Load, LoadFails, Edit, Refuse, PostSucceeds, PostFails,
           Answer, RequestSucceeds, RequestFails, Navigate, Interrupted, Leave
  <2>2. phase = "ready" /\ invalid = {}
    BY <2>1 DEF Submit, MaySubmit
  <2> QED BY <2>2 DEF ValidityIsCurrent
<1> QED BY <1>1, <1>2, PTL DEF Spec, SendsOnlyValid

\* Modifiers that depend on each other (FormComponent::doModifier) come to an
\* end on every page whose fields can be given costs such that a change costs
\* more than all the changes that it may cause: of the pages of the workbench
\* all but the three on which two fields modify each other.
THEOREM CascadesEndMeasured ==
  Spec => [](page # NoPage /\ Measured(page) => CascadesEnd)
<1>1. Init => Ends
  BY InitInv
<1>2. IInv /\ Ends /\ [Next]_vars => Ends'
  BY NextStep DEF Kept
<1>3. Ends => (page # NoPage /\ Measured(page) => CascadesEnd)
  BY DEF Ends, CascadesEnd
<1> QED BY <1>1, <1>2, <1>3, Invariant, PTL DEF Spec

\* On these pages what the user enters is not undone by the modifiers that it
\* sets off (FormComponent): no change causes itself.
THEOREM InputSticksMeasured ==
  Spec => [](page # NoPage /\ (\E w : Descends(page, w)) => InputSticks)
<1>1. Init => Sticks
  BY InitInv
<1>2. IInv /\ Sticks /\ [Next]_vars => Sticks'
  BY NextStep DEF Kept
<1>3. Sticks => (page # NoPage /\ (\E w : Descends(page, w)) => InputSticks)
  BY DEF Sticks, InputSticks
<1> QED BY <1>1, <1>2, <1>3, Invariant, PTL DEF Spec

\* The marks of a page with a measure, whatever happens on the others.
MeasuredChecked == page # NoPage /\ Measured(page) => Checked

\* A page that is open stays the same page until it is left.
LEMMA SamePage ==
  ASSUME IInv, [Next]_vars, page # NoPage, page' # NoPage
  PROVE  page' = page
<1>1. phase # "closed"
  BY DEF IInv, PageInv
<1> QED
  BY <1>1 DEF Next, Open, Load, LoadFails, Edit, Refuse, Submit, PostSucceeds,
              PostFails, Saved, Answer, RequestSucceeds, RequestFails,
              Navigate, Interrupted, Leave, vars

\* And on these pages the validity shown is that of the current values
\* (CustomValidators), whatever cascades the user sets off elsewhere.
THEOREM ValidityMeasured ==
  ASSUME TestsReported
  PROVE  Spec => [](page # NoPage /\ Measured(page) => ValidityIsCurrent)
<1>1. Init => MeasuredChecked /\ Ends
  BY InitInv DEF MeasuredChecked
<1>2. IInv /\ Ends /\ MeasuredChecked /\ [Next]_vars
        => Ends' /\ MeasuredChecked'
  <2> SUFFICES ASSUME IInv, Ends, MeasuredChecked, [Next]_vars
               PROVE  Ends' /\ MeasuredChecked'
    OBVIOUS
  <2>1. Kept
    BY NextStep
  <2>2. Ends'
    BY <2>1 DEF Kept
  <2> SUFFICES ASSUME page' # NoPage, Measured(page)'
               PROVE  Checked'
    BY <2>2 DEF MeasuredChecked
  <2>3. ~endless'
    BY <2>2 DEF Ends
  <2>4. CASE page = NoPage
    BY <2>1, <2>3, <2>4 DEF Kept, Checked
  <2>5. CASE page # NoPage
    <3>1. page' = page
      BY <2>5, SamePage
    <3>2. Measured(page)
      BY <3>1
    <3> QED BY <2>1, <2>3, <2>5, <3>2 DEF Kept, MeasuredChecked
  <2> QED BY <2>4, <2>5
<1>3. IInv /\ MeasuredChecked =>
        (page # NoPage /\ Measured(page) => ValidityIsCurrent)
  BY DEF MeasuredChecked, Checked, ValidityIsCurrent
<1> QED BY <1>1, <1>2, <1>3, Invariant, PTL DEF Spec

\* Every switch of the page has its effect.
SwitchesHold ==
  phase = "ready" => \A x \in Lone(page) : Commanded(x.name, x.modifier)

LEMMA CommandsSwitch == IInv /\ Commands => SwitchesHold
<1> SUFFICES ASSUME IInv, Commands, phase = "ready", NEW x \in Lone(page)
             PROVE  Commanded(x.name, x.modifier)
  BY DEF SwitchesHold
<1>1. Obeyed(x, Form)
  BY OpenPage DEF Commands
<1>2. Form.values = values /\ Form.off = off /\ Form.hidden = hidden
  BY DEF Form
<1>3. x.modifier.type \in {"disabled", "enabled", "hidden", "visible"}
  BY DEF Lone, Switches
<1> QED BY <1>1, <1>2, <1>3 DEF Obeyed, Commanded

\* Switches (FormComponent::doModifier): whatever is changed in whatever
\* order, a field that modifiers show, hide, enable or disable is shown,
\* hidden, enabled or disabled as the values say, if nothing else switches it,
\* its condition reads only what it follows, and cascades come to an end.
THEOREM SwitchesObeyed ==
  ASSUME ConditionsReported
  PROVE  Spec /\ []CascadesEnd => []SwitchesHold
<1>1. Init => Commands
  BY InitInv
<1>2. IInv /\ Commands /\ CascadesEnd' /\ [Next]_vars => Commands'
  BY NextStep DEF Kept, CascadesEnd
<1> QED BY <1>1, <1>2, CommandsSwitch, Invariant, PTL DEF Spec

\* The same of the pages with a measure, whatever happens on the others.
MeasuredCommands == page # NoPage /\ Measured(page) => Commands

LEMMA MeasuredStep ==
  ASSUME ConditionsReported, IInv, Ends, MeasuredCommands, [Next]_vars
  PROVE  Ends' /\ MeasuredCommands'
<1>1. Kept
  BY NextStep
<1>2. Ends'
  BY <1>1 DEF Kept
<1> SUFFICES ASSUME page' # NoPage, Measured(page)'
             PROVE  Commands'
  BY <1>2 DEF MeasuredCommands
<1>3. ~endless'
  BY <1>2 DEF Ends
<1>4. CASE page = NoPage
  BY <1>1, <1>3, <1>4 DEF Kept, Commands
<1>5. CASE page # NoPage
  <2>1. page' = page
    BY <1>5, SamePage
  <2>2. Measured(page)
    BY <2>1
  <2> QED BY <1>1, <1>3, <1>5, <2>2 DEF Kept, MeasuredCommands
<1> QED BY <1>4, <1>5

\* So on a page with a measure whose modifiers are all such switches every
\* modifier's effect is visible (FormComponent::doModifier), whatever cascades
\* the user sets off on other pages.
THEOREM CommandsMeasured ==
  ASSUME ConditionsReported
  PROVE  Spec => [](page # NoPage /\ Measured(page) /\ Switched(page)
                      => CommandsHold)
<1>1. Init => MeasuredCommands /\ Ends
  BY InitInv DEF MeasuredCommands
<1>2. IInv /\ Ends /\ MeasuredCommands /\ [Next]_vars
        => Ends' /\ MeasuredCommands'
  BY MeasuredStep
<1>3. IInv /\ MeasuredCommands =>
        (page # NoPage /\ Measured(page) /\ Switched(page) => CommandsHold)
  BY CommandsSwitch
  DEF MeasuredCommands, SwitchesHold, CommandsHold, Switched
<1> QED BY <1>1, <1>2, <1>3, Invariant, PTL DEF Spec

-----------------------------------------------------------------------------
\* What a form shows that does not count as changed.

\* A page on which modifiers only switch fields, that does not submit by code
\* of its own.
Plain(p) == Measured(p) /\ Switched(p) /\ ~p.spec.custom

\* What the user has not changed is as saved, and a form in which anything was
\* changed counts as changed, because one of the changed fields is enabled.
KemptForm(p, old, s) ==
  /\ old = [k \in p.submitted |-> old[k]]
  /\ \A k \in p.submitted \ s.dirty : s.values[k] = old[k]
  /\ s.dirty # {} => s.changed /\ s.dirty \ s.off # {}

Kempt == page # NoPage /\ Plain(page) => KemptForm(page, saved, Form)

\* The form after a cascade.
LEMMA BecomesKempt ==
  ASSUME NEW r, Becomes(r, FALSE), NEW p, KemptForm(p, saved', r.form)
  PROVE  KemptForm(p, saved', Form')
<1>1. /\ Form'.values = r.form.values /\ Form'.off = r.form.off
      /\ Form'.dirty = r.form.dirty /\ (r.form.changed => Form'.changed)
  <2>1. /\ Form'.values = values' /\ Form'.off = off'
        /\ Form'.dirty = dirty' /\ Form'.changed = changed'
    BY DEF Form
  <2> QED BY <2>1 DEF Becomes
<1> QED BY <1>1 DEF KemptForm

\* A form without changes that shows what is saved.
LEMMA CleanKempt ==
  ASSUME NEW p, NEW s, NEW old, s.dirty = {},
         old = [k \in p.submitted |-> s.values[k]]
  PROVE  KemptForm(p, old, s)
BY DEF KemptForm

LEMMA OpenKempt ==
  ASSUME NEW r \in FormRoutes, Open(r)
  PROVE  Kempt'
<1> DEFINE p == Component(r.page, Forms[r.page])
           first == First(p, r.editing)
<1>1. /\ page' = p /\ Becomes(first, FALSE)
      /\ saved' = Submitted(p, first.form.values)
  BY DEF Open
<1>2. PageOK(p)
  BY OpenedFacts, RoutesAssumption DEF Opened, FormRoutes
<1> HIDE DEF p
<1>3. first.form.dirty = {}
  BY <1>2, FirstFacts
<1> HIDE DEF first
<1>4. KemptForm(p, saved', first.form)
  BY <1>1, <1>3, CleanKempt DEF Submitted, Restrict
<1> QED BY <1>1, <1>4, BecomesKempt DEF Kempt

\* The values loaded replace the ones before, and no modifier others.
LEMMA LoadKempt ==
  ASSUME ConditionsReported, IInv, Ends',
         NEW sample, NEW keys \in KeyOrders(page), Load(sample, keys)
  PROVE  Kempt'
<1> DEFINE stored == Stored(page, sample)
           todo == [i \in DOMAIN keys |-> Patch(keys[i], stored[keys[i]])]
           r == Cascade(page, todo, Form)
<1>1. /\ phase # "closed" /\ page' = page
      /\ Becomes(r, TRUE) /\ saved' = stored
  BY DEF Load
<1> SUFFICES ASSUME page # NoPage, Plain(page)
             PROVE  KemptForm(page, saved', Form')
  BY <1>1 DEF Kempt
<1>2. PageOK(page) /\ Conditions(page) /\ Sound(page, Form)
  BY <1>1, OpenPage DEF Opened
<1>3. /\ keys \in Seq(Names(page)) /\ page.submitted \subseteq Range(keys)
      /\ page.submitted \subseteq Names(page)
  <2>1. page.names \in Seq(Names(page)) /\ page.submitted \subseteq Names(page)
    BY <1>2 DEF PageOK
  <2>2. /\ Keys(page) \in Seq(Names(page) \cap page.submitted)
        /\ Range(Keys(page)) = Range(page.names) \cap page.submitted
    BY <2>1, OnlyFacts DEF Keys
  <2>3. Keys(page) \in Seq(Names(page))
    BY <2>2, WiderSeq
  <2> QED BY <2>1, <2>2, <2>3, ReverseFacts DEF KeyOrders, Names
<1>4. /\ todo = [i \in DOMAIN keys |-> todo[i]]
      /\ \A i \in DOMAIN keys : todo[i] = Patch(keys[i], stored[keys[i]])
  OBVIOUS
<1>5. stored = [k \in page.submitted |-> stored[k]]
  BY DEF Stored
<1> HIDE DEF stored, todo
<1>6. AllFit(page, todo) /\ Own(page, todo)
  BY <1>3, <1>4, EachFit, EachOwn
<1>7. \A n, v : /\ Patch(n, v).do = "patch" /\ Patch(n, v).name = n
               /\ Patch(n, v).value = v
  BY DEF Patch
<1>8. \A y \in Range(todo) : y.do = "patch" => y.value = stored[y.name]
  BY <1>4, <1>7 DEF Range
<1>9. ASSUME NEW k \in page.submitted
      PROVE  \E y \in Range(todo) : y.do = "patch" /\ y.name = k
  <2>1. PICK i \in DOMAIN keys : keys[i] = k
    BY <1>3 DEF Range
  <2>2. todo[i] \in Range(todo)
    BY <1>4, <2>1 DEF Range
  <2> QED BY <1>4, <1>7, <2>1, <2>2
<1>10. Tame(page, page.submitted, stored, {}, [todo |-> todo, form |-> Form])
  BY <1>6, <1>8, <1>9 DEF Tame
<1>11. ~r.endless => \A k \in page.submitted : r.form.values[k] = stored[k]
  BY <1>2, <1>3, <1>6, <1>10, CascadeTame DEF Plain
<1> HIDE DEF r
<1>12. ~r.endless
  BY <1>1 DEF Ends, Plain, Becomes
<1>13. Form'.dirty = {} /\ Form'.values = r.form.values
  BY <1>1 DEF Becomes, Form
<1> QED BY <1>1, <1>5, <1>11, <1>12, <1>13 DEF KemptForm

\* A cascade without values to set.
LEMMA QuietCascade ==
  ASSUME ConditionsReported, IInv, phase # "closed", Plain(page),
         NEW s, Sound(page, s), NEW todo, AllFit(page, todo), Own(page, todo),
         \A y \in Range(todo) : y.do # "patch",
         ~Cascade(page, todo, s).endless,
         NEW H, H # {} => Firm(page, H, s)
  PROVE  LET r == Cascade(page, todo, s) IN
         /\ \A k \in Names(page) : r.form.values[k] = s.values[k]
         /\ r.form.dirty = s.dirty
         /\ H # {} => H \subseteq r.form.dirty \ r.form.off /\ r.form.changed
<1>1. PageOK(page) /\ Conditions(page)
  BY OpenPage DEF Opened
<1> DEFINE c == [todo |-> todo, form |-> s]
<1>2. c.todo = todo /\ c.form = s
  OBVIOUS
<1> HIDE DEF c
<1>3. Tame(page, Names(page), s.values, H, c)
  BY <1>2 DEF Tame
<1>4. Good(page, s.dirty, {}, c)
  BY <1>2 DEF Good
<1>5. Tame(page, Names(page), s.values, H, [todo |-> todo, form |-> s])
  BY <1>3 DEF c
<1>6. Cascade(page, todo, s).form.dirty = s.dirty
  BY <1>1, <1>4, CascadeFacts DEF c
<1> QED BY <1>1, <1>5, <1>6, CascadeTame DEF Plain

\* A form that is refused: if it has changed, it still counts as changed.
LEMMA RefuseKempt ==
  ASSUME ConditionsReported, IInv, Ends', MeasuredCommands, Kempt, Refuse
  PROVE  Kempt'
<1> DEFINE again == Only(page.names, invalid)
           todo == [i \in DOMAIN again |-> Announce(again[i])]
           r == Cascade(page, todo, Form)
<1>1. /\ phase # "closed" /\ page' = page /\ saved' = saved
      /\ Becomes(r, FALSE)
  BY DEF Refuse, MaySubmit
<1> SUFFICES ASSUME page # NoPage, Plain(page)
             PROVE  KemptForm(page, saved', Form')
  BY <1>1 DEF Kempt
<1>2. PageOK(page) /\ Sound(page, Form) /\ page.submitted \subseteq Names(page)
  BY <1>1, OpenPage DEF Opened, PageOK
<1>3. again \in Seq(Names(page))
  <2>1. page.names \in Seq(Names(page))
    BY <1>2 DEF PageOK
  <2>2. again \in Seq(Names(page) \cap invalid)
    BY <2>1, OnlyFacts
  <2> HIDE DEF again
  <2> QED BY <2>2, WiderSeq
<1> HIDE DEF again
<1>4. /\ todo = [i \in DOMAIN again |-> todo[i]]
      /\ \A i \in DOMAIN again : todo[i] = Announce(again[i])
  OBVIOUS
<1> HIDE DEF todo
<1>5. AllFit(page, todo) /\ Own(page, todo)
  BY <1>3, <1>4, EachFit, EachOwn
<1>6. \A y \in Range(todo) : y.do # "patch"
  <2>1. \A n : Announce(n).do = "announce"
    BY DEF Announce
  <2> QED BY <1>4, <2>1 DEF Range
<1>7. ~r.endless
  BY <1>1 DEF Ends, Plain, Becomes
<1> DEFINE H == Form.dirty \ Form.off
<1>8. KemptForm(page, saved, Form)
  BY DEF Kempt
<1>9. H # {} => Firm(page, H, Form)
  <2>1. Commands
    BY DEF MeasuredCommands, Plain
  <2>2. \A y \in Range(page.modifiers) : Obeyed(y, Form)
    BY <2>1 DEF Commands, Plain, Switched
  <2> QED BY <1>8, <2>2 DEF KemptForm, Firm
<1> HIDE DEF H
<1>10. /\ \A k \in Names(page) : r.form.values[k] = Form.values[k]
       /\ r.form.dirty = Form.dirty
       /\ H # {} => H \subseteq r.form.dirty \ r.form.off /\ r.form.changed
  BY <1>1, <1>2, <1>5, <1>6, <1>7, <1>9, QuietCascade
<1> HIDE DEF r
<1>11. KemptForm(page, saved', r.form)
  BY <1>1, <1>2, <1>8, <1>10 DEF KemptForm, H
<1> QED BY <1>1, <1>11, BecomesKempt

\* A field that the user changes is enabled, and stays so: no modifier
\* disables the field whose value it depends on.
LEMMA EditKempt ==
  ASSUME ConditionsReported, IInv, Ends', MeasuredCommands, Kempt,
         NEW n \in DOMAIN values \ {"_editing"}, NEW v, Edit(n, v)
  PROVE  Kempt'
<1> DEFINE u == [Form EXCEPT !.dirty = @ \union {n}, !.changed = TRUE]
           s == SetValue(page, n, v, u)
           todo == <<Announce(n)>>
           r == Cascade(page, todo, s)
<1>1. /\ phase # "closed" /\ page' = page /\ saved' = saved /\ n \notin off
      /\ Becomes(r, FALSE)
  BY DEF Edit
<1> SUFFICES ASSUME page # NoPage, Plain(page)
             PROVE  KemptForm(page, saved', Form')
  BY <1>1 DEF Kempt
<1>2. /\ PageOK(page) /\ Conditions(page)
      /\ page.submitted \subseteq Names(page)
      /\ Sound(page, Form) /\ Form.values = values /\ Form.off = off
      /\ Form.dirty = dirty
  BY <1>1, OpenPage, FormFacts DEF Opened, PageOK
<1>3. n \in Names(page)
  BY <1>2 DEF Sound, Keyed
<1>4. Commands
  BY DEF MeasuredCommands, Plain
<1>5. /\ Sound(page, u) /\ u.dirty = dirty \union {n}
      /\ \A x \in Lone(page) : Obeyed(x, u)
      /\ u.values = values /\ u.off = off /\ u.changed
  <2>1. u.values = values /\ u.off = off /\ u.changed
    BY DEF Form
  <2> HIDE DEF u
  <2>2. /\ Sound(page, u) /\ u.dirty = dirty \union {n}
        /\ \A x \in Lone(page) : Obeyed(x, u)
    BY <1>1, <1>3, <1>4, TouchFacts DEF u
  <2> QED BY <2>1, <2>2
<1> HIDE DEF u
<1>6. /\ s.values = [u.values EXCEPT ![n] = v]
      /\ s.off = off /\ s.dirty = dirty \union {n} /\ s.changed
  <2>1. IsForm(u)
    BY <1>5 DEF Sound
  <2>2. /\ IsForm(s) /\ SameButMarks(u, s) /\ MarkedAgain(page, n, u, s)
        /\ s.values = [u.values EXCEPT ![n] = v]
    BY <2>1, SetValueFacts
  <2> HIDE DEF s
  <2> QED BY <1>5, <2>2 DEF SameButMarks
<1>7. Changes(page, n, u, s)
  BY <1>3, <1>5, SetValueChanges
<1> HIDE DEF s
<1>8. Sound(page, s)
  BY <1>2, <1>3, <1>5, <1>7, ChangeFacts DEF Changes
<1>9. /\ AllFit(page, todo) /\ Own(page, todo)
      /\ \A y \in Range(todo) : y.do # "patch"
  <2>1. Announce(n).do = "announce" /\ Range(todo) = {Announce(n)}
    BY DEF Announce, Range
  <2>2. AllFit(page, todo)
    BY <1>3, FollowFit
  <2> QED BY <2>1, <2>2 DEF Own
<1> HIDE DEF todo
<1>10. ~r.endless
  BY <1>1 DEF Ends, Plain, Becomes
<1>11. Firm(page, {n}, s)
  <2>1. {n} \subseteq s.dirty \ s.off /\ s.changed
    BY <1>1, <1>6
  <2>2. ASSUME NEW y \in Range(page.modifiers), y.name = n PROVE Obeyed(y, s)
    <3>1. y \in Lone(page) /\ Obeyed(y, u)
      BY <1>5 DEF Plain, Switched
    <3>2. n \notin y.modifier.deps
      BY <2>2, <3>1 DEF Lone
    <3>3. u.values = [k \in Keyed(page) |-> u.values[k]]
      BY <1>5 DEF Sound
    <3>4. Satisfies(y.modifier.constraint, s.values)
            <=> Satisfies(y.modifier.constraint, u.values)
      BY <1>2, <1>3, <1>6, <3>1, <3>2, <3>3, ConditionAsBefore
    <3>5. s.off = u.off /\ s.hidden = u.hidden
      BY <1>5, <1>6, <1>7 DEF Changes
    <3> QED BY <3>1, <3>4, <3>5, ObeyedAsBefore
  <2> QED BY <2>1, <2>2 DEF Firm
<1>12. /\ \A k \in Names(page) : r.form.values[k] = s.values[k]
       /\ r.form.dirty = s.dirty
       /\ {n} \subseteq r.form.dirty \ r.form.off /\ r.form.changed
  BY <1>1, <1>8, <1>9, <1>10, <1>11, QuietCascade
<1> HIDE DEF r
<1>13. KemptForm(page, saved, Form)
  BY DEF Kempt
<1>14. KemptForm(page, saved', r.form)
  <2>1. \A k \in page.submitted \ s.dirty : s.values[k] = saved[k]
    BY <1>2, <1>5, <1>6, <1>13 DEF KemptForm
  <2> QED BY <1>1, <1>2, <1>12, <1>13, <2>1 DEF KemptForm
<1> QED BY <1>1, <1>14, BecomesKempt

\* A form that is saved, and the other steps.
LEMMA SavedKempt ==
  ASSUME Saved
  PROVE  Kempt'
<1>1. /\ page' = page /\ saved' = Submitted(page, values)
      /\ Form'.dirty = {} /\ Form'.values = values
  BY DEF Saved, Form
<1>2. KemptForm(page, saved', Form')
  BY <1>1, CleanKempt DEF Submitted, Restrict
<1> QED BY <1>1, <1>2 DEF Kempt

LEMMA NextKempt ==
  ASSUME ConditionsReported, IInv, Ends', MeasuredCommands, Kempt, [Next]_vars
  PROVE  Kempt'
<1>1. CASE \E r \in FormRoutes : Open(r)
  BY <1>1, OpenKempt
<1>2. CASE \E sample \in UNION {p.spec.samples : p \in Showing},
              keys \in UNION {KeyOrders(p) : p \in Showing} :
              Load(sample, keys)
  <2>1. PICK sample, keys :
          /\ keys \in UNION {KeyOrders(p) : p \in Showing}
          /\ Load(sample, keys)
    BY <1>2
  <2>2. keys \in KeyOrders(page)
    BY <2>1 DEF Showing
  <2> QED BY <2>1, <2>2, LoadKempt
<1>3. CASE \E n \in DOMAIN values \ {"_editing"} :
             \E v \in page.inputs[n] : Edit(n, v)
  BY <1>3, EditKempt
<1>4. CASE Refuse
  BY <1>4, RefuseKempt
<1>5. ASSUME UNCHANGED <<page, values, off, hidden, invalid, saved>>,
             Plain(page) => UNCHANGED <<dirty, changed>>
      PROVE  Kempt'
  <2>1. Plain(page) => Form' = Form
    BY <1>5 DEF Form
  <2> QED BY <1>5, <2>1 DEF Kempt
<1>6. CASE Submit
  BY <1>5, <1>6 DEF Submit, Plain
<1>7. ASSUME page' = NoPage PROVE Kempt'
  BY <1>7 DEF Kempt
<1>8. CASE PostSucceeds
  BY <1>7, <1>8, SavedKempt DEF PostSucceeds, Leave
<1>9. CASE LoadFails \/ PostFails \/ Answer \/ RequestFails
  BY <1>5, <1>9 DEF LoadFails, PostFails, Answer, RequestFails, form
<1>10. CASE \/ RequestSucceeds
            \/ \E url \in Targets : Navigate(url)
            \/ \E url \in {"/login", "/503"} : Interrupted(url)
  BY <1>7, <1>10 DEF RequestSucceeds, Navigate, Interrupted, Leave
<1>11. CASE UNCHANGED vars
  BY <1>5, <1>11 DEF vars, form
<1> QED BY <1>1, <1>2, <1>3, <1>4, <1>6, <1>8, <1>9, <1>10, <1>11 DEF Next

\* A form that is kempt and does not count as changed has no changes.
LEMMA KemptPristine ==
  IInv /\ Kempt =>
    (page # NoPage /\ Measured(page) /\ Switched(page) => PristineMeansSaved)
<1> SUFFICES ASSUME IInv, Kempt, page # NoPage, Measured(page), Switched(page),
                    ~changed, ~page.spec.custom
             PROVE  Submitted(page, values) = saved
  BY DEF PristineMeansSaved
<1>1. KemptForm(page, saved, Form)
  BY DEF Kempt, Plain
<1>2. Form.values = values /\ Form.dirty = dirty /\ Form.changed = changed
  BY DEF Form
<1>3. \A k \in page.submitted : values[k] = saved[k]
  BY <1>1, <1>2 DEF KemptForm
<1>4. saved = [k \in page.submitted |-> values[k]]
  BY <1>1, <1>3 DEF KemptForm
<1> QED BY <1>4 DEF Submitted, Restrict

LEMMA AlwaysKempt ==
  ASSUME ConditionsReported
  PROVE  Spec => [](IInv /\ Kempt)
<1>1. Init => Ends /\ MeasuredCommands /\ Kempt
  BY InitInv DEF MeasuredCommands, Kempt, Init
<1>2. IInv /\ Ends /\ MeasuredCommands /\ Kempt /\ [Next]_vars
        => Ends' /\ MeasuredCommands' /\ Kempt'
  BY MeasuredStep, NextKempt
<1> QED BY <1>1, <1>2, Invariant, PTL DEF Spec

\* Forms without changes (FormPageComponent, FormComponent::doModifier): on a
\* page with a measure whose modifiers only switch fields, a form that does
\* not count as changed shows what the backend holds, also when modifiers have
\* disabled fields that the user has changed.
THEOREM PristineMeasured ==
  ASSUME ConditionsReported
  PROVE  Spec => [](page # NoPage /\ Measured(page) /\ Switched(page)
                      => PristineMeansSaved)
BY AlwaysKempt, KemptPristine, PTL

-----------------------------------------------------------------------------
\* What is lost when a page is left.

\* A change is lost unasked only when a form that is not marked as dirty does
\* not show what the backend holds.
LEMMA LeavesClean ==
  ASSUME IInv, PristineMeansSaved, page # NoPage, page' = NoPage, [Next]_vars
  PROVE  left' # "lost"
<1>1. CASE \E url \in Targets : Navigate(url)
  <2>1. PICK url \in Targets : Navigate(url)
    BY <1>1
  <2>2. phase # "closed"
    BY <2>1 DEF Navigate
  <2>3. url \notin Exempt
    <3>1. "/dashboard" \notin Exempt
      BY DEF Exempt
    <3> QED BY <2>2, <3>1, OpenPage DEF Targets
  <2> SUFFICES ASSUME left' = "lost" PROVE FALSE
    OBVIOUS
  <2>4. /\ ~Asks(url) /\ phase = "ready" /\ Unsaved
        /\ ~page.spec.custom /\ ThisRoute.guarded
    BY <2>1 DEF Navigate, Leave
  <2>5. ~changed
    BY <2>3, <2>4 DEF Asks
  <2> QED BY <2>4, <2>5 DEF PristineMeansSaved, Unsaved
<1>2. CASE ~\E url \in Targets : Navigate(url)
  <2>1. phase # "closed"
    BY DEF IInv, PageInv
  <2> QED
    BY <1>2, <2>1
    DEF Next, Open, Load, LoadFails, Edit, Refuse, Submit, PostSucceeds,
        PostFails, Saved, Answer, RequestSucceeds, RequestFails, Interrupted,
        Leave, vars
<1> QED BY <1>1, <1>2

\* The guard of a page (IsDirtyGuardService) loses no change unasked,
\* whichever way the user leaves by, as long as forms that are not dirty show
\* what the backend holds.
THEOREM NothingEverLost == Spec /\ []PristineMeansSaved => []NothingLost
<1>1. Init => NothingLost
  BY DEF Init, NothingLost
<1>2. IInv /\ PristineMeansSaved /\ NothingLost /\ [Next]_vars => NothingLost'
  <2> SUFFICES ASSUME IInv, PristineMeansSaved, left # "lost", [Next]_vars
               PROVE  left' # "lost"
    BY DEF NothingLost
  <2>1. CASE page # NoPage /\ page' = NoPage
    BY <2>1, LeavesClean
  <2>2. CASE ~(page # NoPage /\ page' = NoPage)
    <3>1. phase # "closed" => page # NoPage
      BY OpenPage
    <3> QED
      BY <2>2, <3>1
      DEF Next, Open, Load, LoadFails, Edit, Refuse, Submit, PostSucceeds,
          PostFails, Saved, Answer, RequestSucceeds, RequestFails, Navigate,
          Interrupted, Leave, vars
  <2> QED BY <2>1, <2>2
<1> QED BY <1>1, <1>2, Invariant, PTL DEF Spec

\* Leaving a page with a measure and only switches loses no change unasked.
PlainKeepChanges ==
  [][page # NoPage /\ Measured(page) /\ Switched(page) /\ page' = NoPage
       => left' # "lost"]_vars

\* So who leaves such a page loses no change unasked (IsDirtyGuardService),
\* whatever happened on other pages.
THEOREM LossesMeasured ==
  ASSUME ConditionsReported
  PROVE  Spec => PlainKeepChanges
<1>1. IInv /\ Kempt /\ [Next]_vars =>
        [page # NoPage /\ Measured(page) /\ Switched(page) /\ page' = NoPage
           => left' # "lost"]_vars
  BY KemptPristine, LeavesClean
<1> QED BY <1>1, AlwaysKempt, PTL DEF Spec, PlainKeepChanges

\* The page shown exists; only a button with a request asks for it.
LandInv ==
  /\ Exists(at)
  /\ phase \in {"asking", "requesting"} => page.spec.confirms

\* The pages that the program itself leads to exist.
LEMMA KnownExist == \A url \in {"/dashboard", "/login", "/503"} : Exists(url)
BY RoutesAssumption DEF Exists, Urls

\* The buttons of the page that is open lead to pages that exist.
LEMMA ButtonFacts ==
  ASSUME ButtonsLand, IInv, phase # "closed"
  PROVE  /\ page.spec.cancel # "" => Exists(page.spec.cancel)
         /\ page.spec.done # "" => Exists(page.spec.done)
         /\ page.spec.confirms => page.spec.done # ""
<1>1. PICK q \in Pages : page = Component(q, Forms[q])
  BY DEF IInv, PageInv, Built
<1>2. page.spec = [Forms[q] EXCEPT !.fields = <<>>]
  BY <1>1 DEF Component
<1>3. {"done", "cancel", "confirms"} \subseteq DOMAIN Forms[q]
  BY ButtonsAssumption
<1>4. /\ page.spec.done = Forms[q].done /\ page.spec.cancel = Forms[q].cancel
      /\ page.spec.confirms = Forms[q].confirms
  BY <1>2, <1>3
<1> QED BY <1>4 DEF ButtonsLand

\* Every step leads to a page that exists.
LEMMA LandStep ==
  ASSUME ButtonsLand, IInv, LandInv, [Next]_vars
  PROVE  LandInv'
<1>1. ASSUME NEW url, NEW how, Leave(url, how), Exists(url)
      PROVE  LandInv'
  <2>1. at' = url /\ phase' = "closed"
    BY <1>1 DEF Leave
  <2>2. Exists(at')
    BY <1>1, <2>1
  <2> QED BY <2>1, <2>2 DEF LandInv, Exists, Urls
<1>2. ASSUME UNCHANGED <<at, page>>,
             \/ phase' \notin {"asking", "requesting"}
             \/ phase \in {"asking", "requesting"}
             \/ page.spec.confirms
      PROVE  LandInv'
  BY <1>2 DEF LandInv, Exists, Urls
<1>3. CASE \E r \in FormRoutes : Open(r)
  <2>1. PICK r \in FormRoutes : Open(r)
    BY <1>3
  <2>2. r.url \in Urls /\ at' = r.url /\ phase' \in {"loading", "ready"}
    BY <2>1 DEF Open, FormRoutes, Urls
  <2> QED BY <2>2 DEF LandInv, Exists, Urls
<1>4. CASE PostSucceeds
  <2>1. phase = "posting"
    BY <1>4 DEF PostSucceeds
  <2>2. CASE /\ page.spec.done # ""
             /\ Leave(page.spec.done, "saved")
    BY <1>1, <2>1, <2>2, ButtonFacts
  <2>3. CASE page.spec.confirms /\ Saved
    BY <1>2, <2>3 DEF Saved
  <2>4. CASE phase' = "ready" /\ Saved
    BY <1>2, <2>4 DEF Saved
  <2> QED BY <1>4, <2>2, <2>3, <2>4 DEF PostSucceeds
<1>5. CASE RequestSucceeds
  <2>1. phase = "requesting" /\ Leave(page.spec.done, "saved")
    BY <1>5 DEF RequestSucceeds
  <2>2. page.spec.confirms
    BY <2>1 DEF LandInv
  <2> QED BY <1>1, <2>1, <2>2, ButtonFacts
<1>6. CASE \E url \in Targets : Navigate(url)
  <2>1. PICK url \in Targets : Navigate(url)
    BY <1>6
  <2>2. phase # "closed" /\ \E how : Leave(url, how)
    BY <2>1 DEF Navigate
  <2>3. Exists(url)
    BY <2>2, ButtonFacts, KnownExist DEF Targets
  <2> QED BY <1>1, <2>2, <2>3
<1>7. CASE \E url \in {"/login", "/503"} : Interrupted(url)
  BY <1>1, <1>7, KnownExist DEF Interrupted
<1>8. CASE Submit \/ Refuse \/ LoadFails \/ PostFails \/ RequestFails
  BY <1>2, <1>8 DEF Submit, Refuse, LoadFails, PostFails, RequestFails,
                    MaySubmit
<1>9. CASE \E n \in DOMAIN values \ {"_editing"} :
             \E v \in page.inputs[n] : Edit(n, v)
  BY <1>2, <1>9 DEF Edit
<1>10. CASE \E sample \in UNION {p.spec.samples : p \in Showing},
              keys \in UNION {KeyOrders(p) : p \in Showing} :
              Load(sample, keys)
  BY <1>2, <1>10 DEF Load
<1>11. CASE Answer
  BY <1>2, <1>11 DEF Answer
<1>12. CASE UNCHANGED vars
  BY <1>2, <1>12 DEF vars
<1> QED BY <1>3, <1>4, <1>5, <1>6, <1>7, <1>8, <1>9, <1>10, <1>11, <1>12
        DEF Next

\* The page that a form leads to exists, however it is left, if those of its
\* buttons do.
THEOREM AlwaysLands ==
  ASSUME ButtonsLand
  PROVE  Spec => []LandsOnPage
<1>1. Init => LandInv
  BY KnownExist DEF Init, LandInv
<1>2. IInv /\ LandInv /\ [Next]_vars => LandInv'
  BY LandStep
<1>3. LandInv => LandsOnPage
  BY DEF LandInv, LandsOnPage
<1> QED BY <1>1, <1>2, <1>3, Invariant, PTL DEF Spec

=============================================================================
