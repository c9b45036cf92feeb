--------------------------- MODULE TablePageProofs ---------------------------
(***************************************************************************)
(* What the table pages guarantee for every table, whatever its rows, its  *)
(* actions and the meaning of the constraints on them.                     *)
(***************************************************************************)
EXTENDS TablePage, ArraysProofs

-----------------------------------------------------------------------------
\* The operators of the page.

\* The selection after a load: rows that are shown, no more than before,
\* each with the key of one that was selected.
SelectedAgain(new, sels, rs) ==
  /\ Range(new) \subseteq Range(rs)
  /\ \A y \in Range(new) : \E x \in Range(sels) :
       table.key[y.id] # "" /\ table.key[y.id] = table.key[x.id]

\* DatatableComponent::updateSelection selects rows that are shown, no more
\* than before, and only by the keys of those that were selected.
LEMMA SelectionFacts ==
  ASSUME NEW S, NEW sels \in Seq(S), NEW R, NEW rs \in Seq(R)
  PROVE  /\ UpdateSelection(sels, rs) \in Seq(R)
         /\ Len(UpdateSelection(sels, rs)) <= Len(sels)
         /\ SelectedAgain(UpdateSelection(sels, rs), sels, rs)
<1> DEFINE kept == Only(sels, {x \in Range(sels) : SameKey(x, rs) # <<>>})
           new == UpdateSelection(sels, rs)
<1>1. /\ kept \in Seq(S) /\ Len(kept) \in Nat /\ Len(kept) <= Len(sels)
      /\ DOMAIN kept = 1..Len(kept)
      /\ Range(kept) = {x \in Range(sels) : SameKey(x, rs) # <<>>}
  <2> DEFINE T == {x \in Range(sels) : SameKey(x, rs) # <<>>}
  <2> HIDE DEF T
  <2>1. /\ Only(sels, T) \in Seq(S \cap T) /\ Len(Only(sels, T)) \in Nat
        /\ Len(Only(sels, T)) <= Len(sels)
        /\ DOMAIN Only(sels, T) = 1..Len(Only(sels, T))
        /\ Range(Only(sels, T)) = Range(sels) \cap T
    BY OnlyFacts
  <2>2. Only(sels, T) \in Seq(S)
    BY <2>1
  <2> QED BY <2>1, <2>2 DEF T
<1>2. new = [i \in 1..Len(kept) |-> Head(SameKey(kept[i], rs))]
  BY <1>1 DEF UpdateSelection
<1>3. ASSUME NEW i \in 1..Len(kept)
      PROVE  /\ new[i] \in Range(rs) /\ new[i] \in R /\ kept[i] \in Range(sels)
             /\ table.key[new[i].id] # ""
             /\ table.key[new[i].id] = table.key[kept[i].id]
  <2> DEFINE T == {r \in Range(rs) : /\ table.key[r.id] # ""
                                     /\ table.key[r.id] = table.key[kept[i].id]}
             same == SameKey(kept[i], rs)
  <2>1. same = Only(rs, T)
    BY DEF SameKey
  <2>2. same \in Seq(R \cap T) /\ Range(same) = Range(rs) \cap T
    <3> HIDE DEF T, same
    <3> QED BY <2>1, OnlyFacts
  <2>3. kept[i] \in Range(kept)
    BY <1>1 DEF Range
  <2>4. kept[i] \in Range(sels) /\ same # <<>>
    BY <1>1, <2>3
  <2> HIDE DEF T, same
  <2>5. Head(same) \in Range(same)
    BY <2>2, <2>4, SeqFacts
  <2>6. Head(same) \in Range(rs) /\ Head(same) \in T /\ Head(same) \in R
    BY <2>2, <2>5, SeqFacts
  <2>7. new[i] = Head(same)
    BY <1>2 DEF same
  <2> QED BY <2>4, <2>6, <2>7 DEF T
<1>4. new \in Seq(R) /\ Len(new) = Len(kept) /\ DOMAIN new = 1..Len(kept)
  <2>1. new \in [1..Len(kept) -> R]
    <3> HIDE DEF kept, new
    <3> QED BY <1>2, <1>3
  <2> HIDE DEF kept, new
  <2> QED BY <1>1, <2>1
<1>5. \A y \in Range(new) : \E i \in 1..Len(kept) : y = new[i]
  BY <1>4 DEF Range
<1>6. Len(new) <= Len(sels)
  BY <1>1, <1>4
<1> HIDE DEF kept, new
<1>7. Range(new) \subseteq Range(rs)
  BY <1>3, <1>5
<1>8. ASSUME NEW y \in Range(new)
      PROVE  \E x \in Range(sels) :
               table.key[y.id] # "" /\ table.key[y.id] = table.key[x.id]
  <2>1. PICK i \in 1..Len(kept) : y = new[i]
    BY <1>5
  <2>2. kept[i] \in Range(sels)
    BY <1>3
  <2>3. table.key[y.id] # "" /\ table.key[y.id] = table.key[kept[i].id]
    BY <1>3, <2>1
  <2> QED BY <2>2, <2>3
<1> QED BY <1>4, <1>6, <1>7, <1>8 DEF new, SelectedAgain

\* An answered load leaves the others.
LEMMA RemainingFacts ==
  ASSUME NEW S, loads \in Seq(S), NEW i \in DOMAIN loads
  PROVE  /\ Remaining(i) \in Seq(S)
         /\ DOMAIN Remaining(i) = 1..(Len(loads) - 1)
         /\ Range(Remaining(i)) = {loads[j] : j \in DOMAIN loads \ {i}}
<1>1. Len(loads) \in Nat /\ DOMAIN loads = 1..Len(loads) /\ i \in 1..Len(loads)
      /\ \A j \in 1..Len(loads) : loads[j] \in S
  OBVIOUS
<1>2. /\ DOMAIN Remaining(i) = 1..(Len(loads) - 1)
      /\ \A j \in 1..(Len(loads) - 1) :
           Remaining(i)[j] = loads[IF j < i THEN j ELSE j + 1]
  BY DEF Remaining
<1>3. \A j \in 1..(Len(loads) - 1) :
        (IF j < i THEN j ELSE j + 1) \in DOMAIN loads \ {i}
  BY <1>1
<1>4. Remaining(i) \in Seq(S)
  <2>1. Len(loads) - 1 \in Nat
    BY <1>1
  <2>2. Remaining(i) \in [1..(Len(loads) - 1) -> S]
    BY <1>1, <1>3 DEF Remaining
  <2> QED BY <2>1, <2>2
<1>5. ASSUME NEW j \in DOMAIN loads \ {i}
      PROVE  loads[j] \in Range(Remaining(i))
  <2> DEFINE k == IF j < i THEN j ELSE j - 1
  <2>1. k \in 1..(Len(loads) - 1) /\ (IF k < i THEN k ELSE k + 1) = j
    BY <1>1
  <2> HIDE DEF k
  <2>2. Remaining(i)[k] = loads[j]
    BY <1>2, <2>1
  <2> QED BY <1>2, <2>1, <2>2 DEF Range
<1> QED BY <1>2, <1>3, <1>4, <1>5 DEF Range

-----------------------------------------------------------------------------
\* Types.

\* The rows the open table may have.
Known == IF phase = "closed" THEN {} ELSE Range(table.ids)

States == {"collapsed", "expanded", "loading", "disabled"}
RowType(K) ==
  [id : K, num : Nat, search : BOOLEAN, parent : STRING, status : States]
LoadType(K) ==
  [of : K \cup {""}, before : Seq(K), nums : [K -> Nat], search : BOOLEAN,
   reloaded : BOOLEAN]

\* A page is one of the tables, or there is none and nothing of it is left.
PageInv ==
  IF phase = "closed"
  THEN /\ table = NoTable /\ action = NoAction /\ queue = <<>>
       /\ stored = <<>> /\ data = <<>> /\ selected = <<>> /\ loads = <<>>
       /\ named = <<>> /\ expanded = {} /\ dirty = FALSE
  ELSE \E n \in DOMAIN Tables : table = Component(Tables[n])

Flags ==
  /\ at \in STRING /\ phase \in Phases
  /\ search \in BOOLEAN /\ shownFor \in BOOLEAN /\ dirty \in BOOLEAN

Lists ==
  /\ stored \in Seq(Known) /\ (phase # "closed" => nums \in [Known -> Nat])
  /\ data \in Seq(RowType(Known)) /\ selected \in Seq(RowType(Known))
  /\ loads \in Seq(LoadType(Known)) /\ expanded \subseteq Known
  /\ queue \in Seq(Known \cup {""}) /\ named \in Seq(Known)

SavingInv ==
  \A s \in saving :
    /\ s.to \in STRING \cup {""}
    /\ phase # "closed" => s.rows \in Seq(RowType(Known))

ActionInv ==
  /\ phase \in {"closed", "ready"} => action = NoAction
  /\ phase = "ready" => named = <<>> /\ acted = {}
  /\ phase \notin {"closed", "ready"} =>
       action \in table.actions /\ action.what \in {"request", "dialog"}
  /\ phase = "working" <=> queue # <<>>

ModeInv ==
  phase # "closed" =>
    /\ table.select # "multi" => Len(selected) <= 1
    /\ dirty => table.ordered

Typed == PageInv /\ Flags /\ Lists /\ SavingInv /\ ActionInv /\ ModeInv

\* A function on the first numbers is a sequence.
LEMMA SequenceOf ==
  ASSUME NEW S, NEW n \in Nat, NEW f \in [1..n -> S]
  PROVE  f \in Seq(S)
OBVIOUS

\* What the assumptions say of the table that is open.
LEMMA PageFacts ==
  ASSUME PageInv, phase # "closed"
  PROVE  /\ Known = Range(table.ids)
         /\ table # NoTable
         /\ table.ids \in Seq(Known) /\ Known \subseteq STRING \ {""}
         /\ Distinct(table.ids)
         /\ table.parent \in [Known -> STRING]
         /\ table.ordered => table.tree = ""
         /\ \A a \in table.actions :
              /\ a.urls \subseteq STRING
              /\ a.min \in Nat /\ a.max \in Nat
              /\ a.needs \/ a.what \in {"up", "down"} => a.min > 0
              /\ a.what \in {"up", "down", "remove", "saveRules"} =>
                   table.ordered
<1>1. PICK n \in DOMAIN Tables : table = Component(Tables[n])
  BY DEF PageInv
<1> DEFINE t == Tables[n]
<1>2. /\ t.ids \in Seq(STRING \ {""}) /\ Distinct(t.ids)
      /\ t.parents \in [DOMAIN t.ids -> STRING]
      /\ t.ordered => t.tree = ""
  BY RowsAssumption DEF Distinct
<1>3. \A a \in Range(t.actions) :
        /\ a.urls \subseteq STRING
        /\ a.min \in Nat /\ a.max \in Nat
        /\ a.needs \/ a.what \in {"up", "down"} => a.min > 0
        /\ a.what \in {"up", "down", "remove", "saveRules"} => t.ordered
  BY ActionsAssumption
<1> HIDE DEF t
<1>4. /\ table.ids = t.ids /\ table.actions = Range(t.actions)
      /\ table.ordered = t.ordered /\ table.tree = t.tree
      /\ table.parent =
           [x \in Range(t.ids) |->
              t.parents[CHOOSE i \in DOMAIN t.ids : t.ids[i] = x]]
  BY <1>1 DEF Component, t
<1>5. ASSUME NEW x \in Range(t.ids)
      PROVE  t.parents[CHOOSE i \in DOMAIN t.ids : t.ids[i] = x] \in STRING
  <2>1. \E i \in DOMAIN t.ids : t.ids[i] = x
    BY DEF Range
  <2>2. (CHOOSE i \in DOMAIN t.ids : t.ids[i] = x) \in DOMAIN t.ids
    BY <2>1
  <2> QED BY <1>2, <2>2
<1>6. Known = Range(t.ids)
  BY <1>4 DEF Known
<1>7. table.parent \in [Known -> STRING]
  BY <1>4, <1>5, <1>6
<1>8. t.ids \in Seq(Known) /\ Known \subseteq STRING \ {""}
  <2>1. t.ids \in Seq(Range(t.ids))
    BY <1>2, SeqFacts
  <2> QED BY <1>2, <1>6, <2>1, SeqFacts
<1>9. table # NoTable
  <2>1. "ids" \in DOMAIN table
    BY <1>1 DEF Component
  <2>2. "ids" \notin DOMAIN NoTable
    BY DEF NoTable
  <2> QED BY <2>1, <2>2
<1> QED BY <1>2, <1>3, <1>4, <1>6, <1>7, <1>8, <1>9

\* The rows of an answer.
LEMMA AnsweredFacts ==
  ASSUME NEW K, NEW load \in LoadType(K), NEW ids \in Seq(K),
         NEW ns \in [K -> Nat], table.parent \in [K -> STRING]
  PROVE  /\ Answered(load, ids, ns) \in Seq(RowType(K))
         /\ \A i \in DOMAIN Answered(load, ids, ns) :
              /\ Answered(load, ids, ns)[i].search = load.search
              /\ Answered(load, ids, ns)[i].status = "collapsed"
         /\ Distinct(ids) => OneRowEach(Answered(load, ids, ns))
<1> DEFINE T == {x \in Range(ids) :
                   /\ load.search => Hit(x)
                   /\ table.tree = "lazy" => table.parent[x] = load.of}
           part == Only(ids, T)
           rs == Answered(load, ids, ns)
<1>1. rs = [i \in DOMAIN part |->
              [id |-> part[i], num |-> ns[part[i]],
               search |-> load.search, parent |-> table.parent[part[i]],
               status |-> "collapsed"]]
  BY DEF Answered
<1> HIDE DEF T, rs
<1>2. /\ part \in Seq(K \cap T) /\ Len(part) \in Nat
      /\ DOMAIN part = 1..Len(part)
  BY OnlyFacts
<1>3. \A i \in DOMAIN part : part[i] \in K
  BY <1>2
<1>4. Distinct(ids) => Distinct(part)
  BY OnlyApart DEF Distinct
<1> HIDE DEF part
<1>5. DOMAIN rs = 1..Len(part) /\ load.search \in BOOLEAN
  BY <1>1, <1>2 DEF LoadType
<1>6. ASSUME NEW i \in 1..Len(part)
      PROVE  rs[i] \in RowType(K)
  <2>1. /\ part[i] \in K /\ table.parent[part[i]] \in STRING
        /\ ns[part[i]] \in Nat /\ load.search \in BOOLEAN
    BY <1>2, <1>3, <1>5
  <2> QED BY <1>1, <1>2, <2>1 DEF RowType, States
<1>7. rs \in Seq(RowType(K))
  <2>1. rs \in [1..Len(part) -> RowType(K)]
    BY <1>1, <1>5, <1>6
  <2> QED BY <1>2, <2>1, SequenceOf, Zenon
<1>8. \A i \in DOMAIN rs : /\ rs[i].search = load.search
                           /\ rs[i].status = "collapsed"
                           /\ rs[i].id = part[i]
  BY <1>1
<1>9. Distinct(ids) => OneRowEach(rs)
  BY <1>2, <1>4, <1>5, <1>8 DEF Distinct, OneRowEach
<1> QED BY <1>7, <1>8, <1>9 DEF rs

\* The same rows, but for their status.
Alike(es, rs) ==
  /\ DOMAIN es = DOMAIN rs
  /\ \A i \in DOMAIN rs : /\ es[i].id = rs[i].id /\ es[i].num = rs[i].num
                          /\ es[i].search = rs[i].search
                          /\ es[i].parent = rs[i].parent

\* Setting the status of a row changes nothing else.
LEMMA SetStatusFacts ==
  ASSUME NEW K, NEW rs \in Seq(RowType(K)), NEW id, NEW status \in States
  PROVE  /\ SetStatus(rs, id, status) \in Seq(RowType(K))
         /\ Alike(SetStatus(rs, id, status), rs)
         /\ \A i \in DOMAIN rs :
              IF rs[i].id = id THEN SetStatus(rs, id, status)[i].status = status
              ELSE SetStatus(rs, id, status)[i] = rs[i]
<1> DEFINE es == SetStatus(rs, id, status)
<1>1. /\ Len(rs) \in Nat /\ DOMAIN rs = 1..Len(rs)
      /\ \A i \in 1..Len(rs) : rs[i] \in RowType(K)
  OBVIOUS
<1>2. es = [i \in 1..Len(rs) |->
              IF rs[i].id = id THEN [rs[i] EXCEPT !.status = status]
              ELSE rs[i]]
  BY <1>1 DEF SetStatus
<1> HIDE DEF es
<1>3. ASSUME NEW i \in 1..Len(rs)
      PROVE  /\ es[i] \in RowType(K)
             /\ es[i].id = rs[i].id /\ es[i].num = rs[i].num
             /\ es[i].search = rs[i].search /\ es[i].parent = rs[i].parent
             /\ rs[i].id = id => es[i].status = status
             /\ rs[i].id # id => es[i] = rs[i]
  BY <1>1, <1>2 DEF RowType
<1>4. es \in Seq(RowType(K)) /\ DOMAIN es = DOMAIN rs
  <2>1. es \in [1..Len(rs) -> RowType(K)]
    BY <1>2, <1>3
  <2> QED BY <1>1, <2>1
<1> QED BY <1>1, <1>3, <1>4 DEF es, Alike

\* expandTreeRows changes the status of the new rows that were expanded
\* before, and nothing else.
LEMMA ExpandFacts ==
  ASSUME NEW K, NEW rs \in Seq(RowType(K)), NEW new
  PROVE  /\ Expand(new, rs) \in Seq(RowType(K))
         /\ Alike(Expand(new, rs), rs)
         /\ \A i \in DOMAIN rs :
              IF table.tree # "" /\ rs[i].id \in new \cap expanded
              THEN Expand(new, rs)[i].status \in {"expanded", "loading"}
              ELSE Expand(new, rs)[i] = rs[i]
<1> DEFINE es == Expand(new, rs)
           again(i) == table.tree # "" /\ rs[i].id \in new \cap expanded
           status(i) == IF HasChildren(rs[i].id, rs) THEN "expanded"
                        ELSE "loading"
<1>1. /\ Len(rs) \in Nat /\ DOMAIN rs = 1..Len(rs)
      /\ \A i \in 1..Len(rs) : rs[i] \in RowType(K)
  OBVIOUS
<1>2. es = [i \in 1..Len(rs) |->
              IF again(i) THEN [rs[i] EXCEPT !.status = status(i)]
              ELSE rs[i]]
  BY <1>1 DEF Expand
<1>3. \A i : status(i) \in {"expanded", "loading"}
  OBVIOUS
<1> HIDE DEF es, status, again
<1>4. ASSUME NEW i \in 1..Len(rs)
      PROVE  /\ es[i] \in RowType(K)
             /\ es[i].id = rs[i].id /\ es[i].num = rs[i].num
             /\ es[i].search = rs[i].search /\ es[i].parent = rs[i].parent
             /\ again(i) => es[i].status \in {"expanded", "loading"}
             /\ ~again(i) => es[i] = rs[i]
  <2>1. rs[i] \in RowType(K) /\ status(i) \in {"expanded", "loading"}
    BY <1>1, <1>3
  <2>2. CASE again(i)
    <3>1. es[i] = [rs[i] EXCEPT !.status = status(i)]
      BY <1>2, <2>2
    <3>2. status(i) \in States
      BY <2>1 DEF States
    <3> QED BY <2>1, <2>2, <3>1, <3>2 DEF RowType
  <2>3. CASE ~again(i)
    <3>1. es[i] = rs[i]
      BY <1>2, <2>3
    <3> QED BY <2>1, <2>3, <3>1
  <2> QED BY <2>2, <2>3
<1>5. es \in Seq(RowType(K)) /\ DOMAIN es = DOMAIN rs
  <2>1. es \in [1..Len(rs) -> RowType(K)]
    BY <1>2, <1>4
  <2> QED BY <1>1, <2>1
<1> QED BY <1>1, <1>4, <1>5 DEF es, Alike, again

\* The loads that follow an answer are for the rows that are loading.
LEMMA LoadFacts ==
  ASSUME NEW K, NEW id \in K \cup {""}, NEW ids \in Seq(K),
         NEW ns \in [K -> Nat], NEW searching \in BOOLEAN
  PROVE  Load(id, ids, ns, searching) \in LoadType(K)
BY Zenon DEF Load, LoadType

LoadsOf(ls, new, rs, searching) ==
  /\ \A l \in Range(ls) :
       /\ \E r \in Range(rs) : l.of = r.id /\ r.status = "loading"
       /\ l.before = stored /\ l.search = searching
       /\ l.reloaded = FALSE
  /\ \A r \in Range(rs) : r.id \in new /\ r.status = "loading" =>
       \E l \in Range(ls) : l.of = r.id

\* There is a load of children for each new row that is loading, and for no
\* other.
LEMMA ChildLoadFacts ==
  ASSUME NEW K, NEW rs \in Seq(RowType(K)), NEW new,
         NEW searching \in BOOLEAN, stored \in Seq(K), nums \in [K -> Nat]
  PROVE  /\ ChildLoads(new, rs, searching) \in Seq(LoadType(K))
         /\ LoadsOf(ChildLoads(new, rs, searching), new, rs, searching)
<1> DEFINE T == {r \in Range(rs) : r.id \in new /\ r.status = "loading"}
           waiting == Only(rs, T)
           ls == ChildLoads(new, rs, searching)
<1>1. ls = [i \in DOMAIN waiting |->
              Load(waiting[i].id, stored, nums, searching)]
  BY DEF ChildLoads
<1>2. /\ waiting \in Seq(RowType(K) \cap T) /\ Len(waiting) \in Nat
      /\ DOMAIN waiting = 1..Len(waiting)
      /\ Range(waiting) = Range(rs) \cap T
  <2> HIDE DEF T
  <2> QED BY OnlyFacts
<1>3. \A i \in 1..Len(waiting) : waiting[i] \in RowType(K) /\ waiting[i] \in T
  <2> HIDE DEF T, waiting
  <2> QED BY <1>2
<1> HIDE DEF waiting, ls
<1>4. ASSUME NEW i \in 1..Len(waiting)
      PROVE  /\ ls[i] \in LoadType(K) /\ ls[i].of = waiting[i].id
             /\ ls[i].before = stored /\ ls[i].search = searching
             /\ ls[i].reloaded = FALSE
  <2>1. waiting[i].id \in K
    BY <1>3 DEF RowType
  <2>2. ls[i] = [of |-> waiting[i].id, before |-> stored, nums |-> nums,
                 search |-> searching, reloaded |-> FALSE]
    BY <1>1, <1>2 DEF Load
  <2>3. /\ ls[i].of = waiting[i].id /\ ls[i].before = stored
        /\ ls[i].search = searching /\ ls[i].reloaded = FALSE
    BY <2>2
  <2>4. ls[i] \in LoadType(K)
    BY <1>1, <1>2, <2>1, LoadFacts
  <2> QED BY <2>3, <2>4
<1>5. DOMAIN ls = 1..Len(waiting) /\ ls \in Seq(LoadType(K))
  <2>1. ls \in [1..Len(waiting) -> LoadType(K)]
    BY <1>1, <1>2, <1>4
  <2>2. DOMAIN ls = 1..Len(waiting)
    BY <2>1, Zenon
  <2> QED BY <1>2, <2>1, <2>2, SequenceOf, Zenon
<1>6. ASSUME NEW l \in Range(ls)
      PROVE  /\ \E r \in Range(rs) : l.of = r.id /\ r.status = "loading"
             /\ l.before = stored /\ l.search = searching
             /\ l.reloaded = FALSE
  <2>1. PICK i \in 1..Len(waiting) : l = ls[i]
    BY <1>5 DEF Range
  <2>2. waiting[i] \in Range(rs) /\ waiting[i].status = "loading"
    BY <1>3
  <2> QED BY <1>4, <2>1, <2>2
<1>7. ASSUME NEW r \in Range(rs), r.id \in new, r.status = "loading"
      PROVE  \E l \in Range(ls) : l.of = r.id
  <2>1. r \in Range(waiting)
    BY <1>2, <1>7
  <2>2. PICK i \in 1..Len(waiting) : r = waiting[i]
    BY <1>2, <2>1 DEF Range
  <2>3. ls[i] \in Range(ls) /\ ls[i].of = r.id
    BY <1>4, <1>5, <2>2 DEF Range
  <2> QED BY <2>3
<1> QED BY <1>5, <1>6, <1>7 DEF ls, LoadsOf

\* Numbering the rules by place changes nothing else of them.
LEMMA RenumberFacts ==
  ASSUME NEW K, NEW rs \in Seq(RowType(K))
  PROVE  /\ Renumber(rs) \in Seq(RowType(K))
         /\ DOMAIN Renumber(rs) = DOMAIN rs /\ Len(Renumber(rs)) = Len(rs)
         /\ \A i \in DOMAIN rs :
              /\ Renumber(rs)[i].num = i
              /\ Renumber(rs)[i].id = rs[i].id
              /\ Renumber(rs)[i].search = rs[i].search
              /\ Renumber(rs)[i].parent = rs[i].parent
              /\ Renumber(rs)[i].status = rs[i].status
<1>1. /\ Len(rs) \in Nat /\ DOMAIN rs = 1..Len(rs)
      /\ \A i \in 1..Len(rs) : rs[i] \in RowType(K) /\ i \in Nat
  OBVIOUS
<1> DEFINE es == Renumber(rs)
<1>2. es = [i \in 1..Len(rs) |-> [rs[i] EXCEPT !.num = i]]
  BY <1>1 DEF Renumber
<1> HIDE DEF es
<1>3. ASSUME NEW i \in 1..Len(rs)
      PROVE  /\ es[i] \in RowType(K) /\ es[i].num = i
             /\ es[i].id = rs[i].id /\ es[i].search = rs[i].search
             /\ es[i].parent = rs[i].parent /\ es[i].status = rs[i].status
  BY <1>1, <1>2 DEF RowType
<1>4. es \in Seq(RowType(K)) /\ DOMAIN es = 1..Len(rs) /\ Len(es) = Len(rs)
  <2>1. es \in [1..Len(rs) -> RowType(K)]
    BY <1>2, <1>3
  <2> QED BY <1>1, <2>1
<1> QED BY <1>1, <1>3, <1>4 DEF es

-----------------------------------------------------------------------------
\* Type correctness, action by action.

\* While a page is open its table stays the same.
LEMMA Staying ==
  ASSUME PageInv, phase # "closed", phase' # "closed", table' = table
  PROVE  PageInv' /\ Known' = Known
BY DEF PageInv, Known

\* The page is left.
LEMMA ClosedTyped ==
  ASSUME NEW url \in STRING, Closed(url),
         \A s \in saving' : s.to \in STRING \cup {""}
  PROVE  Typed'
<1>1. /\ phase' = "closed" /\ at' = url /\ table' = NoTable /\ Known' = {}
      /\ stored' = <<>> /\ search' = FALSE /\ data' = <<>>
      /\ shownFor' = FALSE /\ expanded' = {} /\ selected' = <<>>
      /\ loads' = <<>> /\ action' = NoAction /\ queue' = <<>>
      /\ named' = <<>> /\ dirty' = FALSE
  BY DEF Closed, Known
<1>2. PageInv'
  BY <1>1 DEF PageInv
<1>3. Flags'
  BY <1>1 DEF Flags, Phases
<1>4. Lists'
  BY <1>1, EmptyFacts DEF Lists
<1>5. SavingInv'
  BY <1>1 DEF SavingInv
<1>6. ActionInv' /\ ModeInv'
  BY <1>1 DEF ActionInv, ModeInv
<1> QED BY <1>2, <1>3, <1>4, <1>5, <1>6 DEF Typed

\* A table page that opens is well-typed.
LEMMA OpenTyped ==
  ASSUME Typed, NEW n \in DOMAIN Tables, NEW r \in Routes, Open(n, r)
  PROVE  Typed'
<1> DEFINE t == Component(Tables[n])
<1>1. /\ phase = "closed" /\ phase' = "ready" /\ at' = r.url /\ table' = t
      /\ stored' = t.ids /\ nums' = Numbers(t) /\ acted' = {} /\ saving' = {}
      /\ UNCHANGED <<search, data, shownFor, expanded, selected, action, queue,
                     named, dirty>>
  BY DEF Open
<1>2. /\ data = <<>> /\ selected = <<>> /\ queue = <<>> /\ named = <<>>
      /\ expanded = {} /\ dirty = FALSE /\ action = NoAction
      /\ search \in BOOLEAN /\ shownFor \in BOOLEAN
  BY <1>1 DEF Typed, PageInv, Flags
<1>3. PageInv'
  BY <1>1 DEF PageInv
<1>4. t.ids \in Seq(Known') /\ Known' = Range(t.ids)
  <2>1. RowsAssumption /\ t.ids = Tables[n].ids
    BY RowsAssumption DEF Component
  <2>2. t.ids \in Seq(STRING \ {""})
    BY <2>1 DEF RowsAssumption
  <2>3. Known' = Range(t.ids)
    BY <1>1 DEF Known
  <2> HIDE DEF t
  <2> QED BY <2>2, <2>3, SeqFacts
<1> HIDE DEF t
<1>5. Numbers(t) \in [Known' -> Nat]
  <2>1. ASSUME NEW x \in Range(t.ids)
        PROVE  (CHOOSE i \in DOMAIN t.ids : t.ids[i] = x) \in Nat
    <3>1. \E i \in DOMAIN t.ids : t.ids[i] = x
      BY DEF Range
    <3>2. (CHOOSE i \in DOMAIN t.ids : t.ids[i] = x) \in DOMAIN t.ids
      BY <3>1
    <3> QED BY <1>4, <3>2
  <2> QED BY <1>4, <2>1 DEF Numbers
<1>6. loads' \in Seq(LoadType(Known'))
  <2>1. Load("", t.ids, Numbers(t), FALSE) \in LoadType(Known')
    BY <1>4, <1>5, LoadFacts, Zenon
  <2>2. <<Load("", t.ids, Numbers(t), FALSE)>> \in Seq(LoadType(Known'))
    BY <2>1, SingleFacts, Zenon
  <2>3. <<>> \in Seq(LoadType(Known'))
    OBVIOUS
  <2>4. loads' \in {<<Load("", t.ids, Numbers(t), FALSE)>>, <<>>}
    BY DEF Open, t
  <2> QED BY <2>2, <2>3, <2>4, Zenon
<1>7. r.url \in STRING
  BY RoutesAssumption
<1>8. Flags'
  BY <1>1, <1>2, <1>7 DEF Flags, Phases
<1>9. Lists' /\ SavingInv'
  BY <1>1, <1>2, <1>4, <1>5, <1>6 DEF Lists, SavingInv
<1>10. ActionInv'
  BY <1>1, <1>2 DEF ActionInv
<1>11. ModeInv'
  BY <1>1, <1>2 DEF ModeInv
<1> QED BY <1>3, <1>8, <1>9, <1>10, <1>11 DEF Typed

\* One more load is under way.
LEMMA AppendLoad ==
  ASSUME NEW K, loads \in Seq(LoadType(K)), NEW ids \in Seq(K),
         NEW ns \in [K -> Nat], NEW id \in K \cup {""},
         NEW searching \in BOOLEAN
  PROVE  /\ Append(loads, Load(id, ids, ns, searching)) \in Seq(LoadType(K))
         /\ Append(loads, RootLoad(ids, ns, searching)) \in Seq(LoadType(K))
<1>1. Load(id, ids, ns, searching) \in LoadType(K)
  BY LoadFacts
<1>2. (searching /\ table.search = "remote") \in BOOLEAN
  OBVIOUS
<1>3. RootLoad(ids, ns, searching) \in LoadType(K)
  BY <1>2, LoadFacts DEF RootLoad
<1> QED BY <1>1, <1>3, AppendFacts, Zenon

\* So it is after the timer, a reload, the choice of a log and a search.
LEMMA AskTyped ==
  ASSUME Typed, Tick \/ Reload \/ ChooseLog \/ Search
  PROVE  Typed'
<1>1. /\ phase # "closed"
      /\ UNCHANGED <<at, table, phase, stored, nums, data, shownFor, expanded,
                     selected, working, saving>>
  BY DEF Tick, Reload, ChooseLog, Search
<1>2. /\ search' \in BOOLEAN /\ dirty' \in {dirty, FALSE}
      /\ \/ loads' = loads
         \/ loads' = Append(loads, RootLoad(stored, nums, search'))
  <2>1. search \in BOOLEAN
    BY DEF Typed, Flags
  <2> QED BY <2>1 DEF Tick, Reload, ChooseLog, Search, AskRoot
<1>3. PageInv' /\ Known' = Known
  BY <1>1, Staying DEF Typed
<1>4. loads' \in Seq(LoadType(Known))
  <2>1. /\ loads \in Seq(LoadType(Known)) /\ stored \in Seq(Known)
        /\ nums \in [Known -> Nat]
    BY <1>1 DEF Typed, Lists
  <2> QED BY <1>2, <2>1, AppendLoad
<1>5. Flags'
  BY <1>1, <1>2 DEF Typed, Flags
<1>6. Lists' /\ SavingInv'
  BY <1>1, <1>3, <1>4 DEF Typed, Lists, SavingInv, working
<1>7. ActionInv'
  BY <1>1 DEF Typed, ActionInv, working
<1>8. ModeInv'
  BY <1>1, <1>2 DEF Typed, ModeInv
<1> QED BY <1>3, <1>5, <1>6, <1>7, <1>8 DEF Typed

\* A reload marks the loads that are under way.
LEMMA ReloadedFacts ==
  ASSUME NEW K, NEW ls \in Seq(LoadType(K))
  PROVE  /\ Reloaded(ls) \in Seq(LoadType(K))
         /\ DOMAIN Reloaded(ls) = DOMAIN ls
         /\ \A j \in DOMAIN ls :
              /\ Reloaded(ls)[j].of = ls[j].of
              /\ Reloaded(ls)[j].before = ls[j].before
              /\ Reloaded(ls)[j].reloaded = TRUE
<1> DEFINE es == Reloaded(ls)
<1>1. /\ Len(ls) \in Nat /\ DOMAIN ls = 1..Len(ls)
      /\ \A j \in 1..Len(ls) : ls[j] \in LoadType(K)
  OBVIOUS
<1>2. es = [j \in 1..Len(ls) |-> [ls[j] EXCEPT !.reloaded = TRUE]]
  BY <1>1 DEF Reloaded
<1> HIDE DEF es
<1>3. ASSUME NEW j \in 1..Len(ls)
      PROVE  /\ es[j] \in LoadType(K) /\ es[j].of = ls[j].of
             /\ es[j].before = ls[j].before /\ es[j].reloaded = TRUE
  <2>1. es[j] = [ls[j] EXCEPT !.reloaded = TRUE] /\ ls[j] \in LoadType(K)
    BY <1>1, <1>2
  <2>2. es[j] \in LoadType(K)
    BY <2>1 DEF LoadType
  <2>3. es[j].of = ls[j].of /\ es[j].before = ls[j].before
    BY <2>1 DEF LoadType
  <2>4. es[j].reloaded = TRUE
    BY <2>1 DEF LoadType
  <2> QED BY <2>2, <2>3, <2>4
<1>4. es \in Seq(LoadType(K)) /\ DOMAIN es = 1..Len(ls)
  <2>1. es \in [1..Len(ls) -> LoadType(K)]
    BY <1>2, <1>3
  <2> QED BY <1>1, <2>1
<1> QED BY <1>1, <1>3, <1>4 DEF es

\* The new rows are those of the answer whose names no row shown has.
LEMMA NewRowsFacts ==
  ASSUME NEW K, NEW rs \in Seq(RowType(K))
  PROVE  /\ NewRows(rs) \in Seq(RowType(K))
         /\ Range(NewRows(rs)) = {r \in Range(rs) : r.id \notin IdsOf(data)}
         /\ OneRowEach(rs) => OneRowEach(NewRows(rs))
<1> DEFINE T == {r \in Range(rs) : r.id \notin IdsOf(data)}
<1>1. NewRows(rs) = Only(rs, T)
  BY DEF NewRows
<1>2. Range(rs) \cap T = T
  OBVIOUS
<1> HIDE DEF T
<1>3. /\ Only(rs, T) \in Seq(RowType(K) \cap T)
      /\ Range(Only(rs, T)) = Range(rs) \cap T
  BY OnlyFacts
<1>4. Only(rs, T) \in Seq(RowType(K))
  BY <1>3
<1>5. OneRowEach(rs) => OneRowEach(Only(rs, T))
  BY OnlyApart DEF OneRowEach
<1> QED BY <1>1, <1>2, <1>3, <1>4, <1>5 DEF T

\* What an open page with a load has.
LEMMA LoadingPage ==
  ASSUME Typed, NEW i \in DOMAIN loads
  PROVE  /\ phase # "closed"
         /\ stored \in Seq(Known) /\ data \in Seq(RowType(Known))
         /\ selected \in Seq(RowType(Known)) /\ expanded \subseteq Known
         /\ loads \in Seq(LoadType(Known))
         /\ loads[i] \in LoadType(Known) /\ loads[i].of \in Known \cup {""}
         /\ loads[i].before \in Seq(Known) /\ loads[i].search \in BOOLEAN
         /\ loads[i].nums \in [Known -> Nat] /\ nums \in [Known -> Nat]
         /\ shownFor \in BOOLEAN
         /\ Known \subseteq STRING \ {""}
         /\ table.parent \in [Known -> STRING]
         /\ table.ordered => table.tree = ""
<1>1. loads # <<>>
  OBVIOUS
<1>2. phase # "closed"
  BY <1>1 DEF Typed, PageInv
<1>3. /\ stored \in Seq(Known) /\ data \in Seq(RowType(Known))
      /\ selected \in Seq(RowType(Known)) /\ expanded \subseteq Known
      /\ loads \in Seq(LoadType(Known)) /\ nums \in [Known -> Nat]
  BY <1>2 DEF Typed, Lists
<1>4. loads[i] \in LoadType(Known)
  BY <1>3
<1>5. /\ loads[i].of \in Known \cup {""} /\ loads[i].before \in Seq(Known)
      /\ loads[i].search \in BOOLEAN /\ loads[i].nums \in [Known -> Nat]
  BY <1>4 DEF LoadType
<1>6. shownFor \in BOOLEAN
  BY DEF Typed, Flags
<1> QED BY <1>2, <1>3, <1>4, <1>5, <1>6, PageFacts DEF Typed

\* The types of the rows, the selection and the loads after the answer to a
\* load of the root rows.
LEMMA RootRows ==
  ASSUME Typed, NEW i \in DOMAIN loads, NEW ids \in {loads[i].before, stored},
         NEW ns \in {loads[i].nums, nums}, DeliverRoot(i, ids, ns)
  PROVE  /\ data' \in Seq(RowType(Known))
         /\ selected' \in Seq(RowType(Known)) /\ Len(selected') <= Len(selected)
         /\ loads' \in Seq(LoadType(Known)) /\ expanded' \subseteq Known
         /\ shownFor' \in BOOLEAN
<1> DEFINE rs == Answered(loads[i], ids, ns)
           new == Expand(IdsOf(rs), rs)
           rest == Reloaded(Remaining(i))
           more == ChildLoads(IdsOf(new), new, loads[i].search)
<1>1. ids \in Seq(Known) /\ ns \in [Known -> Nat]
  BY LoadingPage
<1>2. /\ data' = new /\ shownFor' = loads[i].search
      /\ selected' = UpdateSelection(selected, new)
      /\ loads' = rest \o more /\ expanded' = expanded
  BY DEF DeliverRoot
<1>3. rs \in Seq(RowType(Known))
  <2>1. loads[i] \in LoadType(Known) /\ table.parent \in [Known -> STRING]
    BY LoadingPage
  <2> QED BY <1>1, <2>1, AnsweredFacts
<1> HIDE DEF rs
<1>4. new \in Seq(RowType(Known))
  BY <1>3, ExpandFacts
<1> HIDE DEF new
<1>5. /\ UpdateSelection(selected, new) \in Seq(RowType(Known))
      /\ Len(UpdateSelection(selected, new)) <= Len(selected)
  BY <1>4, LoadingPage, SelectionFacts
<1>6. rest \in Seq(LoadType(Known))
  BY LoadingPage, RemainingFacts, ReloadedFacts
<1>7. more \in Seq(LoadType(Known))
  BY <1>4, LoadingPage, ChildLoadFacts
<1> HIDE DEF rest, more
<1>8. rest \o more \in Seq(LoadType(Known))
  BY <1>6, <1>7
<1> QED BY <1>2, <1>4, <1>5, <1>8, LoadingPage

\* The same after the answer to a load of the children of a row.
LEMMA ChildRows ==
  ASSUME Typed, NEW i \in DOMAIN loads, NEW ids \in {loads[i].before, stored},
         NEW ns \in {loads[i].nums, nums}, DeliverChildren(i, ids, ns)
  PROVE  /\ data' \in Seq(RowType(Known))
         /\ selected' \in Seq(RowType(Known)) /\ Len(selected') <= Len(selected)
         /\ loads' \in Seq(LoadType(Known)) /\ expanded' \subseteq Known
         /\ shownFor' \in BOOLEAN
<1> DEFINE id == loads[i].of
           rs == Answered(loads[i], ids, ns)
           fresh == NewRows(rs)
           all == data \o fresh
           found == HasChildren(id, all)
           status == IF found THEN "expanded" ELSE "disabled"
           new == Expand(IdsOf(fresh), SetStatus(all, id, status))
           more == ChildLoads(IdsOf(fresh), new, shownFor)
<1>1. ids \in Seq(Known) /\ ns \in [Known -> Nat]
  BY LoadingPage
<1>2. /\ data' = new /\ shownFor' = shownFor
      /\ selected' = UpdateSelection(selected, new)
      /\ loads' = Remaining(i) \o more
      /\ expanded' = expanded \/ expanded' = expanded \ {id}
  BY DEF DeliverChildren
<1>3. rs \in Seq(RowType(Known))
  <2>1. loads[i] \in LoadType(Known) /\ table.parent \in [Known -> STRING]
    BY LoadingPage
  <2> QED BY <1>1, <2>1, AnsweredFacts
<1> HIDE DEF rs
<1>4. fresh \in Seq(RowType(Known))
  BY <1>3, NewRowsFacts
<1> HIDE DEF fresh
<1>5. all \in Seq(RowType(Known)) /\ status \in States
  BY <1>4, LoadingPage, CatFacts DEF States
<1> HIDE DEF all, status, id
<1>6. SetStatus(all, id, status) \in Seq(RowType(Known))
  BY <1>5, SetStatusFacts
<1>7. new \in Seq(RowType(Known))
  BY <1>6, ExpandFacts
<1> HIDE DEF new
<1>8. /\ UpdateSelection(selected, new) \in Seq(RowType(Known))
      /\ Len(UpdateSelection(selected, new)) <= Len(selected)
  BY <1>7, LoadingPage, SelectionFacts
<1>9. Remaining(i) \in Seq(LoadType(Known)) /\ more \in Seq(LoadType(Known))
  BY <1>7, LoadingPage, RemainingFacts, ChildLoadFacts
<1> HIDE DEF more
<1>10. Remaining(i) \o more \in Seq(LoadType(Known))
  BY <1>9
<1> QED BY <1>2, <1>7, <1>8, <1>10, LoadingPage

\* The answers to loads, and their failures.
LEMMA LoadTyped ==
  ASSUME Typed, NEW i \in DOMAIN loads,
         Deliver(i) \/ LoadFails(i) \/ Discard(i)
  PROVE  Typed'
<1>1. /\ phase # "closed"
      /\ UNCHANGED <<at, table, phase, stored, nums, search, working, dirty,
                     saving>>
  BY LoadingPage DEF Deliver, LoadFails, Discard
<1>2. PageInv' /\ Known' = Known
  BY <1>1, Staying DEF Typed
<1>3. /\ data' \in Seq(RowType(Known))
      /\ selected' \in Seq(RowType(Known)) /\ Len(selected') <= Len(selected)
      /\ loads' \in Seq(LoadType(Known)) /\ expanded' \subseteq Known
      /\ shownFor' \in BOOLEAN
  <2>1. CASE Deliver(i)
    BY <2>1, RootRows, ChildRows DEF Deliver
  <2>2. CASE LoadFails(i) /\ loads[i].of = ""
    <3>1. /\ data' = <<>> /\ selected' = UpdateSelection(selected, <<>>)
          /\ loads' = Reloaded(Remaining(i)) /\ expanded' = expanded
          /\ shownFor' = shownFor
      BY <2>2 DEF LoadFails
    <3>2. <<>> \in Seq(RowType(Known))
      OBVIOUS
    <3>3. /\ UpdateSelection(selected, <<>>) \in Seq(RowType(Known))
          /\ Len(UpdateSelection(selected, <<>>)) <= Len(selected)
      BY <3>2, LoadingPage, SelectionFacts
    <3>4. Reloaded(Remaining(i)) \in Seq(LoadType(Known))
      BY LoadingPage, RemainingFacts, ReloadedFacts
    <3> QED BY <3>1, <3>2, <3>3, <3>4, LoadingPage
  <2>3. CASE LoadFails(i) /\ loads[i].of # ""
    <3>1. /\ data' = SetStatus(data, loads[i].of, "collapsed")
          /\ selected' = UpdateSelection(selected, data')
          /\ loads' = Remaining(i) /\ expanded' = expanded \ {loads[i].of}
          /\ shownFor' = shownFor
      BY <2>3 DEF LoadFails, Collapsed
    <3>2. data' \in Seq(RowType(Known))
      BY <3>1, LoadingPage, SetStatusFacts DEF States
    <3>3. /\ UpdateSelection(selected, data') \in Seq(RowType(Known))
          /\ Len(UpdateSelection(selected, data')) <= Len(selected)
      BY <3>2, LoadingPage, SelectionFacts
    <3>4. Remaining(i) \in Seq(LoadType(Known))
      BY LoadingPage, RemainingFacts
    <3> QED BY <3>1, <3>2, <3>3, <3>4, LoadingPage
  <2>4. CASE Discard(i)
    <3>1. /\ loads' = Remaining(i)
          /\ UNCHANGED <<data, shownFor, expanded, selected>>
      BY <2>4 DEF Discard
    <3>2. Remaining(i) \in Seq(LoadType(Known))
      BY LoadingPage, RemainingFacts
    <3>3. /\ data \in Seq(RowType(Known)) /\ selected \in Seq(RowType(Known))
          /\ expanded \subseteq Known /\ shownFor \in BOOLEAN
      BY LoadingPage
    <3>4. Len(selected) <= Len(selected)
      BY <3>3
    <3> QED BY <3>1, <3>2, <3>3, <3>4
  <2> QED BY <2>1, <2>2, <2>3, <2>4
<1>4. Flags'
  BY <1>1, <1>3 DEF Typed, Flags
<1>5. Lists' /\ SavingInv'
  BY <1>1, <1>2, <1>3 DEF Typed, Lists, SavingInv, working
<1>6. ActionInv'
  BY <1>1 DEF Typed, ActionInv, working
<1>7. ModeInv'
  <2>1. Len(selected) \in Nat /\ Len(selected') \in Nat
    <3>1. selected \in Seq(RowType(Known))
      BY LoadingPage
    <3> QED BY <1>3, <3>1
  <2>2. Len(selected) <= 1 => Len(selected') <= 1
    BY <1>3, <2>1
  <2> QED BY <1>1, <2>2 DEF Typed, ModeInv
<1> QED BY <1>2, <1>4, <1>5, <1>6, <1>7 DEF Typed

-----------------------------------------------------------------------------
\* What an open page has.
LEMMA OpenPage ==
  ASSUME Typed, phase # "closed"
  PROVE  /\ stored \in Seq(Known) /\ data \in Seq(RowType(Known))
         /\ selected \in Seq(RowType(Known)) /\ expanded \subseteq Known
         /\ loads \in Seq(LoadType(Known)) /\ nums \in [Known -> Nat]
         /\ queue \in Seq(Known \cup {""}) /\ named \in Seq(Known)
         /\ search \in BOOLEAN /\ shownFor \in BOOLEAN /\ dirty \in BOOLEAN
         /\ Len(selected) \in Nat /\ Len(data) \in Nat
         /\ DOMAIN data = 1..Len(data)
         /\ Range(data) \subseteq RowType(Known)
         /\ Range(selected) \subseteq RowType(Known)
<1>1. /\ stored \in Seq(Known) /\ data \in Seq(RowType(Known))
      /\ selected \in Seq(RowType(Known)) /\ expanded \subseteq Known
      /\ loads \in Seq(LoadType(Known)) /\ nums \in [Known -> Nat]
      /\ queue \in Seq(Known \cup {""}) /\ named \in Seq(Known)
  BY DEF Typed, Lists
<1>2. search \in BOOLEAN /\ shownFor \in BOOLEAN /\ dirty \in BOOLEAN
  BY DEF Typed, Flags
<1>3. /\ Len(selected) \in Nat /\ Len(data) \in Nat
      /\ DOMAIN data = 1..Len(data)
  BY <1>1, SeqFacts
<1>4. /\ Range(data) \subseteq RowType(Known)
      /\ Range(selected) \subseteq RowType(Known)
  BY <1>1, SeqFacts
<1> QED BY <1>1, <1>2, <1>3, <1>4

\* The place of the selected row.
LEMMA PlaceFacts ==
  ASSUME Typed, phase # "closed"
  PROVE  /\ Place \in 0..Len(data)
         /\ Place # 0 => data[Place] = Head(selected)
         /\ Place = 0 => Head(selected) \notin Range(data)
<1> DEFINE equal == {i \in DOMAIN data : data[i] = Head(selected)}
<1>1. Len(data) \in Nat /\ DOMAIN data = 1..Len(data)
  BY OpenPage
<1>2. CASE equal = {}
  <2>1. Place = 0 /\ Head(selected) \notin Range(data)
    BY <1>2 DEF Place, Range
  <2> QED BY <1>1, <2>1
<1>3. CASE equal # {}
  <2>1. equal \in SUBSET Nat
    BY <1>1
  <2>2. \E n \in equal : \A m \in equal : n <= m
    BY <1>3, <2>1, NatLeast
  <2>3. Min(equal) \in equal
    BY <2>2 DEF Min
  <2>4. Place = Min(equal)
    BY <1>3 DEF Place
  <2>5. Place \in DOMAIN data /\ data[Place] = Head(selected)
    BY <2>3, <2>4
  <2> QED BY <1>1, <2>5
<1> QED BY <1>2, <1>3

\* A move keeps the rows; a selected row that was gone is put at the top.
LEMMA MoveFacts ==
  ASSUME Typed, phase # "closed", selected # <<>>, NEW by \in {-1, 1},
         Move(by), by = -1 => Place > 1, by = 1 => Place < Len(data)
  PROVE  \E moved \in Seq(RowType(Known)) : \E i \in DOMAIN moved :
           /\ moved[i] = Head(selected)
           /\ data' = Renumber(moved) /\ selected' = <<data'[i]>>
           /\ Range(moved) \subseteq Range(data) \cup {Head(selected)}
           /\ OneRowEach(data)
                /\ (Place = 0 => Head(selected).id \notin IdsOf(data))
              => OneRowEach(moved)
<1> DEFINE x == Head(selected)
           i == IF Place = 0 THEN 1 ELSE Place + by
           others == IF Place = 0 THEN data ELSE RemoveAt(data, Place)
           moved == InsertAt(others, i, x)
<1>1. /\ Place \in 0..Len(data) /\ (Place # 0 => data[Place] = x)
      /\ Place = 0 => x \notin Range(data)
  BY PlaceFacts
<1>2. /\ data \in Seq(RowType(Known)) /\ Len(data) \in Nat
      /\ DOMAIN data = 1..Len(data) /\ selected \in Seq(RowType(Known))
      /\ x \in RowType(Known)
  BY OpenPage, SeqFacts
<1>3. data' = Renumber(moved) /\ selected' = <<data'[i]>>
  BY DEF Move
<1>4. /\ others \in Seq(RowType(Known))
      /\ Len(others) = IF Place = 0 THEN Len(data) ELSE Len(data) - 1
      /\ Place = 0 => others = data
      /\ Place # 0 => \A j \in 1..(Len(data) - 1) :
           others[j] = IF j < Place THEN data[j] ELSE data[j + 1]
  <2>1. CASE Place = 0
    BY <1>2, <2>1
  <2>2. CASE Place # 0
    <3>1. Place \in 1..Len(data)
      BY <1>1, <1>2, <2>2
    <3> QED BY <1>2, <2>2, <3>1, RemoveFacts
  <2> QED BY <2>1, <2>2
<1>5. i \in 1..(Len(others) + 1)
  BY <1>1, <1>2, <1>4
<1> HIDE DEF x, i, others
<1>6. /\ moved \in Seq(RowType(Known)) /\ Len(moved) = Len(others) + 1
      /\ DOMAIN moved = 1..(Len(others) + 1)
      /\ \A j \in 1..(Len(others) + 1) :
           moved[j] = IF j < i THEN others[j]
                      ELSE IF j = i THEN x ELSE others[j - 1]
  <2>1. others \in Seq(RowType(Known)) /\ x \in RowType(Known)
    BY <1>2, <1>4
  <2> QED BY <1>5, <2>1, InsertFacts
<1> HIDE DEF moved
<1>7. /\ moved[i] = x /\ i \in DOMAIN moved
      /\ i \in Nat /\ Len(others) \in Nat /\ Place \in Nat
      /\ \A j \in DOMAIN moved : j \in Nat
  <2>1. Len(others) \in Nat /\ Place \in Nat
    BY <1>1, <1>4, SeqFacts
  <2>2. i \in Nat /\ \A j \in 1..(Len(others) + 1) : j \in Nat
    BY <1>5, <2>1
  <2> QED BY <1>5, <1>6, <2>1, <2>2
\* Where each row comes from: 0 stands for the selected row.
<1> DEFINE o(j) == IF j < i THEN j ELSE j - 1
           from(j) == IF j = i THEN Place
                      ELSE IF Place = 0 \/ o(j) < Place THEN o(j)
                      ELSE o(j) + 1
<1>8. ASSUME NEW j \in DOMAIN moved
      PROVE  /\ from(j) \in 0..Len(data)
             /\ from(j) = 0 => j = i /\ Place = 0
             /\ moved[j] = IF from(j) = 0 THEN x ELSE data[from(j)]
  <2>1. j \in Nat /\ i \in Nat /\ Len(others) \in Nat /\ Place \in Nat
    BY <1>7
  <2>2. CASE j = i
    BY <1>1, <1>7, <2>1, <2>2
  <2>3. CASE j # i
    <3>1. o(j) \in 1..Len(others) /\ moved[j] = others[o(j)]
      BY <1>4, <1>5, <1>6, <2>1, <2>3
    <3> HIDE DEF o
    <3>2. CASE Place = 0
      BY <1>2, <1>4, <2>1, <2>3, <3>1, <3>2
    <3>3. CASE Place # 0
      <4>1. o(j) \in 1..(Len(data) - 1)
        BY <1>4, <3>1, <3>3
      <4>2. others[o(j)] = IF o(j) < Place THEN data[o(j)]
                           ELSE data[o(j) + 1]
        BY <1>4, <3>3, <4>1
      <4>3. from(j) = IF o(j) < Place THEN o(j) ELSE o(j) + 1
        BY <2>3, <3>3
      <4>4. from(j) \in 1..Len(data) /\ moved[j] = data[from(j)]
        BY <1>2, <3>1, <4>1, <4>2, <4>3
      <4> QED BY <1>2, <4>4
    <3> QED BY <3>2, <3>3
  <2> QED BY <2>2, <2>3
<1>9. ASSUME NEW j \in DOMAIN moved, NEW k \in DOMAIN moved, from(j) = from(k)
      PROVE  j = k
  <2>1. j \in Nat /\ k \in Nat /\ i \in Nat /\ Place \in Nat
    BY <1>7
  <2>2. CASE Place = 0
    BY <1>8, <1>9, <2>1, <2>2
  <2>3. CASE Place # 0
    BY <1>8, <1>9, <2>1, <2>3
  <2> QED BY <2>2, <2>3
<1> HIDE DEF from
<1>10. Range(moved) \subseteq Range(data) \cup {x}
  BY <1>2, <1>8 DEF Range
<1>11. ASSUME OneRowEach(data), Place = 0 => x.id \notin IdsOf(data)
       PROVE  OneRowEach(moved)
  <2> SUFFICES ASSUME NEW j \in DOMAIN moved, NEW k \in DOMAIN moved,
                      moved[j].id = moved[k].id
               PROVE  j = k
    BY DEF OneRowEach
  <2>1. from(j) = from(k)
    <3>1. CASE from(j) = 0 \/ from(k) = 0
      <4>1. Place = 0 /\ \A r \in Range(data) : r.id # x.id
        BY <1>8, <1>11, <3>1 DEF IdsOf
      <4> QED BY <1>2, <1>8, <3>1, <4>1 DEF Range
    <3>2. CASE from(j) # 0 /\ from(k) # 0
      <4>1. from(j) \in DOMAIN data /\ from(k) \in DOMAIN data
        BY <1>2, <1>8, <3>2
      <4> QED BY <1>8, <1>11, <3>2, <4>1 DEF OneRowEach
    <3> QED BY <3>1, <3>2
  <2> QED BY <1>9, <2>1
<1> QED BY <1>3, <1>6, <1>7, <1>10, <1>11 DEF x

\* The names of rows.
LEMMA NamesFacts ==
  ASSUME NEW K, NEW rs \in Seq(RowType(K))
  PROVE  /\ Names(rs) \in Seq(K)
         /\ Len(Names(rs)) = Len(rs)
         /\ Range(Names(rs)) = IdsOf(rs)
         /\ OneRowEach(rs) => Distinct(Names(rs))
<1>1. /\ Len(rs) \in Nat /\ DOMAIN rs = 1..Len(rs)
      /\ \A i \in 1..Len(rs) : rs[i].id \in K
  <2>1. \A i \in DOMAIN rs : rs[i] \in RowType(K)
    OBVIOUS
  <2> QED BY <2>1, SeqFacts DEF RowType
<1> DEFINE ns == Names(rs)
<1>2. ns = [i \in 1..Len(rs) |-> rs[i].id]
  BY <1>1 DEF Names
<1> HIDE DEF ns
<1>3. ns \in Seq(K) /\ Len(ns) = Len(rs) /\ DOMAIN ns = 1..Len(rs)
  <2>1. ns \in [1..Len(rs) -> K]
    BY <1>1, <1>2
  <2> QED BY <1>1, <2>1
<1>4. \A x \in IdsOf(rs) : x \in Range(ns)
  BY <1>1, <1>2, <1>3 DEF IdsOf, Range
<1>5. \A x \in Range(ns) : x \in IdsOf(rs)
  BY <1>1, <1>2, <1>3 DEF IdsOf, Range
<1>6. OneRowEach(rs) => Distinct(ns)
  BY <1>1, <1>2, <1>3 DEF OneRowEach, Distinct
<1> QED BY <1>3, <1>4, <1>5, <1>6 DEF ns

\* A row that is expanded or collapsed leaves the page well-typed.
LEMMA ToggleTyped ==
  ASSUME Typed, NEW r \in Range(data), Toggle(r)
  PROVE  Typed'
<1>1. /\ phase = "ready" /\ table.tree # ""
      /\ selected' = UpdateSelection(selected, data')
      /\ UNCHANGED <<at, table, phase, stored, nums, search, shownFor, working,
                     dirty, saving>>
  BY DEF Toggle
<1>2. PageInv' /\ Known' = Known
  BY <1>1, Staying DEF Typed
<1>3. r.id \in Known
  BY <1>1, OpenPage DEF RowType
<1>4. /\ \E status \in States : data' = SetStatus(data, r.id, status)
      /\ expanded' \subseteq Known
      /\ \/ loads' = loads
         \/ loads' = Append(loads, Load(r.id, stored, nums, shownFor))
  <2>1. expanded \subseteq Known
    BY <1>1, OpenPage
  <2> QED BY <1>3, <2>1 DEF Toggle, States
<1>5. data' \in Seq(RowType(Known))
  <2>1. data \in Seq(RowType(Known))
    BY <1>1, OpenPage
  <2> QED BY <1>4, <2>1, SetStatusFacts
<1>6. selected' \in Seq(RowType(Known)) /\ Len(selected') <= Len(selected)
  BY <1>1, <1>5, OpenPage, SelectionFacts
<1>7. loads' \in Seq(LoadType(Known))
  <2>1. /\ loads \in Seq(LoadType(Known)) /\ stored \in Seq(Known)
        /\ nums \in [Known -> Nat] /\ shownFor \in BOOLEAN
    BY <1>1, OpenPage
  <2>2. Append(loads, Load(r.id, stored, nums, shownFor))
          \in Seq(LoadType(Known))
    BY <1>3, <2>1, AppendLoad
  <2> QED BY <1>4, <2>1, <2>2
<1>8. Flags'
  BY <1>1 DEF Typed, Flags
<1>9. Lists' /\ SavingInv'
  BY <1>1, <1>2, <1>4, <1>5, <1>6, <1>7
  DEF Typed, Lists, SavingInv, working
<1>10. ActionInv'
  BY <1>1 DEF Typed, ActionInv, working
<1>11. ModeInv'
  <2>1. Len(selected) \in Nat /\ Len(selected') \in Nat
    BY <1>1, <1>6, OpenPage, SeqFacts
  <2>2. Len(selected) <= 1 => Len(selected') <= 1
    BY <1>6, <2>1
  <2> QED BY <1>1, <2>2 DEF Typed, ModeInv
<1> QED BY <1>2, <1>8, <1>9, <1>10, <1>11 DEF Typed

\* What is left of the selection, or a new row that joins it.
LEMMA PickFacts ==
  ASSUME Typed, phase = "ready", NEW r \in Range(data), Pick(r)
  PROVE  LET kept == IF table.select = "multi" THEN selected ELSE <<>> IN
         /\ selected' \in Seq(RowType(Known))
         /\ table.select # "multi" => Len(selected') <= 1
         /\ kept \in Seq(RowType(Known))
         /\ Range(kept) \subseteq Range(selected)
         /\ r.id \in IdsOf(selected) =>
              Range(selected') = {x \in Range(kept) : x.id # r.id}
         /\ r.id \notin IdsOf(selected) =>
              Range(selected') = Range(kept) \cup {r}
<1> DEFINE kept == IF table.select = "multi" THEN selected ELSE <<>>
           others == {x \in Range(kept) : x.id # r.id}
<1>1. /\ kept \in Seq(RowType(Known)) /\ r \in RowType(Known)
      /\ Range(kept) \subseteq Range(selected)
      /\ table.select # "multi" => kept = <<>> /\ Len(kept) = 0
  <2>1. <<>> \in Seq(RowType(Known)) /\ Range(<<>>) = {} /\ Len(<<>>) = 0
    BY DEF Range
  <2> QED BY <2>1, OpenPage
<1>2. IF r.id \in IdsOf(selected) THEN selected' = Only(kept, others)
      ELSE selected' = Append(kept, r)
  BY DEF Pick
<1>3. Range(kept) \cap others = others
  OBVIOUS
<1>4. Len(kept) \in Nat
  BY <1>1, SeqFacts
<1> HIDE DEF kept, others
<1>5. /\ Only(kept, others) \in Seq(RowType(Known) \cap others)
      /\ Len(Only(kept, others)) \in Nat
      /\ Len(Only(kept, others)) <= Len(kept)
      /\ Range(Only(kept, others)) = Range(kept) \cap others
  BY <1>1, OnlyFacts
<1>6. Only(kept, others) \in Seq(RowType(Known))
  BY <1>5
<1>7. /\ Append(kept, r) \in Seq(RowType(Known))
      /\ Range(Append(kept, r)) = Range(kept) \cup {r}
      /\ Len(Append(kept, r)) = Len(kept) + 1
  BY <1>1, AppendFacts
<1>8. selected' \in Seq(RowType(Known))
  BY <1>2, <1>6, <1>7
<1>9. table.select # "multi" => Len(selected') <= 1
  BY <1>1, <1>2, <1>4, <1>5, <1>7
<1>10. /\ r.id \in IdsOf(selected) => Range(selected') = others
       /\ r.id \notin IdsOf(selected) => Range(selected') = Range(kept) \cup {r}
  BY <1>2, <1>3, <1>5, <1>7
<1> QED BY <1>1, <1>8, <1>9, <1>10 DEF kept, others

\* So does a row that is selected or unselected.
LEMMA PickTyped ==
  ASSUME Typed, NEW r \in Range(data), Pick(r)
  PROVE  Typed'
<1>1. /\ phase = "ready"
      /\ UNCHANGED <<at, table, phase, stored, nums, search, data, shownFor,
                     expanded, loads, working, dirty, saving>>
  BY DEF Pick
<1>2. PageInv' /\ Known' = Known
  BY <1>1, Staying DEF Typed
<1>3. /\ selected' \in Seq(RowType(Known))
      /\ table.select # "multi" => Len(selected') <= 1
  BY <1>1, PickFacts
<1>4. Flags'
  BY <1>1 DEF Typed, Flags
<1>5. Lists' /\ SavingInv'
  BY <1>1, <1>2, <1>3 DEF Typed, Lists, SavingInv, working
<1>6. ActionInv'
  BY <1>1 DEF Typed, ActionInv, working
<1>7. ModeInv'
  BY <1>1, <1>3 DEF Typed, ModeInv
<1> QED BY <1>2, <1>4, <1>5, <1>6, <1>7 DEF Typed

\* The URLs that an action leads to, and those the rows are sent with.
LEMMA LeaveTyped ==
  ASSUME Typed,
         \/ Leave
         \/ CloseDialog /\ phase' = "closed"
         \/ \E a \in table.actions : Follow(a)
         \/ \E s \in saving : SaveSucceeds(s) /\ s.to # ""
  PROVE  Typed' /\ \E url : Closed(url)
<1>1. saving' \subseteq saving
  BY DEF Leave, CloseDialog, Follow, SaveSucceeds
<1>2. \A s \in saving' : s.to \in STRING \cup {""}
  BY <1>1 DEF Typed, SavingInv
<1>3. \E url \in STRING : Closed(url)
  <2>1. CASE Leave
    <3>1. "/dashboard" \in STRING
      BY RoutesAssumption
    <3>2. Closed("/dashboard")
      BY <2>1 DEF Leave
    <3> QED BY <3>1, <3>2
  <2>2. CASE CloseDialog /\ phase' = "closed"
    <3>1. phase \in {"completed", "broken"} /\ ~(phase' = "ready")
      BY <2>2 DEF CloseDialog
    <3>2. \E url \in action.urls : Closed(url)
      BY <2>2, <3>1 DEF CloseDialog, Done
    <3>3. action.urls \subseteq STRING
      <4>1. action \in table.actions
        BY <3>1 DEF Typed, ActionInv
      <4> QED BY <3>1, <4>1, PageFacts DEF Typed
    <3> QED BY <3>2, <3>3
  <2>3. CASE \E a \in table.actions : Follow(a)
    <3>1. PICK a \in table.actions : Follow(a)
      BY <2>3
    <3>2. \E url \in a.urls : Closed(url)
      BY <3>1 DEF Follow
    <3>3. phase # "closed"
      BY <3>1 DEF Follow
    <3>4. a.urls \subseteq STRING
      BY <3>3, PageFacts DEF Typed
    <3> QED BY <3>2, <3>4
  <2>4. CASE \E s \in saving : SaveSucceeds(s) /\ s.to # ""
    <3>1. PICK s \in saving : SaveSucceeds(s) /\ s.to # ""
      BY <2>4
    <3>2. Closed(s.to)
      BY <3>1 DEF SaveSucceeds
    <3> QED BY <3>1, <3>2 DEF Typed, SavingInv
  <2> QED BY <2>1, <2>2, <2>3, <2>4
<1> QED BY <1>2, <1>3, ClosedTyped

\* The requests and dialogs of an action leave what the page shows alone.
Works(a) ==
  \/ Click(a) \/ Confirm \/ Decline \/ RequestFails
  \/ EndTask("completed") \/ EndTask("broken")

\* What an action starts with: its dialog, or a row of requests that is not
\* empty.
LEMMA StartTyped ==
  ASSUME Typed, phase # "closed", NEW a, NEW ids \in Seq(Known), Start(a, ids)
  PROVE  /\ phase' \in {"working", "task"} /\ action' = a
         /\ queue' \in Seq(Known \cup {""})
         /\ phase' = "working" <=> queue' # <<>>
         /\ acted' = IF a.needs THEN Range(ids) ELSE {}
<1>1. ids \in Seq(Known \cup {""})
  BY WiderSeq
<1>2. <<"">> \in Seq(Known \cup {""}) /\ <<"">> # <<>>
  OBVIOUS
<1>3. <<>> \in Seq(Known \cup {""})
  BY EmptyFacts
<1>4. action' = a /\ acted' = IF a.needs THEN Range(ids) ELSE {}
  BY Zenon DEF Start
<1>5. \/ phase' = "working" /\ queue' \in {<<"">>, ids} /\ queue' # <<>>
      \/ phase' = "task" /\ queue' = <<>>
  BY <1>2 DEF Start
<1> QED BY <1>1, <1>2, <1>3, <1>4, <1>5

\* Clicks, confirmations, failures and dialogs leave the page well-typed.
LEMMA WorkTyped ==
  ASSUME Typed, NEW a \in table.actions, Works(a)
  PROVE  Typed'
<1>1. /\ phase # "closed" /\ phase' \in Phases \ {"closed"}
      /\ UNCHANGED <<at, table, stored, nums, search, data, shownFor, expanded,
                     selected, loads, dirty, saving>>
  BY DEF Works, Click, Confirm, Decline, Done, RequestFails, EndTask, Start,
         Phases
<1>2. PageInv' /\ Known' = Known
  BY <1>1, Staying DEF Typed
<1>3. /\ Names(selected) \in Seq(Known) /\ named \in Seq(Known)
      /\ queue \in Seq(Known \cup {""})
      /\ <<>> \in Seq(Known) /\ <<>> \in Seq(Known \cup {""})
  <2>1. selected \in Seq(RowType(Known))
    BY <1>1, OpenPage
  <2>2. Names(selected) \in Seq(Known)
    BY <2>1, NamesFacts
  <2>3. <<>> \in Seq(Known) /\ <<>> \in Seq(Known \cup {""})
    BY EmptyFacts
  <2> QED BY <1>1, <2>2, <2>3, OpenPage
<1>4. /\ queue' \in Seq(Known \cup {""}) /\ named' \in Seq(Known)
      /\ phase' = "working" <=> queue' # <<>>
      /\ phase' = "ready" =>
           action' = NoAction /\ named' = <<>> /\ acted' = {}
      /\ phase' # "ready" =>
           action' \in table.actions /\ action'.what \in {"request", "dialog"}
  <2>1. CASE Click(a)
    <3>1. /\ named' = Names(selected) /\ a.what \in {"request", "dialog"}
          /\ \/ phase' = "asking" /\ action' = a /\ queue' = <<>>
             \/ Start(a, Names(selected))
      BY <2>1 DEF Click
    <3>2. CASE Start(a, Names(selected))
      BY <1>1, <1>3, <3>1, <3>2, StartTyped
    <3> QED BY <1>3, <3>1, <3>2
  <2>2. CASE Confirm
    <3> DEFINE ids == IF action.bound THEN named ELSE Names(selected)
    <3>1. phase = "asking" /\ Start(action, ids) /\ named' = named
      BY <2>2 DEF Confirm
    <3>2. ids \in Seq(Known)
      BY <1>3
    <3>3. action \in table.actions /\ action.what \in {"request", "dialog"}
      BY <3>1 DEF Typed, ActionInv
    <3> HIDE DEF ids
    <3> QED BY <1>1, <1>3, <3>1, <3>2, <3>3, StartTyped
  <2>3. CASE Decline \/ RequestFails
    BY <1>3, <2>3 DEF Decline, RequestFails, Done
  <2>4. CASE EndTask("completed") \/ EndTask("broken")
    <3>1. /\ phase = "task" /\ phase' \in {"completed", "broken"}
          /\ UNCHANGED working
      BY <2>4 DEF EndTask
    <3> QED BY <1>3, <3>1 DEF Typed, ActionInv, working
  <2> QED BY <2>1, <2>2, <2>3, <2>4 DEF Works
<1>5. Flags'
  BY <1>1 DEF Typed, Flags
<1>6. Lists' /\ SavingInv'
  BY <1>1, <1>2, <1>4 DEF Typed, Lists, SavingInv
<1>7. ActionInv'
  BY <1>1, <1>4 DEF Typed, ActionInv
<1>8. ModeInv'
  BY <1>1 DEF Typed, ModeInv
<1> QED BY <1>2, <1>5, <1>6, <1>7, <1>8 DEF Typed

\* What the backend has after a request: a row less at most.
LEMMA RequestFacts ==
  ASSUME Typed, RequestSucceeds
  PROVE  /\ phase = "working" /\ phase' \in {"working", "ready"}
         /\ stored' \in Seq(Known)
         /\ Distinct(stored) => Distinct(stored')
         /\ loads' = Append(loads, RootLoad(stored', nums, search))
         /\ queue # <<>> /\ queue' \in Seq(Known \cup {""})
         /\ phase' = "working" =>
              queue' # <<>> /\ UNCHANGED <<action, named, acted>>
         /\ phase' = "ready" => Done
         /\ UNCHANGED <<at, table, nums, search, data, shownFor, expanded,
                        selected, picked, dirty, saving>>
<1>1. /\ phase = "working"
      /\ loads' = Append(loads, RootLoad(stored', nums, search))
      /\ IF Len(queue) = 1 THEN Done
         ELSE queue' = Tail(queue) /\ UNCHANGED <<phase, action, named, acted>>
      /\ UNCHANGED <<at, table, nums, search, data, shownFor, expanded,
                     selected, picked, dirty, saving>>
  BY DEF RequestSucceeds
<1>2. /\ stored \in Seq(Known) /\ queue \in Seq(Known \cup {""})
      /\ queue # <<>>
  BY <1>1, OpenPage DEF Typed, ActionInv
<1>3. stored' \in Seq(Known) /\ (Distinct(stored) => Distinct(stored'))
  <2> DEFINE T == Range(stored) \ {Head(queue)}
  <2>1. stored' \in {Only(stored, T), stored}
    BY DEF RequestSucceeds
  <2> HIDE DEF T
  <2>2. Only(stored, T) \in Seq(Known \cap T)
    BY <1>2, OnlyFacts
  <2>3. Only(stored, T) \in Seq(Known)
    BY <2>2
  <2>4. Distinct(stored) => Distinct(Only(stored, T))
    BY <1>2, OnlyDistinct
  <2> QED BY <1>2, <2>1, <2>3, <2>4
<1>4. /\ <<>> \in Seq(Known \cup {""})
      /\ Tail(queue) \in Seq(Known \cup {""})
      /\ Len(queue) # 1 => Tail(queue) # <<>>
  <2> DEFINE K == Known \cup {""}
  <2> HIDE DEF K
  <2>1. queue \in Seq(K) /\ queue # <<>>
    BY <1>2 DEF K
  <2>2. Tail(queue) \in Seq(K)
    BY <2>1
  <2>3. Len(queue) \in Nat \ {0} /\ Len(Tail(queue)) = Len(queue) - 1
    BY <2>1
  <2>4. Len(queue) # 1 => Tail(queue) # <<>>
    BY <2>3, EmptyFacts
  <2> QED BY <2>2, <2>4, EmptyFacts DEF K
<1> QED BY <1>1, <1>2, <1>3, <1>4 DEF Done

\* So does a request that succeeds.
LEMMA RequestTyped ==
  ASSUME Typed, RequestSucceeds
  PROVE  Typed'
<1>1. /\ phase = "working" /\ phase' \in {"working", "ready"}
      /\ stored' \in Seq(Known)
      /\ loads' = Append(loads, RootLoad(stored', nums, search))
      /\ queue # <<>> /\ queue' \in Seq(Known \cup {""})
      /\ phase' = "working" =>
           queue' # <<>> /\ UNCHANGED <<action, named, acted>>
      /\ phase' = "ready" => Done
      /\ UNCHANGED <<at, table, nums, search, data, shownFor, expanded,
                     selected, dirty, saving>>
  BY RequestFacts
<1>2. PageInv' /\ Known' = Known
  BY <1>1, Staying DEF Typed
<1>3. loads' \in Seq(LoadType(Known))
  <2>1. /\ loads \in Seq(LoadType(Known)) /\ search \in BOOLEAN
        /\ nums \in [Known -> Nat]
    BY <1>1, OpenPage
  <2> QED BY <1>1, <2>1, AppendLoad
<1>4. named' \in Seq(Known) /\ (phase' = "ready" => queue' = <<>>)
  <2>1. named \in Seq(Known) /\ <<>> \in Seq(Known)
    BY <1>1, OpenPage, EmptyFacts
  <2> QED BY <1>1, <2>1 DEF Done
<1>5. Flags'
  BY <1>1 DEF Typed, Flags, Phases
<1>6. Lists' /\ SavingInv'
  BY <1>1, <1>2, <1>3, <1>4 DEF Typed, Lists, SavingInv
<1>7. ActionInv'
  BY <1>1, <1>4 DEF Typed, ActionInv, Done
<1>8. ModeInv'
  BY <1>1 DEF Typed, ModeInv
<1> QED BY <1>2, <1>5, <1>6, <1>7, <1>8 DEF Typed

\* A dialog that does not lead away reloads the table or not.
LEMMA CloseFacts ==
  ASSUME CloseDialog, phase' # "closed"
  PROVE  /\ phase \in {"completed", "broken"} /\ Done
         /\ loads' \in {loads, Append(loads, RootLoad(stored, nums, search))}
         /\ UNCHANGED <<at, table, stored, nums, search, data, shownFor,
                        expanded, selected, picked, dirty, saving>>
BY DEF CloseDialog, Closed

\* So does a dialog that is closed.
LEMMA CloseTyped ==
  ASSUME Typed, CloseDialog, phase' # "closed"
  PROVE  Typed'
<1>1. /\ phase \in {"completed", "broken"} /\ Done
      /\ loads' \in {loads, Append(loads, RootLoad(stored, nums, search))}
      /\ UNCHANGED <<at, table, stored, nums, search, data, shownFor, expanded,
                     selected, dirty, saving>>
  BY CloseFacts
<1>2. PageInv' /\ Known' = Known
  BY <1>1, Staying DEF Typed, Done
<1>3. loads' \in Seq(LoadType(Known))
  <2>1. /\ loads \in Seq(LoadType(Known)) /\ search \in BOOLEAN
        /\ stored \in Seq(Known) /\ nums \in [Known -> Nat]
    BY <1>1, OpenPage
  <2> QED BY <1>1, <2>1, AppendLoad
<1>4. Flags'
  BY <1>1 DEF Typed, Flags, Phases, Done
<1>5. Lists' /\ SavingInv'
  <2>1. <<>> \in Seq(Known) /\ <<>> \in Seq(Known \cup {""})
    BY EmptyFacts
  <2>2. queue' = <<>> /\ named' = <<>>
    BY <1>1 DEF Done
  <2> QED BY <1>1, <1>2, <1>3, <2>1, <2>2 DEF Typed, Lists, SavingInv
<1>6. ActionInv' /\ ModeInv'
  BY <1>1 DEF Typed, ActionInv, ModeInv, Done
<1> QED BY <1>2, <1>4, <1>5, <1>6 DEF Typed

\* The rules of a firewall page are moved: one of them is selected.
LEMMA OfferedFacts ==
  ASSUME Typed, phase = "ready", NEW what, Offered(what)
  PROVE  /\ what \in {"up", "down"} => selected # <<>>
         /\ what \in {"up", "down", "remove", "saveRules"} => table.ordered
<1>1. PICK a \in table.actions : a.what = what /\ Enabled(a)
  BY DEF Offered
<1>2. /\ a.min \in Nat /\ a.max \in Nat
      /\ a.what \in {"up", "down"} => a.min > 0
      /\ a.what \in {"up", "down", "remove", "saveRules"} => table.ordered
  BY PageFacts DEF Typed
<1>3. Len(selected) \in a.min..a.max
  BY <1>1 DEF Enabled
<1>4. what \in {"up", "down"} => Len(selected) > 0
  BY <1>1, <1>2, <1>3
<1>5. Len(selected) > 0 => selected # <<>>
  BY EmptyFacts
<1> QED BY <1>1, <1>2, <1>4, <1>5

\* What a rule that is moved leaves: the rows and the selection.
LEMMA UpDownFacts ==
  ASSUME Typed, Up \/ Down
  PROVE  /\ phase = "ready" /\ table.ordered /\ selected # <<>>
         /\ UNCHANGED <<at, table, phase, stored, nums, search, shownFor,
                        expanded, loads, working, picked, saving>>
         /\ dirty' = TRUE
         /\ \E moved \in Seq(RowType(Known)) : \E i \in DOMAIN moved :
              /\ moved[i] = Head(selected)
              /\ data' = Renumber(moved) /\ selected' = <<data'[i]>>
              /\ Range(moved) \subseteq Range(data) \cup {Head(selected)}
              /\ OneRowEach(data)
                   /\ (Place = 0 => Head(selected).id \notin IdsOf(data))
                 => OneRowEach(moved)
<1>1. /\ phase = "ready" /\ dirty' = TRUE
      /\ UNCHANGED <<at, table, phase, stored, nums, search, shownFor,
                     expanded, loads, working, picked, saving>>
  BY DEF Up, Down, Edited
<1>2. table.ordered /\ selected # <<>>
  BY <1>1, OfferedFacts DEF Up, Down
<1>3. \E by \in {-1, 1} :
        Move(by) /\ (by = -1 => Place > 1) /\ (by = 1 => Place < Len(data))
  <2>1. CASE Up
    <3>1. Move(-1) /\ Place > 1
      BY <2>1 DEF Up
    <3> QED BY <3>1
  <2>2. CASE Down
    <3>1. Move(1) /\ Place < Len(data)
      BY <2>2 DEF Down
    <3> QED BY <3>1
  <2> QED BY <2>1, <2>2
<1>4. PICK by \in {-1, 1} :
        Move(by) /\ (by = -1 => Place > 1) /\ (by = 1 => Place < Len(data))
  BY <1>3
<1> QED BY <1>1, <1>2, <1>4, MoveFacts

\* The rules that are left when the selected ones have been removed.
LEMMA RemoveRulesFacts ==
  ASSUME Typed, RemoveRules
  PROVE  /\ phase = "ready" /\ table.ordered /\ dirty' = TRUE
         /\ UNCHANGED <<at, table, phase, stored, nums, search, shownFor,
                        expanded, selected, loads, working, picked, saving>>
         /\ \E left \in Seq(RowType(Known)) :
              /\ data' = Renumber(left)
              /\ Range(left) =
                   {r \in Range(data) :
                      r.num \notin {x.num : x \in Range(selected)}}
              /\ OneRowEach(data) => OneRowEach(left)
<1> DEFINE gone == {x.num : x \in Range(selected)}
           T == {r \in Range(data) : r.num \notin gone}
<1>1. /\ phase = "ready" /\ Offered("remove") /\ dirty' = TRUE
      /\ data' = Renumber(Only(data, T))
      /\ UNCHANGED <<at, table, phase, stored, nums, search, shownFor,
                     expanded, selected, loads, working, picked, saving>>
  BY DEF RemoveRules, Edited
<1>2. table.ordered /\ data \in Seq(RowType(Known))
  BY <1>1, OfferedFacts, OpenPage
<1>3. Range(data) \cap T = T
  OBVIOUS
<1> HIDE DEF gone
<1>4. /\ Only(data, T) \in Seq(RowType(Known)) /\ Range(Only(data, T)) = T
      /\ OneRowEach(data) => OneRowEach(Only(data, T))
  <2> HIDE DEF T
  <2>1. /\ Only(data, T) \in Seq(RowType(Known) \cap T)
        /\ Range(Only(data, T)) = Range(data) \cap T
    BY <1>2, OnlyFacts
  <2> QED BY <1>2, <1>3, <2>1, OnlyDistinct, WiderSeq
<1> QED BY <1>1, <1>2, <1>4 DEF gone

\* So do rules that are moved and removed.
LEMMA EditTyped ==
  ASSUME Typed, Up \/ Down \/ RemoveRules
  PROVE  Typed'
<1>1. /\ phase = "ready" /\ table.ordered /\ dirty' = TRUE
      /\ UNCHANGED <<at, table, phase, stored, nums, search, shownFor,
                     expanded, loads, working, saving>>
  BY UpDownFacts, RemoveRulesFacts
<1>2. PageInv' /\ Known' = Known
  BY <1>1, Staying DEF Typed
<1>3. /\ data' \in Seq(RowType(Known)) /\ selected' \in Seq(RowType(Known))
      /\ Len(selected') = 1 \/ selected' = selected
  <2>1. CASE Up \/ Down
    <3>1. PICK moved \in Seq(RowType(Known)) : \E i \in DOMAIN moved :
            data' = Renumber(moved) /\ selected' = <<data'[i]>>
      BY <2>1, UpDownFacts
    <3>2. PICK i \in DOMAIN moved : selected' = <<data'[i]>>
      BY <3>1
    <3>3. data' \in Seq(RowType(Known)) /\ i \in DOMAIN data'
      BY <3>1, RenumberFacts
    <3>4. data'[i] \in RowType(Known)
      BY <3>3
    <3> QED BY <3>2, <3>3, <3>4, SingleFacts
  <2>2. CASE RemoveRules
    <3>1. data' \in Seq(RowType(Known)) /\ selected' = selected
      BY <2>2, RemoveRulesFacts, RenumberFacts
    <3>2. selected \in Seq(RowType(Known))
      BY <1>1, OpenPage
    <3> QED BY <3>1, <3>2
  <2> QED BY <2>1, <2>2
<1>4. Flags'
  BY <1>1 DEF Typed, Flags
<1>5. Lists' /\ SavingInv'
  BY <1>1, <1>2, <1>3 DEF Typed, Lists, SavingInv, working
<1>6. ActionInv'
  BY <1>1 DEF Typed, ActionInv, working
<1>7. ModeInv'
  <2>1. table' = table /\ phase' = phase
    BY <1>1
  <2>2. Len(selected') = 1 => Len(selected') <= 1
    OBVIOUS
  <2> QED BY <1>1, <1>3, <2>1, <2>2 DEF Typed, ModeInv
<1> QED BY <1>2, <1>4, <1>5, <1>6, <1>7 DEF Typed

\* Rules that are saved have numbers.
LEMMA RenumberedFacts ==
  ASSUME NEW K, nums \in [K -> Nat], NEW rs \in Seq(RowType(K))
  PROVE  Renumbered(rs) \in [K -> Nat]
<1>1. ASSUME NEW x \in IdsOf(rs)
      PROVE  (CHOOSE r \in Range(rs) : r.id = x).num \in Nat
  <2>1. \E r \in Range(rs) : r.id = x
    BY DEF IdsOf
  <2>2. (CHOOSE r \in Range(rs) : r.id = x) \in Range(rs)
    BY <2>1
  <2>3. Range(rs) \subseteq RowType(K)
    BY SeqFacts
  <2> QED BY <2>2, <2>3 DEF RowType
<1> QED BY <1>1 DEF Renumbered

\* The rows are sent, and the answers to that come.
LEMMA SaveTyped ==
  ASSUME Typed,
         \/ SaveRules \/ SaveCells
         \/ \E s \in saving : SaveSucceeds(s) /\ s.to = ""
         \/ \E s \in saving : SaveFails(s)
  PROVE  Typed'
<1>1. /\ dirty' \in {dirty, FALSE}
      /\ UNCHANGED <<at, table, phase, search, data, shownFor, expanded,
                     selected, loads, working>>
  BY DEF SaveRules, SaveCells, SaveSucceeds, SaveFails
<1>2. /\ Known' = Known
      /\ phase = "closed" => stored = <<>> /\ dirty = FALSE
  BY <1>1 DEF Known, Typed, PageInv
<1>3. /\ stored' \in Seq(Known) /\ (phase = "closed" => stored' = <<>>)
      /\ phase # "closed" => nums' \in [Known -> Nat]
      /\ \A s \in saving' :
           /\ s.to \in STRING \cup {""}
           /\ phase # "closed" => s.rows \in Seq(RowType(Known))
  <2>1. CASE SaveRules
    <3>1. /\ phase = "ready" /\ stored' = stored /\ nums' = nums
          /\ saving' = saving \union {[to |-> "", rows |-> data]}
      BY <2>1 DEF SaveRules
    <3>2. /\ data \in Seq(RowType(Known)) /\ stored \in Seq(Known)
          /\ nums \in [Known -> Nat]
      BY <3>1, OpenPage
    <3>3. \A s \in saving :
            s.to \in STRING \cup {""} /\ s.rows \in Seq(RowType(Known))
      BY <3>1 DEF Typed, SavingInv
    <3> DEFINE new == [to |-> "", rows |-> data]
    <3>4. new.to = "" /\ new.rows \in Seq(RowType(Known))
      BY <3>2
    <3>5. saving' = saving \union {new}
      BY <3>1
    <3> HIDE DEF new
    <3> QED BY <3>1, <3>2, <3>3, <3>4, <3>5
  <2>2. CASE SaveCells
    <3>1. PICK a \in table.actions : \E url \in a.urls :
            /\ phase = "ready" /\ stored' = stored /\ nums' = nums
            /\ saving' = saving \union {[to |-> url, rows |-> <<>>]}
      BY <2>2 DEF SaveCells
    <3>2. \A url \in a.urls : url \in STRING
      BY <3>1, PageFacts DEF Typed
    <3>3. /\ <<>> \in Seq(RowType(Known)) /\ stored \in Seq(Known)
          /\ nums \in [Known -> Nat]
      BY <3>1, OpenPage, EmptyFacts
    <3>4. \A s \in saving :
            s.to \in STRING \cup {""} /\ s.rows \in Seq(RowType(Known))
      BY <3>1 DEF Typed, SavingInv
    <3>5. PICK url \in a.urls :
            saving' = saving \union {[to |-> url, rows |-> <<>>]}
      BY <3>1
    <3> DEFINE new == [to |-> url, rows |-> <<>>]
    <3>6. new.to \in STRING /\ new.rows \in Seq(RowType(Known))
      BY <3>2, <3>3, <3>5
    <3>7. saving' = saving \union {new}
      BY <3>5
    <3> HIDE DEF new
    <3> QED BY <3>1, <3>3, <3>4, <3>6, <3>7
  <2>3. CASE \E s \in saving : SaveSucceeds(s) /\ s.to = ""
    <3>1. PICK s \in saving :
            /\ saving' = saving \ {s}
            /\ IF phase = "closed" THEN UNCHANGED <<stored, nums>>
               ELSE stored' = Names(s.rows) /\ nums' = Renumbered(s.rows)
      BY <2>3 DEF SaveSucceeds
    <3>2. stored \in Seq(Known)
      BY DEF Typed, Lists
    <3>3. ASSUME phase # "closed"
          PROVE  /\ Names(s.rows) \in Seq(Known)
                 /\ Renumbered(s.rows) \in [Known -> Nat]
      <4>1. s.rows \in Seq(RowType(Known)) /\ nums \in [Known -> Nat]
        BY <3>3, OpenPage DEF Typed, SavingInv
      <4> QED BY <4>1, NamesFacts, RenumberedFacts
    <3> QED BY <1>2, <3>1, <3>2, <3>3 DEF Typed, SavingInv
  <2>4. CASE \E s \in saving : SaveFails(s)
    <3>1. stored' = stored /\ nums' = nums /\ saving' \subseteq saving
      BY <2>4 DEF SaveFails
    <3> QED BY <1>2, <3>1 DEF Typed, Lists, SavingInv
  <2> QED BY <2>1, <2>2, <2>3, <2>4
<1>4. PageInv'
  BY <1>1, <1>2, <1>3 DEF Typed, PageInv, working
<1>5. Flags'
  BY <1>1 DEF Typed, Flags
<1>6. Lists' /\ SavingInv'
  BY <1>1, <1>2, <1>3 DEF Typed, Lists, SavingInv, working
<1>7. ActionInv'
  BY <1>1 DEF Typed, ActionInv, working
<1>8. ModeInv'
  BY <1>1 DEF Typed, ModeInv
<1> QED BY <1>4, <1>5, <1>6, <1>7, <1>8 DEF Typed

\* A row comes to the backend or goes.
LEMMA ChangeFacts ==
  ASSUME Typed, BackendChanges
  PROVE  /\ stored' \in Seq(Known) /\ nums' \in [Known -> Nat]
         /\ Distinct(stored) => Distinct(stored')
         /\ phase # "closed"
         /\ UNCHANGED <<at, table, phase, search, data, shownFor, expanded,
                        selected, loads, working, picked, dirty, saving>>
<1>1. /\ phase # "closed"
      /\ UNCHANGED <<at, table, phase, search, data, shownFor, expanded,
                     selected, loads, working, picked, dirty, saving>>
  BY DEF BackendChanges
<1>2. /\ stored \in Seq(Known) /\ Known = Range(table.ids)
      /\ nums \in [Known -> Nat] /\ Len(stored) \in Nat
  BY <1>1, OpenPage, PageFacts, SeqFacts DEF Typed
<1>3. PICK x \in Known :
        /\ \/ stored' = Only(stored, Range(stored) \ {x})
           \/ x \notin Range(stored) /\ stored' = Append(stored, x)
        /\ nums' \in {nums, [nums EXCEPT ![x] =
                               IF table.ordered THEN Len(stored) + 1 ELSE 0]}
  BY <1>2 DEF BackendChanges
<1>4. nums' \in [Known -> Nat]
  <2>1. (IF table.ordered THEN Len(stored) + 1 ELSE 0) \in Nat
    BY <1>2
  <2> QED BY <1>2, <1>3, <2>1
<1>5. CASE stored' = Only(stored, Range(stored) \ {x})
  <2> DEFINE T == Range(stored) \ {x}
  <2> HIDE DEF T
  <2>1. stored' = Only(stored, T)
    BY <1>5 DEF T
  <2>2. Only(stored, T) \in Seq(Known \cap T)
    BY <1>2, OnlyFacts
  <2> QED BY <1>1, <1>2, <1>4, <2>1, <2>2, OnlyDistinct, WiderSeq
<1>6. CASE x \notin Range(stored) /\ stored' = Append(stored, x)
  <2>1. stored' \in Seq(Known)
    BY <1>2, <1>6, AppendFacts
  <2>2. Distinct(stored) => Distinct(Append(stored, x))
    BY <1>2, <1>6, AppendDistinct
  <2> QED BY <1>1, <1>4, <1>6, <2>1, <2>2
<1> QED BY <1>3, <1>4, <1>5, <1>6

\* So does a change of the backend.
LEMMA ChangeTyped ==
  ASSUME Typed, BackendChanges
  PROVE  Typed'
<1>1. /\ stored' \in Seq(Known) /\ phase # "closed"
      /\ nums' \in [Known -> Nat]
      /\ UNCHANGED <<at, table, phase, search, data, shownFor, expanded,
                     selected, loads, working, dirty, saving>>
  BY ChangeFacts
<1>2. PageInv' /\ Known' = Known
  BY <1>1, Staying DEF Typed
<1>3. Flags'
  BY <1>1 DEF Typed, Flags
<1>4. Lists' /\ SavingInv'
  BY <1>1, <1>2 DEF Typed, Lists, SavingInv, working
<1>5. ActionInv' /\ ModeInv'
  BY <1>1 DEF Typed, ActionInv, ModeInv, working
<1> QED BY <1>2, <1>3, <1>4, <1>5 DEF Typed

\* The kinds of steps: those that leave the table as it is shown alone, but
\* may have it loaded again; those that show other rows or select others;
\* those that open and leave a page.
Asks(ids, typed) == loads' = Append(loads, RootLoad(ids, nums, typed))

Quiet ==
  /\ UNCHANGED <<table, data, shownFor, expanded, selected>>
  /\ phase = "closed" <=> phase' = "closed"
  /\ \/ loads' = loads
     \/ /\ phase # "closed"
        /\ \E ids \in {stored, stored'}, typed \in {search, search'} :
             Asks(ids, typed)

Answers == \E i \in DOMAIN loads : Deliver(i) \/ LoadFails(i) \/ Discard(i)
Edits   == Up \/ Down \/ RemoveRules
Opens   == \E n \in DOMAIN Tables : \E r \in Routes : Open(n, r)
Leaves  == saving' \subseteq saving /\ \E url : Closed(url)

\* Every step is of one of these kinds.
LEMMA Kinds ==
  ASSUME Typed, [Next]_vars
  PROVE  \/ Typed' /\ Quiet
         \/ Typed' /\ Leaves
         \/ Opens \/ Answers \/ Edits
         \/ \E r \in Range(data) : Toggle(r) \/ Pick(r)
<1>1. CASE UNCHANGED vars
  <2>1. /\ UNCHANGED <<at, table, phase, stored, nums, search, data, shownFor>>
        /\ UNCHANGED <<expanded, selected, loads, action, queue, named>>
        /\ UNCHANGED <<acted, picked, dirty, saving>>
    BY <1>1 DEF vars, working
  <2>2. Known' = Known /\ PageInv'
    BY <2>1 DEF Known, Typed, PageInv
  <2>3. Flags' /\ Lists'
    BY <2>1, <2>2 DEF Typed, Flags, Lists
  <2>4. SavingInv' /\ ActionInv' /\ ModeInv'
    BY <2>1, <2>2 DEF Typed, SavingInv, ActionInv, ModeInv
  <2> QED BY <2>1, <2>2, <2>3, <2>4 DEF Typed, Quiet
<1>2. CASE Tick \/ Reload \/ ChooseLog \/ Search
  <2>1. Typed'
    BY <1>2, AskTyped
  <2>2. Quiet
    BY <1>2 DEF Tick, Reload, ChooseLog, Search, AskRoot, Quiet, Asks
  <2> QED BY <2>1, <2>2
<1>3. CASE \E a \in table.actions : Follow(a)
  BY <1>3, LeaveTyped DEF Leaves, Follow
<1>4. CASE \/ phase = "ready" /\ \E a \in table.actions : Click(a)
           \/ Confirm \/ Decline \/ RequestFails
           \/ EndTask("completed") \/ EndTask("broken")
  <2>1. \E a \in table.actions : Works(a)
    <3>1. CASE \E a \in table.actions : Click(a)
      BY <3>1 DEF Works
    <3>2. CASE \/ Confirm \/ Decline \/ RequestFails
               \/ EndTask("completed") \/ EndTask("broken")
      <4>1. action \in table.actions
        BY <3>2 DEF Confirm, Decline, RequestFails, EndTask, Typed, ActionInv
      <4> QED BY <3>2, <4>1 DEF Works
    <3> QED BY <1>4, <3>1, <3>2
  <2>2. Typed'
    BY <2>1, WorkTyped
  <2>3. Quiet
    <3>1. UNCHANGED <<table, data, shownFor, expanded, selected, loads>>
      BY <2>1 DEF Works, Click, Confirm, Decline, RequestFails, EndTask
    <3>2. phase # "closed" /\ phase' # "closed"
      BY <2>1 DEF Works, Click, Confirm, Decline, RequestFails, EndTask,
                  Start, Done
    <3> QED BY <3>1, <3>2 DEF Quiet
  <2> QED BY <2>2, <2>3
<1>5. CASE RequestSucceeds
  BY <1>5, RequestTyped, RequestFacts DEF Quiet, Asks
<1>6. CASE CloseDialog
  <2>1. CASE phase' = "closed"
    BY <1>6, <2>1, LeaveTyped DEF Leaves, CloseDialog
  <2>2. CASE phase' # "closed"
    <3>1. Quiet
      BY <1>6, <2>2, CloseFacts DEF Quiet, Asks
    <3> QED BY <1>6, <2>2, <3>1, CloseTyped
  <2> QED BY <2>1, <2>2
<1>7. CASE SaveRules \/ SaveCells
  BY <1>7, SaveTyped DEF SaveRules, SaveCells, Quiet
<1>8. CASE \E s \in saving : SaveSucceeds(s)
  <2>1. CASE \E s \in saving : SaveSucceeds(s) /\ s.to = ""
    <3>1. Quiet
      BY <2>1 DEF SaveSucceeds, Quiet
    <3> QED BY <2>1, <3>1, SaveTyped
  <2>2. CASE \E s \in saving : SaveSucceeds(s) /\ s.to # ""
    BY <2>2, LeaveTyped DEF Leaves, SaveSucceeds
  <2> QED BY <1>8, <2>1, <2>2
<1>9. CASE \E s \in saving : SaveFails(s)
  BY <1>9, SaveTyped DEF SaveFails, Quiet
<1>10. CASE Leave
  BY <1>10, LeaveTyped DEF Leaves, Leave
<1>11. CASE BackendChanges
  BY <1>11, ChangeTyped, ChangeFacts DEF Quiet
<1>12. CASE Opens \/ Answers \/ Edits
            \/ \E r \in Range(data) : Toggle(r) \/ Pick(r)
  BY <1>12
<1> QED BY <1>1, <1>2, <1>3, <1>4, <1>5, <1>6, <1>7, <1>8, <1>9, <1>10, <1>11,
           <1>12 DEF Next, Opens, Answers, Edits

\* Every step leaves the page well-typed.
LEMMA TypedStep ==
  ASSUME Typed, [Next]_vars
  PROVE  Typed'
<1>1. CASE Opens
  BY <1>1, OpenTyped DEF Opens
<1>2. CASE Answers
  BY <1>2, LoadTyped DEF Answers
<1>3. CASE Edits
  BY <1>3, EditTyped DEF Edits
<1>4. CASE \E r \in Range(data) : Toggle(r) \/ Pick(r)
  BY <1>4, ToggleTyped, PickTyped
<1> QED BY <1>1, <1>2, <1>3, <1>4, Kinds

\* The workbench starts without a table page.
LEMMA TypedInit ==
  ASSUME Init
  PROVE  Typed
<1>1. /\ phase = "closed" /\ at \in STRING /\ Known = {}
  BY RoutesAssumption DEF Init, Known
<1>2. PageInv
  BY DEF Init, PageInv
<1>3. Flags
  BY <1>1 DEF Init, Flags, Phases
<1>4. Lists
  BY EmptyFacts DEF Init, Lists
<1>5. SavingInv /\ ActionInv /\ ModeInv
  BY DEF Init, SavingInv, ActionInv, ModeInv
<1> QED BY <1>2, <1>3, <1>4, <1>5 DEF Typed

\* Whatever loads, actions and edits interleave, the page is one of the
\* tables or none, its rows, its selection, its loads and the rows of its
\* requests are rows of that table, a dialog or a request belongs to an
\* action of it, and a table that does not select several rows has one
\* selected at most.
THEOREM AlwaysTyped == Spec => []Typed
<1>1. Typed /\ [Next]_vars => Typed'
  BY TypedStep
<1> QED BY <1>1, TypedInit, PTL DEF Spec

\* The type invariant of the run.
THEOREM TypeCorrect == Spec => []TypeOK
<1>1. ASSUME Typed
      PROVE  TypeOK
  <2>1. at \in STRING /\ phase \in Phases
    BY <1>1 DEF Typed, Flags
  <2>2. phase = "closed" <=> table = NoTable
    BY <1>1, PageFacts DEF Typed, PageInv
  <2>3. phase \in {"closed", "ready"} <=> action = NoAction
    <3>1. ASSUME phase \notin {"closed", "ready"}
          PROVE  action # NoAction
      <4>1. action.what \in {"request", "dialog"}
        BY <1>1, <3>1 DEF Typed, ActionInv
      <4>2. NoAction.what = ""
        BY DEF NoAction
      <4> QED BY <4>1, <4>2
    <3> QED BY <1>1, <3>1 DEF Typed, ActionInv
  <2>4. phase = "working" <=> queue # <<>>
    BY <1>1 DEF Typed, ActionInv
  <2>5. {search, shownFor, dirty} \subseteq BOOLEAN
    BY <1>1 DEF Typed, Flags
  <2>6. ASSUME phase # "closed"
        PROVE  /\ IdsOf(data) \union Range(stored) \union IdsOf(selected)
                    \union expanded \subseteq Range(table.ids)
               /\ \A i \in DOMAIN loads :
                    loads[i].of \in Range(table.ids) \union {""}
    <3>1. /\ Known = Range(table.ids) /\ Range(stored) \subseteq Known
          /\ expanded \subseteq Known
      BY <1>1, <2>6, OpenPage, PageFacts, SeqFacts DEF Typed
    <3>2. IdsOf(data) \subseteq Known /\ IdsOf(selected) \subseteq Known
      BY <1>1, <2>6, OpenPage DEF IdsOf, RowType
    <3>3. \A i \in DOMAIN loads : loads[i].of \in Known \union {""}
      BY <1>1, LoadingPage
    <3> QED BY <3>1, <3>2, <3>3
  <2>7. phase # "closed" =>
          /\ table.select # "multi" => Len(selected) <= 1
          /\ dirty => table.ordered
    BY <1>1 DEF Typed, ModeInv
  <2> QED BY <2>1, <2>2, <2>3, <2>4, <2>5, <2>6, <2>7 DEF TypeOK
<1> QED BY <1>1, AlwaysTyped, PTL

-----------------------------------------------------------------------------
\* What a page shows when the answer to a load of the root rows came: rows
\* in order, as the load asked for them; earlier loads are marked, and the
\* rows that are loading have loads of their own.
LEMMA RootShown ==
  ASSUME Typed, NEW i \in DOMAIN loads, NEW ids \in {loads[i].before, stored},
         NEW ns \in {loads[i].nums, nums}, DeliverRoot(i, ids, ns)
  PROVE  /\ shownFor' = loads[i].search /\ expanded' = expanded
         /\ SelectedAgain(selected', selected, data')
         /\ Distinct(ids) => OneRowEach(data')
         /\ \A j \in DOMAIN data' :
              /\ data'[j].search = loads[i].search
              /\ IF table.tree # "" /\ data'[j].id \in expanded
                 THEN data'[j].status \in {"expanded", "loading"}
                 ELSE data'[j].status = "collapsed"
         /\ \A l \in Range(loads') :
              \/ /\ l.reloaded = TRUE
                 /\ \E m \in Range(loads) : l.of = m.of /\ l.before = m.before
              \/ /\ \E r \in Range(data') : l.of = r.id /\ r.status = "loading"
                 /\ l.before = stored /\ l.search = loads[i].search
         /\ \A r \in Range(data') : r.status = "loading" =>
              \E l \in Range(loads') : l.of = r.id /\ l.reloaded = FALSE
<1> DEFINE rs == Answered(loads[i], ids, ns)
           new == Expand(IdsOf(rs), rs)
           rest == Reloaded(Remaining(i))
           more == ChildLoads(IdsOf(new), new, loads[i].search)
<1>1. /\ data' = new /\ shownFor' = loads[i].search
      /\ selected' = UpdateSelection(selected, new)
      /\ loads' = rest \o more /\ expanded' = expanded
  BY DEF DeliverRoot
<1>2. /\ rs \in Seq(RowType(Known))
      /\ \A j \in DOMAIN rs : /\ rs[j].search = loads[i].search
                              /\ rs[j].status = "collapsed"
      /\ Distinct(ids) => OneRowEach(rs)
  <2>1. /\ loads[i] \in LoadType(Known) /\ table.parent \in [Known -> STRING]
        /\ ids \in Seq(Known) /\ ns \in [Known -> Nat]
    BY LoadingPage
  <2> QED BY <2>1, AnsweredFacts
<1>3. \A j \in DOMAIN rs : rs[j].id \in IdsOf(rs)
  BY DEF IdsOf, Range
<1> HIDE DEF rs
<1>4. /\ new \in Seq(RowType(Known)) /\ Alike(new, rs)
      /\ \A j \in DOMAIN rs :
           IF table.tree # "" /\ rs[j].id \in IdsOf(rs) \cap expanded
           THEN new[j].status \in {"expanded", "loading"}
           ELSE new[j] = rs[j]
  <2>1. rs \in Seq(RowType(Known))
    BY <1>2
  <2> QED BY <2>1, ExpandFacts
<1> HIDE DEF new
<1>5. ASSUME NEW j \in DOMAIN new
      PROVE  /\ new[j].search = loads[i].search
             /\ new[j].id = rs[j].id
             /\ IF table.tree # "" /\ new[j].id \in expanded
                THEN new[j].status \in {"expanded", "loading"}
                ELSE new[j].status = "collapsed"
  <2>1. j \in DOMAIN rs
    BY <1>4 DEF Alike
  <2>2. new[j].id = rs[j].id /\ new[j].search = rs[j].search
    BY <1>4, <2>1 DEF Alike
  <2>3. rs[j].id \in IdsOf(rs)
    BY <1>3, <2>1
  <2> QED BY <1>2, <1>4, <2>1, <2>2, <2>3
<1>6. Distinct(ids) => OneRowEach(new)
  BY <1>2, <1>4 DEF OneRowEach, Alike
<1>7. SelectedAgain(UpdateSelection(selected, new), selected, new)
  <2>1. new \in Seq(RowType(Known)) /\ selected \in Seq(RowType(Known))
    BY <1>4, LoadingPage
  <2> QED BY <2>1, SelectionFacts
<1>8. /\ rest \in Seq(LoadType(Known))
      /\ \A l \in Range(rest) :
           /\ l.reloaded = TRUE
           /\ \E m \in Range(loads) : l.of = m.of /\ l.before = m.before
  <2>1. /\ Remaining(i) \in Seq(LoadType(Known))
        /\ Range(Remaining(i)) = {loads[j] : j \in DOMAIN loads \ {i}}
    BY LoadingPage, RemainingFacts
  <2>2. Range(Remaining(i)) \subseteq Range(loads)
    BY <2>1 DEF Range
  <2> DEFINE rem == Remaining(i)
  <2> HIDE DEF rem
  <2>3. /\ Reloaded(rem) \in Seq(LoadType(Known))
        /\ DOMAIN Reloaded(rem) = DOMAIN rem
        /\ \A j \in DOMAIN rem :
             /\ Reloaded(rem)[j].of = rem[j].of
             /\ Reloaded(rem)[j].before = rem[j].before
             /\ Reloaded(rem)[j].reloaded = TRUE
    <3>1. rem \in Seq(LoadType(Known))
      BY <2>1 DEF rem
    <3> QED BY <3>1, ReloadedFacts
  <2>4. rest = Reloaded(rem) /\ \A j \in DOMAIN rem : rem[j] \in Range(loads)
    BY <2>2 DEF rem, Range
  <2> HIDE DEF rest
  <2>5. \A l \in Range(rest) : \E j \in DOMAIN rem : l = Reloaded(rem)[j]
    BY <2>3, <2>4 DEF Range
  <2> QED BY <2>3, <2>4, <2>5
<1>9. /\ more \in Seq(LoadType(Known))
      /\ LoadsOf(more, IdsOf(new), new, loads[i].search)
  <2>1. /\ new \in Seq(RowType(Known)) /\ stored \in Seq(Known)
        /\ loads[i].search \in BOOLEAN /\ nums \in [Known -> Nat]
    BY <1>4, LoadingPage
  <2> QED BY <2>1, ChildLoadFacts
<1>10. \A r \in Range(new) : r.id \in IdsOf(new)
  BY DEF IdsOf
<1> HIDE DEF rest, more
<1>11. Range(rest \o more) = Range(rest) \cup Range(more)
  BY <1>8, <1>9, CatFacts
<1>12. \A r \in Range(new) : r.status = "loading" =>
         \E l \in Range(rest \o more) : l.of = r.id /\ l.reloaded = FALSE
  BY <1>9, <1>10, <1>11 DEF LoadsOf
<1>13. \A l \in Range(rest \o more) :
         \/ /\ l.reloaded = TRUE
            /\ \E m \in Range(loads) : l.of = m.of /\ l.before = m.before
         \/ /\ \E r \in Range(new) : l.of = r.id /\ r.status = "loading"
            /\ l.before = stored /\ l.search = loads[i].search
  BY <1>8, <1>9, <1>11 DEF LoadsOf
<1> QED BY <1>1, <1>5, <1>6, <1>7, <1>12, <1>13

\* The answer to a load of the children of a row: the row is expanded, or
\* it turns out to have none; the other rows are as before, new ones follow.
LEMMA ChildShown ==
  ASSUME Typed, NEW i \in DOMAIN loads, NEW ids \in {loads[i].before, stored},
         NEW ns \in {loads[i].nums, nums}, DeliverChildren(i, ids, ns)
  PROVE  /\ loads[i].of # "" /\ ~loads[i].reloaded
         /\ shownFor' = shownFor /\ expanded' \subseteq expanded
         /\ SelectedAgain(selected', selected, data')
         /\ Distinct(ids) /\ OneRowEach(data) => OneRowEach(data')
         /\ \A r \in Range(data') :
              \/ r \in Range(data) /\ r.id # loads[i].of
              \/ /\ r.id = loads[i].of /\ r.status \in {"expanded", "disabled"}
                 /\ \E q \in Range(data) : r.search = q.search
              \/ /\ r.search = loads[i].search
                 /\ r.id \in expanded /\ table.tree # ""
                      => r.status # "collapsed"
                 /\ r.status = "loading" =>
                      \E l \in Range(loads') :
                        l.of = r.id /\ l.reloaded = FALSE
         /\ \A l \in Range(loads') :
              \/ l \in Range(loads)
              \/ l.before = stored /\ l.search = shownFor
         /\ \A j \in DOMAIN loads \ {i} : loads[j] \in Range(loads')
<1> DEFINE id == loads[i].of
           rs == Answered(loads[i], ids, ns)
           fresh == NewRows(rs)
           all == data \o fresh
           found == HasChildren(id, all)
           status == IF found THEN "expanded" ELSE "disabled"
           set == SetStatus(all, id, status)
           new == Expand(IdsOf(fresh), set)
           more == ChildLoads(IdsOf(fresh), new, shownFor)
<1>1. /\ loads[i].of # "" /\ ~loads[i].reloaded
      /\ data' = new /\ shownFor' = shownFor
      /\ selected' = UpdateSelection(selected, new)
      /\ loads' = Remaining(i) \o more
      /\ expanded' \subseteq expanded
  BY DEF DeliverChildren
<1>2. /\ rs \in Seq(RowType(Known))
      /\ \A j \in DOMAIN rs : rs[j].search = loads[i].search
      /\ Distinct(ids) => OneRowEach(rs)
  <2>1. /\ loads[i] \in LoadType(Known) /\ table.parent \in [Known -> STRING]
        /\ ids \in Seq(Known) /\ ns \in [Known -> Nat]
    BY LoadingPage
  <2> QED BY <2>1, AnsweredFacts
<1> HIDE DEF rs
<1>3. /\ fresh \in Seq(RowType(Known))
      /\ Range(fresh) = {r \in Range(rs) : r.id \notin IdsOf(data)}
      /\ Distinct(ids) => OneRowEach(fresh)
  BY <1>2, NewRowsFacts
<1>4. \A r \in Range(fresh) : /\ r.search = loads[i].search
                              /\ r.id \notin IdsOf(data)
                              /\ r.id \in IdsOf(fresh)
  <2>1. \A r \in Range(rs) : r.search = loads[i].search
    BY <1>2 DEF Range
  <2>2. \A r \in Range(fresh) : r.id \in IdsOf(fresh)
    BY DEF IdsOf
  <2> QED BY <1>3, <2>1, <2>2
<1>5. ASSUME NEW r \in Range(data)
      PROVE  r.id \notin IdsOf(fresh)
  <2>1. r.id \in IdsOf(data)
    BY DEF IdsOf
  <2> QED BY <1>4, <2>1 DEF IdsOf
<1> HIDE DEF fresh
<1>6. /\ all \in Seq(RowType(Known)) /\ Len(data) \in Nat /\ Len(fresh) \in Nat
      /\ DOMAIN data = 1..Len(data) /\ DOMAIN fresh = 1..Len(fresh)
      /\ DOMAIN all = 1..(Len(data) + Len(fresh))
      /\ \A j \in 1..(Len(data) + Len(fresh)) :
           all[j] = IF j <= Len(data) THEN data[j] ELSE fresh[j - Len(data)]
      /\ Range(all) = Range(data) \cup Range(fresh)
  <2>1. data \in Seq(RowType(Known)) /\ fresh \in Seq(RowType(Known))
    BY <1>3, LoadingPage
  <2>2. /\ Len(data) \in Nat /\ Len(fresh) \in Nat
        /\ DOMAIN data = 1..Len(data) /\ DOMAIN fresh = 1..Len(fresh)
    BY <2>1, SeqFacts
  <2>3. /\ all \in Seq(RowType(Known))
        /\ DOMAIN all = 1..(Len(data) + Len(fresh))
        /\ \A j \in 1..(Len(data) + Len(fresh)) :
             all[j] = IF j <= Len(data) THEN data[j] ELSE fresh[j - Len(data)]
        /\ Range(all) = Range(data) \cup Range(fresh)
    BY <2>1, CatFacts
  <2> QED BY <2>2, <2>3
<1>7. status \in {"expanded", "disabled"} /\ status \in States
  BY DEF States
<1> HIDE DEF all, status, id
<1>8. ASSUME Distinct(ids), OneRowEach(data)
      PROVE  OneRowEach(all)
  <2> SUFFICES ASSUME NEW j \in DOMAIN all, NEW k \in DOMAIN all,
                      all[j].id = all[k].id
               PROVE  j = k
    BY DEF OneRowEach
  <2>1. ASSUME NEW m \in DOMAIN all
        PROVE  /\ m \in Nat
               /\ \/ m <= Len(data) /\ m \in DOMAIN data /\ all[m] = data[m]
                  \/ /\ ~(m <= Len(data)) /\ m - Len(data) \in DOMAIN fresh
                     /\ all[m] = fresh[m - Len(data)]
    BY <1>6
  <2>2. OneRowEach(fresh)
    BY <1>3, <1>8
  <2>3. \A a \in DOMAIN data, b \in DOMAIN fresh : data[a].id # fresh[b].id
    BY <1>4 DEF IdsOf, Range
  <2>4. CASE j <= Len(data) /\ k <= Len(data)
    BY <1>8, <2>1, <2>4 DEF OneRowEach
  <2>5. CASE ~(j <= Len(data)) /\ ~(k <= Len(data))
    <3>1. j - Len(data) = k - Len(data)
      BY <2>1, <2>2, <2>5 DEF OneRowEach
    <3> QED BY <1>6, <2>1, <3>1
  <2>6. CASE j <= Len(data) /\ ~(k <= Len(data))
    BY <2>1, <2>3, <2>6
  <2>7. CASE ~(j <= Len(data)) /\ k <= Len(data)
    BY <2>1, <2>3, <2>7
  <2> QED BY <2>4, <2>5, <2>6, <2>7
<1>9. /\ set \in Seq(RowType(Known)) /\ Alike(set, all)
      /\ \A j \in DOMAIN all : IF all[j].id = id THEN set[j].status = status
                               ELSE set[j] = all[j]
  BY <1>6, <1>7, SetStatusFacts
<1> HIDE DEF set
<1>10. /\ new \in Seq(RowType(Known)) /\ Alike(new, set)
       /\ \A j \in DOMAIN set :
            IF table.tree # "" /\ set[j].id \in IdsOf(fresh) \cap expanded
            THEN new[j].status \in {"expanded", "loading"}
            ELSE new[j] = set[j]
  <2>1. set \in Seq(RowType(Known))
    BY <1>9
  <2> QED BY <2>1, ExpandFacts
<1> HIDE DEF new
<1>11. Distinct(ids) /\ OneRowEach(data) => OneRowEach(new)
  <2>1. /\ DOMAIN new = DOMAIN all
        /\ \A j \in DOMAIN all : new[j].id = all[j].id
    BY <1>9, <1>10 DEF Alike
  <2> QED BY <1>8, <2>1 DEF OneRowEach
<1>12. SelectedAgain(UpdateSelection(selected, new), selected, new)
  <2>1. new \in Seq(RowType(Known)) /\ selected \in Seq(RowType(Known))
    BY <1>10, LoadingPage
  <2> QED BY <2>1, SelectionFacts
<1>13. /\ Remaining(i) \in Seq(LoadType(Known))
       /\ Range(Remaining(i)) = {loads[j] : j \in DOMAIN loads \ {i}}
  BY LoadingPage, RemainingFacts
<1>14. /\ more \in Seq(LoadType(Known))
       /\ LoadsOf(more, IdsOf(fresh), new, shownFor)
  <2>1. /\ new \in Seq(RowType(Known)) /\ stored \in Seq(Known)
        /\ shownFor \in BOOLEAN /\ nums \in [Known -> Nat]
    BY <1>10, LoadingPage
  <2> QED BY <2>1, ChildLoadFacts
<1> HIDE DEF more
<1>15. Range(Remaining(i) \o more) = Range(Remaining(i)) \cup Range(more)
  BY <1>13, <1>14, CatFacts
<1>16. ASSUME NEW r \in Range(new)
       PROVE  \/ r \in Range(data) /\ r.id # id
              \/ /\ r.id = id /\ r.status \in {"expanded", "disabled"}
                 /\ \E q \in Range(data) : r.search = q.search
              \/ /\ r.search = loads[i].search
                 /\ r.id \in expanded /\ table.tree # ""
                      => r.status # "collapsed"
                 /\ r.status = "loading" =>
                      \E l \in Range(more) : l.of = r.id /\ l.reloaded = FALSE
  <2>1. PICK j \in DOMAIN new : r = new[j]
    BY DEF Range
  <2>2. /\ j \in DOMAIN set /\ j \in DOMAIN all
        /\ new[j].id = set[j].id /\ new[j].search = set[j].search
        /\ set[j].id = all[j].id /\ set[j].search = all[j].search
        /\ all[j] \in Range(all)
    BY <1>9, <1>10, <2>1 DEF Alike, Range
  <2>3. CASE all[j] \in Range(data)
    <3>1. new[j] = set[j]
      BY <1>5, <1>10, <2>2, <2>3
    <3>2. CASE all[j].id = id
      BY <1>7, <1>9, <2>1, <2>2, <2>3, <3>1, <3>2
    <3>3. CASE all[j].id # id
      BY <1>9, <2>1, <2>2, <2>3, <3>1, <3>3
    <3> QED BY <3>2, <3>3
  <2>4. CASE all[j] \in Range(fresh)
    <3>1. r.search = loads[i].search /\ r.id \in IdsOf(fresh)
      BY <1>4, <2>1, <2>2, <2>4
    <3>2. r.id \in expanded /\ table.tree # "" => r.status # "collapsed"
      BY <1>10, <2>1, <2>2, <3>1
    <3>3. r.status = "loading" =>
            \E l \in Range(more) : l.of = r.id /\ l.reloaded = FALSE
      BY <1>14, <2>1, <3>1 DEF LoadsOf
    <3> QED BY <3>1, <3>2, <3>3
  <2> QED BY <1>6, <2>2, <2>3, <2>4
<1>17. \A l \in Range(Remaining(i) \o more) :
         \/ l \in Range(loads)
         \/ l.before = stored /\ l.search = shownFor
  BY <1>13, <1>14, <1>15 DEF Range, LoadsOf
<1>18. \A j \in DOMAIN loads \ {i} : loads[j] \in Range(Remaining(i) \o more)
  BY <1>13, <1>15
<1>19. Range(more) \subseteq Range(Remaining(i) \o more)
  BY <1>15
<1> QED BY <1>1, <1>11, <1>12, <1>16, <1>17, <1>18, <1>19 DEF id

\* A load that fails: the table is emptied, or the row collapsed.
LEMMA FailShown ==
  ASSUME Typed, NEW i \in DOMAIN loads, LoadFails(i)
  PROVE  /\ shownFor' = shownFor /\ expanded' = expanded \ {loads[i].of}
         /\ SelectedAgain(selected', selected, data')
         /\ loads[i].of = "" => data' = <<>>
         /\ loads[i].of # "" =>
              /\ data' = SetStatus(data, loads[i].of, "collapsed")
              /\ Range(loads') = {loads[j] : j \in DOMAIN loads \ {i}}
         /\ \A l \in Range(loads') :
              \/ l \in Range(loads)
              \/ /\ l.reloaded = TRUE
                 /\ \E m \in Range(loads) : l.of = m.of /\ l.before = m.before
         /\ loads[i].of = "" => \A l \in Range(loads') : l.reloaded = TRUE
<1>1. /\ Remaining(i) \in Seq(LoadType(Known))
      /\ Range(Remaining(i)) = {loads[j] : j \in DOMAIN loads \ {i}}
  BY LoadingPage, RemainingFacts
<1>2. Range(Remaining(i)) \subseteq Range(loads)
  BY <1>1 DEF Range
<1>3. selected \in Seq(RowType(Known)) /\ data \in Seq(RowType(Known))
      /\ "" \notin expanded
  BY LoadingPage
<1>4. CASE loads[i].of = ""
  <2>1. /\ shownFor' = shownFor /\ expanded' = expanded /\ data' = <<>>
        /\ selected' = UpdateSelection(selected, <<>>)
        /\ loads' = Reloaded(Remaining(i))
    BY <1>4 DEF LoadFails
  <2>2. <<>> \in Seq(RowType(Known))
    BY EmptyFacts
  <2>3. SelectedAgain(UpdateSelection(selected, <<>>), selected, <<>>)
    BY <1>3, <2>2, SelectionFacts
  <2> DEFINE rem == Remaining(i)
  <2> HIDE DEF rem
  <2>4. /\ DOMAIN Reloaded(rem) = DOMAIN rem
        /\ \A j \in DOMAIN rem : /\ Reloaded(rem)[j].of = rem[j].of
                                 /\ Reloaded(rem)[j].before = rem[j].before
                                 /\ Reloaded(rem)[j].reloaded = TRUE
    <3>1. rem \in Seq(LoadType(Known))
      BY <1>1 DEF rem
    <3> QED BY <3>1, ReloadedFacts
  <2>5. loads' = Reloaded(rem) /\ \A j \in DOMAIN rem : rem[j] \in Range(loads)
    BY <1>2, <2>1 DEF rem, Range
  <2>6. \A l \in Range(loads') : \E j \in DOMAIN rem : l = Reloaded(rem)[j]
    BY <2>4, <2>5 DEF Range
  <2>7. \A l \in Range(loads') :
          /\ l.reloaded = TRUE
          /\ \E m \in Range(loads) : l.of = m.of /\ l.before = m.before
    BY <2>4, <2>5, <2>6
  <2> QED BY <1>3, <1>4, <2>1, <2>3, <2>7
<1>5. CASE loads[i].of # ""
  <2>1. /\ shownFor' = shownFor /\ expanded' = expanded \ {loads[i].of}
        /\ data' = SetStatus(data, loads[i].of, "collapsed")
        /\ selected' = UpdateSelection(selected, data')
        /\ loads' = Remaining(i)
    BY <1>5 DEF LoadFails, Collapsed
  <2>2. data' \in Seq(RowType(Known))
    BY <1>3, <2>1, SetStatusFacts DEF States
  <2>3. SelectedAgain(UpdateSelection(selected, data'), selected, data')
    BY <1>3, <2>2, SelectionFacts
  <2> QED BY <1>1, <1>2, <1>5, <2>1, <2>3
<1> QED BY <1>4, <1>5

-----------------------------------------------------------------------------
\* What the table shows.  The parts of one invariant, by what they are about.

\* The backend's rows, those that are sent to it, and those a load may be
\* answered with, are each there once.
StoredInv ==
  /\ Distinct(stored)
  /\ phase # "closed" => \A s \in saving : OneRowEach(s.rows)
LoadsInv == \A l \in Range(loads) : Distinct(l.before)

\* A table that is no tree has nothing expanded and loads no children.
Flat ==
  phase # "closed" /\ table.tree = "" =>
    /\ expanded = {}
    /\ \A r \in Range(data) \cup Range(selected) : r.status = "collapsed"
    /\ \A l \in Range(loads) : l.of = ""

\* A selected row that is shown is shown as it was selected.
RowsInv ==
  /\ OneRowEach(data)
  /\ \A x \in Range(selected), r \in Range(data) : x.id = r.id => x = r

\* Rows, the selection and the loads whose answers will be shown beside them
\* are of the same search.
ParamsInv ==
  /\ \A r \in Range(data) \cup Range(selected) : r.search = shownFor
  /\ \A l \in Range(loads) :
       l.of # "" => l.reloaded = TRUE \/ l.search = shownFor

Awaited(r) == \E l \in Range(loads) : l.of = r.id /\ l.reloaded = FALSE
PendingInv == \A r \in Range(data) : r.status = "loading" => Awaited(r)

Tidy ==
  /\ StoredInv /\ LoadsInv /\ Flat /\ RowsInv /\ ParamsInv /\ PendingInv
  /\ StaysExpanded /\ SelectionIsShown

\* A page that is left shows nothing.
LEMMA LeavesTidy ==
  ASSUME NEW url, Closed(url)
  PROVE  Tidy'
<1>1. /\ phase' = "closed" /\ stored' = <<>> /\ data' = <<>>
      /\ expanded' = {} /\ selected' = <<>> /\ loads' = <<>>
  BY DEF Closed
<1>2. Range(loads') = {} /\ DOMAIN stored' = {}
  BY <1>1, EmptyFacts
<1>3. /\ Range(data)' = {} /\ Range(selected)' = {}
      /\ RowsInv' /\ PendingInv' /\ StaysExpanded' /\ SelectionIsShown'
  <2>1. Range(data') = {} /\ Range(selected') = {} /\ DOMAIN data' = {}
    BY <1>1, EmptyFacts
  <2> QED BY <1>1, <2>1 DEF RowsInv, PendingInv, StaysExpanded,
                    SelectionIsShown, OneRowEach
<1>4. StoredInv' /\ LoadsInv' /\ Flat' /\ ParamsInv'
  BY <1>1, <1>2, <1>3 DEF StoredInv, LoadsInv, Flat, ParamsInv, Distinct
<1> QED BY <1>3, <1>4 DEF Tidy

\* A page that opens shows nothing yet, and loads at most once.
LEMMA OpensTidy ==
  ASSUME Typed, Opens
  PROVE  Tidy'
<1>1. PICK n \in DOMAIN Tables, r \in Routes : Open(n, r)
  BY DEF Opens
<1> DEFINE t == Component(Tables[n])
<1>2. /\ phase = "closed" /\ phase' = "ready" /\ table' = t
      /\ stored' = t.ids /\ saving' = {}
      /\ loads' \in {<<Load("", t.ids, Numbers(t), FALSE)>>, <<>>}
      /\ UNCHANGED <<data, expanded, selected>>
  BY <1>1 DEF Open
<1>3. data' = <<>> /\ selected' = <<>> /\ expanded' = {}
  BY <1>2 DEF Typed, PageInv
<1>4. Distinct(t.ids)
  <2>1. t.ids = Tables[n].ids
    BY DEF Component
  <2> QED BY <2>1, RowsAssumption DEF Distinct
<1>5. ASSUME NEW l \in Range(loads')
      PROVE  l.of = "" /\ Distinct(l.before)
  <2> DEFINE load == Load("", t.ids, Numbers(t), FALSE)
  <2>1. load.of = "" /\ load.before = t.ids
    BY Zenon DEF Load
  <2> HIDE DEF load, t
  <2>2. Range(<<load>>) = {load} /\ Range(<<>>) = {}
    BY SingleFacts, EmptyFacts
  <2>3. loads' \in {<<load>>, <<>>}
    BY <1>2, Zenon DEF load
  <2>4. l = load
    BY <2>2, <2>3
  <2> QED BY <1>4, <2>1, <2>4, Zenon
<1> HIDE DEF t
<1>6. /\ Range(data') = {} /\ Range(selected') = {} /\ DOMAIN data' = {}
  BY <1>3, EmptyFacts
<1>7. /\ RowsInv' /\ PendingInv' /\ StaysExpanded' /\ SelectionIsShown'
  BY <1>6 DEF RowsInv, PendingInv, StaysExpanded, SelectionIsShown,
              OneRowEach
<1>8. StoredInv' /\ LoadsInv' /\ Flat' /\ ParamsInv'
  BY <1>2, <1>3, <1>4, <1>5, <1>6
  DEF StoredInv, LoadsInv, Flat, ParamsInv
<1> QED BY <1>7, <1>8 DEF Tidy

\* No step makes the backend have a row twice, or has one sent to it twice.
LEMMA StoredStep ==
  ASSUME Typed, OneRowEach(data), StoredInv, [Next]_vars
  PROVE  StoredInv'
<1>1. CASE Opens
  <2>1. Tidy'
    BY <1>1, OpensTidy
  <2> QED BY <2>1 DEF Tidy
<1>2. CASE \E url : Closed(url)
  <2>1. Tidy'
    BY <1>2, LeavesTidy
  <2> QED BY <2>1 DEF Tidy
<1>3. CASE /\ phase # "closed" \/ phase' = phase
           /\ Distinct(stored')
           /\ saving' \subseteq saving
  BY <1>3 DEF StoredInv
<1>4. CASE Answers \/ Edits \/ \E r \in Range(data) : Toggle(r) \/ Pick(r)
  <2>1. phase' = phase /\ stored' = stored /\ saving' = saving
    BY <1>4 DEF Answers, Deliver, LoadFails, Discard, Edits, Up, Down,
                RemoveRules, Edited, Toggle, Pick
  <2> QED BY <1>3, <2>1 DEF StoredInv
<1>5. CASE UNCHANGED vars
  BY <1>3, <1>5 DEF StoredInv, vars
<1>6. CASE Tick \/ Reload \/ ChooseLog \/ Search
  BY <1>3, <1>6 DEF StoredInv, Tick, Reload, ChooseLog, Search
<1>7. CASE \E a \in table.actions : Follow(a)
  BY <1>2, <1>7 DEF Follow
<1>8. CASE \/ \E a \in table.actions : phase = "ready" /\ Click(a)
           \/ Confirm \/ Decline \/ RequestFails
           \/ EndTask("completed") \/ EndTask("broken")
  <2>1. phase # "closed" /\ stored' = stored /\ saving' = saving
    BY <1>8 DEF Click, Confirm, Decline, RequestFails, EndTask
  <2> QED BY <1>3, <2>1 DEF StoredInv
<1>9. CASE RequestSucceeds
  <2>1. phase # "closed" /\ Distinct(stored') /\ saving' = saving
    BY <1>9, RequestFacts DEF StoredInv
  <2> QED BY <1>3, <2>1
<1>10. CASE CloseDialog
  <2>1. CASE phase' = "closed"
    <3>1. \E url : Closed(url)
      BY <1>10, <2>1, LeaveTyped
    <3> QED BY <1>2, <3>1
  <2>2. CASE phase' # "closed"
    <3>1. phase # "closed" /\ stored' = stored /\ saving' = saving
      BY <1>10, <2>2, CloseFacts
    <3> QED BY <1>3, <3>1 DEF StoredInv
  <2> QED BY <2>1, <2>2
<1>11. CASE SaveRules
  <2>1. /\ phase = "ready" /\ stored' = stored
        /\ saving' = saving \union {[to |-> "", rows |-> data]}
    BY <1>11 DEF SaveRules
  <2> DEFINE new == [to |-> "", rows |-> data]
  <2>3. OneRowEach(new.rows)
    OBVIOUS
  <2> HIDE DEF new
  <2>4. saving' = saving \union {new}
    BY <2>1 DEF new
  <2> QED BY <2>1, <2>3, <2>4 DEF StoredInv
<1>12. CASE SaveCells
  <2>1. PICK url : /\ phase = "ready" /\ stored' = stored
                   /\ saving' = saving \union {[to |-> url, rows |-> <<>>]}
    BY <1>12 DEF SaveCells
  <2> DEFINE new == [to |-> url, rows |-> <<>>]
  <2>2. OneRowEach(new.rows)
    BY EmptyFacts DEF OneRowEach
  <2>3. phase = "ready" /\ stored' = stored /\ saving' = saving \union {new}
    BY <2>1
  <2> HIDE DEF new
  <2> QED BY <2>2, <2>3 DEF StoredInv
<1>13. CASE \E s \in saving : SaveSucceeds(s)
  <2>1. PICK s \in saving : SaveSucceeds(s)
    BY <1>13
  <2>2. CASE s.to = ""
    <3>1. /\ phase' = phase /\ saving' = saving \ {s}
          /\ stored' = IF phase = "closed" THEN stored ELSE Names(s.rows)
      BY <2>1, <2>2 DEF SaveSucceeds
    <3>2. Distinct(stored')
      <4>1. CASE phase # "closed"
        <5>1. s.rows \in Seq(RowType(Known)) /\ OneRowEach(s.rows)
          BY <4>1 DEF Typed, SavingInv, StoredInv
        <5> QED BY <3>1, <4>1, <5>1, NamesFacts
      <4>2. CASE phase = "closed"
        BY <3>1, <4>2 DEF StoredInv
      <4> QED BY <4>1, <4>2
    <3> QED BY <1>3, <3>1, <3>2
  <2>3. CASE s.to # ""
    BY <1>2, <2>1, <2>3 DEF SaveSucceeds
  <2> QED BY <2>2, <2>3
<1>14. CASE \E s \in saving : SaveFails(s)
  <2>1. phase' = phase /\ stored' = stored /\ saving' \subseteq saving
    BY <1>14 DEF SaveFails
  <2> QED BY <1>3, <2>1 DEF StoredInv
<1>15. CASE Leave
  BY <1>2, <1>15 DEF Leave
<1>16. CASE BackendChanges
  <2>1. phase # "closed" /\ Distinct(stored') /\ saving' = saving
    BY <1>16, ChangeFacts DEF StoredInv
  <2> QED BY <1>3, <2>1
<1> QED BY <1>1, <1>4, <1>5, <1>6, <1>7, <1>8, <1>9, <1>10, <1>11, <1>12,
           <1>13, <1>14, <1>15, <1>16 DEF Next, Opens, Answers, Edits

\* The parts of the invariant that are about the rows and the loads only.
Shown ==
  /\ LoadsInv /\ Flat /\ RowsInv /\ ParamsInv /\ PendingInv
  /\ StaysExpanded /\ SelectionIsShown

\* A step that leaves the rows alone, and at most adds a load.
LEMMA AddedLoad ==
  ASSUME Typed, Shown, StoredInv,
         UNCHANGED <<table, data, shownFor, expanded, selected>>,
         phase = "closed" <=> phase' = "closed",
         Range(loads) \subseteq Range(loads'),
         \A l \in Range(loads') : \/ l \in Range(loads)
                                  \/ l.of = "" /\ Distinct(l.before)
  PROVE  Shown'
<1>1. LoadsInv'
  BY DEF Shown, LoadsInv
<1>2. Flat'
  BY DEF Shown, Flat
<1>3. RowsInv' /\ StaysExpanded'
  BY DEF Shown, RowsInv, StaysExpanded, OneRowEach
<1>4. ParamsInv'
  BY DEF Shown, ParamsInv
<1>5. PendingInv'
  BY DEF Shown, PendingInv, Awaited
<1>6. SelectionIsShown'
  BY DEF Shown, SelectionIsShown
<1> QED BY <1>1, <1>2, <1>3, <1>4, <1>5, <1>6 DEF Shown

\* Steps that leave the rows alone keep what is promised of them.
LEMMA QuietShown ==
  ASSUME Typed, Shown, StoredInv, StoredInv', Typed', Quiet
  PROVE  Shown'
<1>1. /\ UNCHANGED <<table, data, shownFor, expanded, selected>>
      /\ phase = "closed" <=> phase' = "closed"
  BY DEF Quiet
<1>2. CASE loads' = loads
  BY <1>1, <1>2, AddedLoad
<1>3. CASE /\ phase # "closed"
           /\ \E ids \in {stored, stored'}, typed \in {search, search'} :
                Asks(ids, typed)
  <2>1. PICK ids \in {stored, stored'}, typed \in {search, search'} :
          Asks(ids, typed)
    BY <1>3
  <2> DEFINE load == RootLoad(ids, nums, typed)
  <2>2. load.of = "" /\ load.before = ids
    BY Zenon DEF RootLoad, Load
  <2>3. Distinct(ids)
    BY DEF StoredInv
  <2>4. Known' = Known
    BY <1>1, <1>3 DEF Known
  <2>5. /\ ids \in Seq(Known) /\ typed \in BOOLEAN
        /\ nums \in [Known -> Nat]
    BY <1>3, <2>4 DEF Typed, Lists, Flags
  <2>6. load \in LoadType(Known)
    <3>1. (typed /\ table.search = "remote") \in BOOLEAN
      OBVIOUS
    <3> QED BY <2>5, <3>1, LoadFacts DEF RootLoad
  <2>7. loads \in Seq(LoadType(Known))
    BY DEF Typed, Lists
  <2>8. loads' = Append(loads, load)
    BY <2>1 DEF Asks
  <2> HIDE DEF load
  <2>9. Range(loads') = Range(loads) \cup {load}
    BY <2>6, <2>7, <2>8, AppendFacts
  <2> QED BY <1>1, <2>2, <2>3, <2>9, AddedLoad
<1> QED BY <1>2, <1>3 DEF Quiet

\* Rows are selected among those shown.
LEMMA PickShown ==
  ASSUME Typed, Shown, NEW r \in Range(data), Pick(r)
  PROVE  Shown'
<1>1. /\ phase = "ready"
      /\ UNCHANGED <<table, phase, data, shownFor, expanded, loads>>
  BY DEF Pick
<1>2. Range(selected') \subseteq Range(selected) \cup {r}
  BY <1>1, PickFacts
<1>3. LoadsInv' /\ PendingInv' /\ StaysExpanded'
  BY <1>1 DEF Shown, LoadsInv, PendingInv, Awaited, StaysExpanded
<1>4. Flat'
  BY <1>1, <1>2 DEF Shown, Flat
<1>5. RowsInv'
  <2>1. OneRowEach(data)
    BY DEF Shown, RowsInv
  <2>2. \A q \in Range(data) : r.id = q.id => r = q
    BY <2>1 DEF OneRowEach, Range
  <2>3. \A x \in Range(selected'), q \in Range(data) : x.id = q.id => x = q
    BY <1>2, <2>2 DEF Shown, RowsInv
  <2> QED BY <1>1, <2>1, <2>3 DEF RowsInv, OneRowEach
<1>6. ParamsInv'
  BY <1>1, <1>2 DEF Shown, ParamsInv
<1>7. SelectionIsShown'
  BY <1>1, <1>2 DEF Shown, SelectionIsShown
<1> QED BY <1>3, <1>4, <1>5, <1>6, <1>7 DEF Shown

\* Selected rows that are shown are shown as they were selected.
LEMMA ShownSelection ==
  ASSUME OneRowEach(data'), Range(selected') \subseteq Range(data')
  PROVE  RowsInv' /\ SelectionIsShown'
BY DEF RowsInv, SelectionIsShown, OneRowEach, Range

\* The answer to a load of the root rows keeps what is promised of the rows.
LEMMA DeliverRootShown ==
  ASSUME Typed, Shown, StoredInv, NEW i \in DOMAIN loads,
         NEW ids \in {loads[i].before, stored},
         NEW ns \in {loads[i].nums, nums}, DeliverRoot(i, ids, ns),
         table' = table, phase' = phase
  PROVE  Shown'
<1>1. /\ shownFor' = loads[i].search /\ expanded' = expanded
      /\ SelectedAgain(selected', selected, data')
      /\ Distinct(ids) => OneRowEach(data')
      /\ \A j \in DOMAIN data' :
           /\ data'[j].search = loads[i].search
           /\ IF table.tree # "" /\ data'[j].id \in expanded
              THEN data'[j].status \in {"expanded", "loading"}
              ELSE data'[j].status = "collapsed"
      /\ \A l \in Range(loads') :
           \/ /\ l.reloaded = TRUE
              /\ \E m \in Range(loads) : l.of = m.of /\ l.before = m.before
           \/ /\ \E r \in Range(data') : l.of = r.id /\ r.status = "loading"
              /\ l.before = stored /\ l.search = loads[i].search
      /\ \A r \in Range(data') : r.status = "loading" =>
           \E l \in Range(loads') : l.of = r.id /\ l.reloaded = FALSE
  BY RootShown
<1>2. loads[i] \in Range(loads) /\ phase # "closed"
  BY LoadingPage DEF Range
<1>3. Distinct(ids) /\ Distinct(stored)
  BY <1>2 DEF StoredInv, Shown, LoadsInv
<1>4. /\ OneRowEach(data') /\ Range(selected') \subseteq Range(data')
  BY <1>1, <1>3 DEF SelectedAgain
<1>5. \A r \in Range(data') :
        /\ r.search = loads[i].search
        /\ r.id \in expanded /\ table.tree # "" => r.status # "collapsed"
        /\ r.status = "loading" => table.tree # ""
        /\ table.tree = "" => r.status = "collapsed"
  <2> TAKE r \in Range(data')
  <2>1. PICK j \in DOMAIN data' : r = data'[j]
    BY DEF Range
  <2> QED BY <1>1, <2>1
<1>6. LoadsInv'
  BY <1>1, <1>3 DEF Shown, LoadsInv
<1>7. Flat'
  <2> SUFFICES ASSUME table.tree = ""
               PROVE  /\ expanded' = {}
                      /\ \A r \in Range(data') \cup Range(selected') :
                           r.status = "collapsed"
                      /\ \A l \in Range(loads') : l.of = ""
    BY DEF Flat
  <2>1. expanded = {} /\ \A l \in Range(loads) : l.of = ""
    BY <1>2 DEF Shown, Flat
  <2> QED BY <1>1, <1>4, <1>5, <2>1
<1>8. RowsInv' /\ SelectionIsShown'
  BY <1>4, ShownSelection
<1>9. ParamsInv'
  BY <1>1, <1>4, <1>5 DEF ParamsInv
<1>10. PendingInv'
  BY <1>1 DEF PendingInv, Awaited
<1>11. StaysExpanded'
  <2>1. table.tree = "" => expanded = {}
    BY <1>2 DEF Shown, Flat
  <2> QED BY <1>1, <1>5, <2>1 DEF StaysExpanded
<1> QED BY <1>6, <1>7, <1>8, <1>9, <1>10, <1>11 DEF Shown

\* A row that is loading still waits when the answer to another load came.
LEMMA StillAwaited ==
  ASSUME NEW i \in DOMAIN loads, NEW r, Awaited(r),
         r.id # loads[i].of \/ loads[i].reloaded = TRUE,
         \A j \in DOMAIN loads \ {i} : loads[j] \in Range(loads')
  PROVE  \E l \in Range(loads') : l.of = r.id /\ l.reloaded = FALSE
<1>1. PICK l \in Range(loads) : l.of = r.id /\ l.reloaded = FALSE
  BY DEF Awaited
<1>2. PICK j \in DOMAIN loads : l = loads[j]
  BY DEF Range
<1>3. j # i
  BY <1>1, <1>2
<1> QED BY <1>1, <1>2, <1>3

\* So does the answer to a load of the children of a row.
LEMMA DeliverChildrenShown ==
  ASSUME Typed, Shown, StoredInv, NEW i \in DOMAIN loads,
         NEW ids \in {loads[i].before, stored},
         NEW ns \in {loads[i].nums, nums}, DeliverChildren(i, ids, ns),
         table' = table, phase' = phase
  PROVE  Shown'
<1>1. /\ loads[i].of # "" /\ ~loads[i].reloaded
      /\ shownFor' = shownFor /\ expanded' \subseteq expanded
      /\ SelectedAgain(selected', selected, data')
      /\ Distinct(ids) /\ OneRowEach(data) => OneRowEach(data')
      /\ \A r \in Range(data') :
           \/ r \in Range(data) /\ r.id # loads[i].of
           \/ /\ r.id = loads[i].of /\ r.status \in {"expanded", "disabled"}
              /\ \E q \in Range(data) : r.search = q.search
           \/ /\ r.search = loads[i].search
              /\ r.id \in expanded /\ table.tree # "" => r.status # "collapsed"
              /\ r.status = "loading" =>
                   \E l \in Range(loads') : l.of = r.id /\ l.reloaded = FALSE
      /\ \A l \in Range(loads') :
           \/ l \in Range(loads)
           \/ l.before = stored /\ l.search = shownFor
      /\ \A j \in DOMAIN loads \ {i} : loads[j] \in Range(loads')
  BY ChildShown
<1>2. loads[i] \in Range(loads) /\ phase # "closed"
  BY LoadingPage DEF Range
<1>3. table.tree # ""
  BY <1>1, <1>2 DEF Shown, Flat
<1>4. Distinct(ids) /\ Distinct(stored) /\ OneRowEach(data)
  BY <1>2 DEF StoredInv, Shown, LoadsInv, RowsInv
<1>5. OneRowEach(data') /\ Range(selected') \subseteq Range(data')
  BY <1>1, <1>4 DEF SelectedAgain
<1>6. LoadsInv'
  BY <1>1, <1>4 DEF Shown, LoadsInv
<1>7. Flat'
  BY <1>3 DEF Flat
<1>8. RowsInv' /\ SelectionIsShown'
  BY <1>5, ShownSelection
<1>9. ParamsInv'
  <2>1. loads[i].search = shownFor
    <3>1. ~(loads[i].reloaded = TRUE)
      BY <1>1
    <3> QED BY <1>1, <1>2, <3>1 DEF Shown, ParamsInv
  <2>2. \A r \in Range(data') : r.search = shownFor
    BY <1>1, <2>1 DEF Shown, ParamsInv
  <2> QED BY <1>1, <1>5, <2>2 DEF Shown, ParamsInv
<1>10. PendingInv'
  <2> SUFFICES ASSUME NEW r \in Range(data'), r.status = "loading"
               PROVE  \E l \in Range(loads') : l.of = r.id /\ l.reloaded = FALSE
    BY DEF PendingInv, Awaited
  <2>1. CASE r \in Range(data) /\ r.id # loads[i].of
    <3>1. Awaited(r)
      BY <2>1 DEF Shown, PendingInv
    <3> QED BY <1>1, <2>1, <3>1, StillAwaited
  <2> QED BY <1>1, <2>1
<1>11. StaysExpanded'
  BY <1>1, <1>3 DEF Shown, StaysExpanded
<1> QED BY <1>6, <1>7, <1>8, <1>9, <1>10, <1>11 DEF Shown

\* So does a load that fails.
LEMMA FailsShown ==
  ASSUME Typed, Shown, NEW i \in DOMAIN loads, LoadFails(i)
  PROVE  Shown'
<1>1. table' = table /\ phase' = phase
  BY DEF LoadFails
<1>2. /\ shownFor' = shownFor /\ expanded' = expanded \ {loads[i].of}
      /\ SelectedAgain(selected', selected, data')
      /\ loads[i].of = "" => data' = <<>>
      /\ loads[i].of # "" =>
           /\ data' = SetStatus(data, loads[i].of, "collapsed")
           /\ Range(loads') = {loads[j] : j \in DOMAIN loads \ {i}}
      /\ \A l \in Range(loads') :
           \/ l \in Range(loads)
           \/ /\ l.reloaded = TRUE
              /\ \E m \in Range(loads) : l.of = m.of /\ l.before = m.before
      /\ loads[i].of = "" => \A l \in Range(loads') : l.reloaded = TRUE
  BY FailShown
<1>3. Range(selected') \subseteq Range(data')
  BY <1>2 DEF SelectedAgain
<1>4. LoadsInv'
  BY <1>2 DEF Shown, LoadsInv
<1>5. loads[i] \in Range(loads) /\ phase # "closed"
  BY LoadingPage DEF Range
<1>6. CASE loads[i].of = ""
  <2>1. data' = <<>> /\ Range(data') = {} /\ DOMAIN data' = {}
    <3>1. data' = <<>>
      BY <1>2, <1>6
    <3> QED BY <3>1, EmptyFacts
  <2>2. OneRowEach(data') /\ Range(selected') = {}
    BY <1>3, <2>1 DEF OneRowEach
  <2>3. RowsInv' /\ SelectionIsShown'
    BY <1>3, <2>2, ShownSelection
  <2>4. Flat'
    BY <1>1, <1>2, <2>1, <2>2 DEF Shown, Flat
  <2>5. ParamsInv'
    BY <1>2, <1>6, <2>1, <2>2 DEF Shown, ParamsInv
  <2>6. PendingInv' /\ StaysExpanded'
    BY <2>1 DEF PendingInv, StaysExpanded
  <2> QED BY <1>4, <2>3, <2>4, <2>5, <2>6 DEF Shown
<1>7. CASE loads[i].of # ""
  <2> DEFINE id == loads[i].of
             new == SetStatus(data, id, "collapsed")
  <2>1. table.tree # "" /\ ~table.ordered
    BY <1>5, <1>7, LoadingPage DEF Shown, Flat
  <2>2. /\ new \in Seq(RowType(Known)) /\ Alike(new, data)
        /\ \A j \in DOMAIN data :
             IF data[j].id = id THEN new[j].status = "collapsed"
             ELSE new[j] = data[j]
    <3>1. data \in Seq(RowType(Known)) /\ "collapsed" \in States
      BY LoadingPage DEF States
    <3> QED BY <3>1, SetStatusFacts
  <2>3. data' = new
    BY <1>2, <1>7
  <2> HIDE DEF new
  <2>4. ASSUME NEW r \in Range(data')
        PROVE  \/ r \in Range(data) /\ r.id # id
               \/ /\ r.id = id /\ r.status = "collapsed"
                  /\ \E q \in Range(data) : r.search = q.search
    <3>1. PICK j \in DOMAIN new : r = new[j]
      BY <2>3 DEF Range
    <3>2. /\ j \in DOMAIN data /\ new[j].id = data[j].id
          /\ new[j].search = data[j].search /\ data[j] \in Range(data)
      BY <2>2, <3>1 DEF Alike, Range
    <3> QED BY <2>2, <3>1, <3>2
  <2>5. OneRowEach(data')
    BY <2>2, <2>3 DEF Shown, RowsInv, OneRowEach, Alike
  <2>6. RowsInv' /\ SelectionIsShown'
    BY <1>3, <2>5, ShownSelection
  <2>7. Flat'
    BY <1>1, <2>1 DEF Flat
  <2>8. ParamsInv'
    <3>1. \A r \in Range(data') : r.search = shownFor
      BY <2>4 DEF Shown, ParamsInv
    <3> QED BY <1>2, <1>3, <3>1 DEF Shown, ParamsInv
  <2>9. PendingInv'
    <3> SUFFICES ASSUME NEW r \in Range(data'), r.status = "loading"
                 PROVE  \E l \in Range(loads') :
                          l.of = r.id /\ l.reloaded = FALSE
      BY DEF PendingInv, Awaited
    <3>1. r \in Range(data) /\ r.id # loads[i].of
      BY <2>4
    <3>2. Awaited(r)
      BY <3>1 DEF Shown, PendingInv
    <3>3. \A j \in DOMAIN loads \ {i} : loads[j] \in Range(loads')
      BY <1>2, <1>7
    <3> QED BY <3>1, <3>2, <3>3, StillAwaited
  <2>10. StaysExpanded'
    BY <1>2, <2>4 DEF Shown, StaysExpanded
  <2> QED BY <1>4, <2>6, <2>7, <2>8, <2>9, <2>10 DEF Shown
<1> QED BY <1>6, <1>7

\* No row waits for an answer that is discarded.
LEMMA DiscardShown ==
  ASSUME Typed, Shown, NEW i \in DOMAIN loads, Discard(i)
  PROVE  Shown'
<1>1. /\ loads[i].of # "" /\ loads[i].reloaded /\ loads' = Remaining(i)
      /\ UNCHANGED <<table, phase, data, shownFor, expanded, selected>>
  BY DEF Discard
<1>2. Range(loads') = {loads[j] : j \in DOMAIN loads \ {i}}
  BY <1>1, LoadingPage, RemainingFacts
<1>3. Range(loads') \subseteq Range(loads)
  BY <1>2 DEF Range
<1>4. LoadsInv' /\ Flat' /\ ParamsInv'
  BY <1>1, <1>3 DEF Shown, LoadsInv, Flat, ParamsInv
<1>5. RowsInv' /\ StaysExpanded' /\ SelectionIsShown'
  BY <1>1 DEF Shown, RowsInv, StaysExpanded, SelectionIsShown,
              OneRowEach
<1>6. PendingInv'
  <2> SUFFICES ASSUME NEW r \in Range(data), r.status = "loading"
               PROVE  \E l \in Range(loads') : l.of = r.id /\ l.reloaded = FALSE
    BY <1>1 DEF PendingInv, Awaited
  <2>1. Awaited(r)
    BY DEF Shown, PendingInv
  <2>2. loads[i].reloaded = TRUE
    <3>1. loads[i] \in LoadType(Known)
      BY LoadingPage
    <3>2. loads[i].reloaded \in BOOLEAN
      BY <3>1 DEF LoadType
    <3> QED BY <1>1, <3>2
  <2> QED BY <1>2, <2>1, <2>2, StillAwaited
<1> QED BY <1>4, <1>5, <1>6 DEF Shown

\* A row that shows that it is loading has sent its load.
LEMMA ToggleShown ==
  ASSUME Typed, Shown, StoredInv, NEW r \in Range(data), Toggle(r)
  PROVE  Shown'
<1>1. /\ phase = "ready" /\ table.tree # ""
      /\ selected' = UpdateSelection(selected, data')
      /\ UNCHANGED <<table, phase, stored, nums, shownFor>>
  BY DEF Toggle
<1>2. /\ data \in Seq(RowType(Known)) /\ selected \in Seq(RowType(Known))
      /\ stored \in Seq(Known) /\ shownFor \in BOOLEAN /\ r.id \in Known
      /\ loads \in Seq(LoadType(Known)) /\ nums \in [Known -> Nat]
      /\ ~table.ordered
  <2>1. phase # "closed"
    BY <1>1
  <2>2. r.id \in Known
    BY <2>1, OpenPage DEF RowType
  <2>3. ~table.ordered
    BY <1>1, <2>1, PageFacts DEF Typed
  <2> QED BY <2>1, <2>2, <2>3, OpenPage
<1> DEFINE load == Load(r.id, stored, nums, shownFor)
<1>3. /\ load \in LoadType(Known)
      /\ load.of = r.id /\ load.before = stored /\ load.search = shownFor
      /\ load.reloaded = FALSE
  <2>1. load \in LoadType(Known)
    BY <1>2, LoadFacts
  <2>2. /\ load.of = r.id /\ load.before = stored /\ load.search = shownFor
        /\ load.reloaded = FALSE
    BY Zenon DEF Load
  <2> QED BY <2>1, <2>2
<1>4. \E status \in States :
        /\ data' = SetStatus(data, r.id, status)
        /\ \/ status = "collapsed" /\ expanded' = expanded \ {r.id}
              /\ loads' = loads
           \/ status = "expanded" /\ expanded' = expanded \cup {r.id}
              /\ loads' = loads
           \/ status = "loading" /\ expanded' = expanded \cup {r.id}
              /\ loads' = Append(loads, load)
  BY DEF Toggle, States
<1> HIDE DEF load
<1>5. Range(Append(loads, load)) = Range(loads) \cup {load}
  BY <1>2, <1>3, AppendFacts
<1>6. PICK status \in States :
        /\ data' = SetStatus(data, r.id, status)
        /\ status = "collapsed" => expanded' = expanded \ {r.id}
        /\ status # "collapsed" => expanded' = expanded \cup {r.id}
        /\ Range(loads) \subseteq Range(loads')
        /\ \A l \in Range(loads') : l \in Range(loads) \/ l = load
        /\ status = "loading" => load \in Range(loads')
  BY <1>4, <1>5
<1> DEFINE new == SetStatus(data, r.id, status)
<1>7. /\ new \in Seq(RowType(Known)) /\ Alike(new, data)
      /\ \A j \in DOMAIN data :
           IF data[j].id = r.id THEN new[j].status = status
           ELSE new[j] = data[j]
  BY <1>2, SetStatusFacts
<1>8. data' = new
  BY <1>6
<1> HIDE DEF new
<1>9. Range(selected') \subseteq Range(data')
  <2>1. SelectedAgain(UpdateSelection(selected, new), selected, new)
    BY <1>2, <1>7, SelectionFacts
  <2> QED BY <1>1, <1>8, <2>1 DEF SelectedAgain
<1>10. OneRowEach(data')
  BY <1>7, <1>8 DEF Shown, RowsInv, OneRowEach, Alike
<1>11. ASSUME NEW q \in Range(data')
       PROVE  /\ q.search = shownFor
              /\ \/ q \in Range(data) /\ q.id # r.id
                 \/ q.id = r.id /\ q.status = status
  <2>1. PICK j \in DOMAIN new : q = new[j]
    BY <1>8 DEF Range
  <2>2. /\ j \in DOMAIN data /\ new[j].id = data[j].id
        /\ new[j].search = data[j].search /\ data[j] \in Range(data)
    BY <1>7, <2>1 DEF Alike, Range
  <2>3. data[j].search = shownFor
    BY <2>2 DEF Shown, ParamsInv
  <2> QED BY <1>7, <2>1, <2>2, <2>3
<1>12. LoadsInv'
  BY <1>3, <1>6 DEF Shown, LoadsInv, StoredInv
<1>13. Flat'
  BY <1>1, <1>2 DEF Flat
<1>14. RowsInv' /\ SelectionIsShown'
  BY <1>9, <1>10, ShownSelection
<1>15. ParamsInv'
  BY <1>1, <1>3, <1>6, <1>9, <1>11 DEF Shown, ParamsInv
<1>16. PendingInv'
  BY <1>3, <1>6, <1>11 DEF Shown, PendingInv, Awaited
<1>17. StaysExpanded'
  BY <1>6, <1>11 DEF Shown, StaysExpanded
<1> QED BY <1>12, <1>13, <1>14, <1>15, <1>16, <1>17 DEF Shown

\* Rules that are moved or removed are still there once each, and none of
\* those that were removed is shown again.
LEMMA EditShown ==
  ASSUME Typed, Shown, Edits
  PROVE  Shown'
<1>1. /\ phase = "ready" /\ table.ordered
      /\ UNCHANGED <<table, phase, shownFor, expanded, loads>>
  BY UpDownFacts, RemoveRulesFacts DEF Edits
<1>2. table.tree = ""
  BY <1>1, PageFacts DEF Typed
<1>3. /\ expanded = {} /\ OneRowEach(data)
      /\ \A q \in Range(data) \cup Range(selected) :
           q.status = "collapsed" /\ q.search = shownFor
      /\ \A x \in Range(selected), q \in Range(data) : x.id = q.id => x = q
  BY <1>1, <1>2 DEF Shown, Flat, ParamsInv, RowsInv
<1>4. \E rs \in Seq(RowType(Known)) :
        /\ data' = Renumber(rs) /\ OneRowEach(rs)
        /\ Range(rs) \subseteq Range(data) \cup Range(selected)
        /\ \/ selected' = selected
              /\ \A x \in Range(selected), q \in Range(rs) : x.id # q.id
           \/ \E i \in DOMAIN rs : selected' = <<data'[i]>>
  <2>1. CASE Up \/ Down
    <3>1. selected # <<>> /\ Head(selected) \in Range(selected)
      BY <1>1, <2>1, UpDownFacts, OpenPage, SeqFacts
    <3>2. ASSUME Place = 0
          PROVE  Head(selected).id \notin IdsOf(data)
      <4>1. Head(selected) \notin Range(data)
        BY <1>1, <3>2, PlaceFacts
      <4> QED BY <1>3, <3>1, <4>1 DEF IdsOf
    <3>3. \E moved \in Seq(RowType(Known)) : \E i \in DOMAIN moved :
            /\ data' = Renumber(moved) /\ selected' = <<data'[i]>>
            /\ Range(moved) \subseteq Range(data) \cup {Head(selected)}
            /\ OneRowEach(moved)
      BY <1>3, <2>1, <3>2, UpDownFacts
    <3> QED BY <3>1, <3>3
  <2>2. CASE RemoveRules
    <3>1. PICK left \in Seq(RowType(Known)) :
            /\ data' = Renumber(left) /\ selected' = selected
            /\ Range(left) =
                 {q \in Range(data) :
                    q.num \notin {x.num : x \in Range(selected)}}
            /\ OneRowEach(left)
      BY <1>3, <2>2, RemoveRulesFacts
    <3>2. \A x \in Range(selected), q \in Range(left) : x.id # q.id
      BY <1>3, <3>1
    <3> QED BY <3>1, <3>2
  <2> QED BY <2>1, <2>2 DEF Edits
<1>5. PICK rs \in Seq(RowType(Known)) :
        /\ data' = Renumber(rs) /\ OneRowEach(rs)
        /\ Range(rs) \subseteq Range(data) \cup Range(selected)
        /\ \/ selected' = selected
              /\ \A x \in Range(selected), q \in Range(rs) : x.id # q.id
           \/ \E i \in DOMAIN rs : selected' = <<data'[i]>>
  BY <1>4
<1>6. /\ DOMAIN data' = DOMAIN rs
      /\ \A i \in DOMAIN rs :
           /\ data'[i].id = rs[i].id
           /\ data'[i].search = rs[i].search /\ data'[i].status = rs[i].status
  BY <1>5, RenumberFacts
<1>7. ASSUME NEW q \in Range(data')
      PROVE  /\ q.status = "collapsed" /\ q.search = shownFor
             /\ \E p \in Range(rs) : q.id = p.id
  <2>1. PICK i \in DOMAIN rs : q = data'[i] /\ rs[i] \in Range(rs)
    BY <1>6 DEF Range
  <2> QED BY <1>3, <1>5, <1>6, <2>1
<1>8. OneRowEach(data')
  BY <1>5, <1>6 DEF OneRowEach
<1>9. /\ \A x \in Range(selected') :
           x.status = "collapsed" /\ x.search = shownFor
      /\ \A x \in Range(selected'), q \in Range(data') : x.id = q.id => x = q
  <2>1. CASE selected' = selected
             /\ \A x \in Range(selected), q \in Range(rs) : x.id # q.id
    BY <1>3, <1>7, <2>1
  <2>2. CASE \E i \in DOMAIN rs : selected' = <<data'[i]>>
    <3>1. PICK i \in DOMAIN rs : selected' = <<data'[i]>>
      BY <2>2
    <3>2. Range(selected') = {data'[i]} /\ data'[i] \in Range(data')
      BY <1>6, <3>1, SingleFacts DEF Range
    <3>3. \A q \in Range(data') : data'[i].id = q.id => data'[i] = q
      BY <1>6, <1>8 DEF OneRowEach, Range
    <3> QED BY <1>7, <3>2, <3>3
  <2> QED BY <1>5, <2>1, <2>2
<1>10. LoadsInv'
  BY <1>1 DEF Shown, LoadsInv
<1>11. Flat'
  BY <1>1, <1>7, <1>9 DEF Shown, Flat
<1>12. RowsInv'
  BY <1>8, <1>9 DEF RowsInv
<1>13. ParamsInv'
  BY <1>1, <1>7, <1>9 DEF Shown, ParamsInv
<1>14. PendingInv'
  <2>1. \A q \in Range(data') : q.status # "loading"
    BY <1>7
  <2> QED BY <2>1 DEF PendingInv
<1>15. StaysExpanded'
  BY <1>1, <1>3 DEF StaysExpanded
<1>16. SelectionIsShown'
  BY <1>1, <1>12 DEF SelectionIsShown, RowsInv, IdsOf
<1> QED BY <1>10, <1>11, <1>12, <1>13, <1>14, <1>15, <1>16 DEF Shown

\* Every step keeps what is promised of the rows, the loads and the
\* selection.
LEMMA TidyStep ==
  ASSUME Typed, Tidy, [Next]_vars
  PROVE  Tidy'
<1>1. Shown /\ StoredInv /\ OneRowEach(data)
  BY DEF Tidy, Shown, RowsInv
<1>2. StoredInv' /\ Typed'
  BY <1>1, StoredStep, TypedStep
<1>3. Shown' => Tidy'
  BY <1>2 DEF Tidy, Shown
<1>4. CASE Quiet
  BY <1>1, <1>2, <1>3, <1>4, QuietShown
<1>5. CASE Leaves
  BY <1>5, LeavesTidy DEF Leaves
<1>6. CASE Opens
  BY <1>6, OpensTidy
<1>7. CASE Answers
  <2>1. PICK i \in DOMAIN loads : Deliver(i) \/ LoadFails(i) \/ Discard(i)
    BY <1>7 DEF Answers
  <2>2. CASE Deliver(i)
    <3>1. table' = table /\ phase' = phase
      BY <2>2 DEF Deliver
    <3>2. PICK ids \in {loads[i].before, stored}, ns \in {loads[i].nums, nums} :
            DeliverRoot(i, ids, ns) \/ DeliverChildren(i, ids, ns)
      BY <2>2 DEF Deliver
    <3> QED BY <1>1, <1>3, <3>1, <3>2, DeliverRootShown, DeliverChildrenShown
  <2>3. CASE LoadFails(i)
    BY <1>1, <1>3, <2>3, FailsShown
  <2>4. CASE Discard(i)
    BY <1>1, <1>3, <2>4, DiscardShown
  <2> QED BY <2>1, <2>2, <2>3, <2>4
<1>8. CASE Edits
  BY <1>1, <1>3, <1>8, EditShown
<1>9. CASE \E r \in Range(data) : Toggle(r) \/ Pick(r)
  BY <1>1, <1>3, <1>9, ToggleShown, PickShown
<1> QED BY <1>4, <1>5, <1>6, <1>7, <1>8, <1>9, Kinds

\* Nothing is promised of a page that is not open.
LEMMA TidyInit ==
  ASSUME Init
  PROVE  Tidy
<1>1. /\ phase = "closed" /\ stored = <<>> /\ data = <<>> /\ expanded = {}
      /\ selected = <<>> /\ loads = <<>>
  BY DEF Init
<1>2. /\ Range(data) = {} /\ Range(selected) = {} /\ Range(loads) = {}
      /\ DOMAIN data = {} /\ DOMAIN stored = {}
  BY <1>1, EmptyFacts
<1>3. RowsInv /\ PendingInv /\ StaysExpanded /\ SelectionIsShown
  BY <1>1, <1>2 DEF RowsInv, PendingInv, StaysExpanded, SelectionIsShown,
                    OneRowEach
<1>4. StoredInv /\ LoadsInv /\ Flat /\ ParamsInv
  BY <1>1, <1>2 DEF StoredInv, LoadsInv, Flat, ParamsInv, Distinct
<1> QED BY <1>3, <1>4 DEF Tidy

\* The inductive invariant behind the two theorems that follow: what is
\* shown is well-ordered whatever loads, failures and edits overlap.
THEOREM AlwaysTidy == Spec => []Tidy
<1>1. Tidy /\ Typed /\ [Next]_vars => Tidy'
  BY TidyStep
<1> QED BY <1>1, TidyInit, AlwaysTyped, PTL DEF Spec

\* Whatever loads, failures and edits overlap, no button stays enabled for a
\* row that is gone: what is selected is shown, as it is shown.  Of the rules,
\* which are edited in place, this is said of those that are still there.
THEOREM SelectionAlwaysShown == Spec => []SelectionIsShown
<1>1. Tidy => SelectionIsShown
  BY DEF Tidy
<1> QED BY <1>1, AlwaysTidy, PTL

\* A tree shows no row twice, waits for a load wherever it says so, keeps
\* expanded what the user expanded, and answers one search, in whatever order
\* the loads of its roots and of the children of its rows are answered.
THEOREM TreeAlwaysConsistent == Spec => []TreeIsConsistent
<1>1. ASSUME Typed, Tidy
      PROVE  TreeIsConsistent
  <2>1. UniqueRows
    BY <1>1 DEF Tidy, RowsInv, OneRowEach, UniqueRows
  <2>2. RowsMatchParams
    BY <1>1 DEF Tidy, ParamsInv, RowsMatchParams
  <2>3. LoadingIsPending
    <3> SUFFICES ASSUME NEW r \in Range(data), r.status = "loading"
                 PROVE  \E i \in DOMAIN loads :
                          loads[i].of = r.id /\ ~loads[i].reloaded
      BY DEF LoadingIsPending
    <3>1. PICK l \in Range(loads) : l.of = r.id /\ l.reloaded = FALSE
      BY <1>1 DEF Tidy, PendingInv, Awaited
    <3>2. PICK i \in DOMAIN loads : l = loads[i]
      BY DEF Range
    <3>3. ~loads[i].reloaded
      BY <3>1, <3>2
    <3> QED BY <3>1, <3>2, <3>3
  <2> QED BY <1>1, <2>1, <2>2, <2>3 DEF Tidy, TreeIsConsistent
<1> QED BY <1>1, AlwaysTyped, AlwaysTidy, PTL

-----------------------------------------------------------------------------
\* What actions act on, for tables whose keys tell their rows apart.

\* The page's action is for the rows of its click: those that are selected
\* while it asks, and those it acts on.
Chosen(a, ns, rows) == a.needs => ns # <<>> /\ rows \subseteq Range(ns)

ChosenInv ==
  /\ IdsOf(selected) \cup acted \subseteq picked
  /\ phase = "asking" => IdsOf(selected) \subseteq Range(named) /\ acted = {}
  /\ phase \notin {"closed", "ready"} =>
       Range(named) \subseteq picked /\ Chosen(action, named, acted)

\* Rows with the same key are the same.
LEMMA KeyFacts ==
  ASSUME Typed, KeysIdentify, phase # "closed",
         NEW x \in Known, NEW y \in Known,
         table.key[y] # "", table.key[y] = table.key[x]
  PROVE  x = y
<1>1. PICK n \in DOMAIN Tables : table = Component(Tables[n])
  BY DEF Typed, PageInv
<1> DEFINE t == Tables[n]
           place(z) == CHOOSE i \in DOMAIN t.ids : t.ids[i] = z
<1>2. \A i, j \in DOMAIN t.ids :
        t.keys[i] # "" /\ t.keys[i] = t.keys[j] => i = j
  BY DEF KeysIdentify
<1> HIDE DEF t
<1>3. table.key = [z \in Range(t.ids) |-> t.keys[place(z)]]
      /\ Known = Range(t.ids)
  BY <1>1 DEF Component, t, Known
<1>4. ASSUME NEW z \in Known
      PROVE  /\ place(z) \in DOMAIN t.ids /\ t.ids[place(z)] = z
             /\ table.key[z] = t.keys[place(z)]
  <2>1. \E i \in DOMAIN t.ids : t.ids[i] = z
    BY <1>3 DEF Range
  <2>2. place(z) \in DOMAIN t.ids /\ t.ids[place(z)] = z
    BY <2>1
  <2> HIDE DEF place
  <2>3. table.key[z] = t.keys[place(z)]
    BY <1>3
  <2> QED BY <2>2, <2>3
<1> HIDE DEF place
<1>5. place(x) = place(y)
  BY <1>2, <1>4
<1> QED BY <1>4, <1>5

\* A selection that is made again selects no row that was not selected.
LEMMA SelectedStays ==
  ASSUME Typed, KeysIdentify, phase # "closed",
         Range(data') \subseteq RowType(Known),
         SelectedAgain(selected', selected, data')
  PROVE  IdsOf(selected') \subseteq IdsOf(selected)
<1> SUFFICES ASSUME NEW y \in Range(selected')
             PROVE  \E x \in Range(selected) : y.id = x.id
  BY DEF IdsOf
<1>1. PICK x \in Range(selected) :
        table.key[y.id] # "" /\ table.key[y.id] = table.key[x.id]
  BY DEF SelectedAgain
<1>2. y \in Range(data')
  BY DEF SelectedAgain
<1>3. x \in RowType(Known) /\ y \in RowType(Known)
  BY <1>2, OpenPage
<1>4. x.id \in Known /\ y.id \in Known
  BY <1>3 DEF RowType
<1> QED BY <1>1, <1>4, KeyFacts

\* Steps that leave the action alone, and select nothing more.
LEMMA ChosenStays ==
  ASSUME ChosenInv, UNCHANGED <<phase, action, named, acted, picked>>,
         IdsOf(selected') \subseteq IdsOf(selected)
  PROVE  ChosenInv'
BY DEF ChosenInv, Chosen

\* An answer to a load, or its failure, selects no other row.
LEMMA LoadChosen ==
  ASSUME Typed, KeysIdentify, ChosenInv, NEW i \in DOMAIN loads,
         Deliver(i) \/ LoadFails(i) \/ Discard(i)
  PROVE  ChosenInv'
<1>1. UNCHANGED <<table, phase, action, named, acted, picked>>
  BY DEF Deliver, LoadFails, Discard, working
<1>2. /\ phase # "closed" /\ data' \in Seq(RowType(Known))
  <2>1. phase # "closed"
    BY LoadingPage
  <2>2. Typed' /\ Known' = Known
    BY <1>1, LoadTyped DEF Known
  <2> QED BY <2>1, <2>2 DEF Typed, Lists
<1>3. Range(data') \subseteq RowType(Known)
  BY <1>2, SeqFacts
<1>4. SelectedAgain(selected', selected, data') \/ selected' = selected
  <2>1. CASE Deliver(i)
    <3>1. PICK ids \in {loads[i].before, stored}, ns \in {loads[i].nums, nums} :
            DeliverRoot(i, ids, ns) \/ DeliverChildren(i, ids, ns)
      BY <2>1 DEF Deliver
    <3> QED BY <3>1, RootShown, ChildShown
  <2>2. CASE LoadFails(i)
    BY <2>2, FailShown
  <2>3. CASE Discard(i)
    BY <2>3 DEF Discard
  <2> QED BY <2>1, <2>2, <2>3
<1>5. IdsOf(selected') \subseteq IdsOf(selected)
  BY <1>2, <1>3, <1>4, SelectedStays
<1> QED BY <1>1, <1>5, ChosenStays

\* Nor does a row that is expanded or collapsed.
LEMMA ToggleChosen ==
  ASSUME Typed, KeysIdentify, ChosenInv, NEW r \in Range(data), Toggle(r)
  PROVE  ChosenInv'
<1>1. /\ phase = "ready" /\ selected' = UpdateSelection(selected, data')
      /\ UNCHANGED <<table, phase, action, named, acted, picked>>
  BY DEF Toggle, working
<1>2. data' \in Seq(RowType(Known)) /\ selected \in Seq(RowType(Known))
  <2>1. Typed' /\ Known' = Known
    BY <1>1, ToggleTyped DEF Known
  <2> QED BY <2>1 DEF Typed, Lists
<1>3. SelectedAgain(UpdateSelection(selected, data'), selected, data')
  BY <1>2, SelectionFacts
<1>4. Range(data') \subseteq RowType(Known)
  BY <1>2, SeqFacts
<1>5. IdsOf(selected') \subseteq IdsOf(selected)
  BY <1>1, <1>3, <1>4, SelectedStays
<1> QED BY <1>1, <1>5, ChosenStays

\* A row that is selected or unselected was picked by the user, and no
\* action is under way then.
LEMMA PickChosen ==
  ASSUME Typed, ChosenInv, NEW r \in Range(data), Pick(r)
  PROVE  ChosenInv'
<1> DEFINE kept == IF table.select = "multi" THEN selected ELSE <<>>
<1>1. /\ phase = "ready" /\ UNCHANGED <<phase, acted>>
      /\ r.id \in IdsOf(selected) => picked' = picked \ {r.id}
      /\ r.id \notin IdsOf(selected) =>
           picked' = (picked \cap IdsOf(kept)) \union {r.id}
  BY DEF Pick, working
<1>2. acted = {} /\ IdsOf(selected) \subseteq picked
  BY <1>1 DEF Typed, ActionInv, ChosenInv
<1>3. /\ Range(kept) \subseteq Range(selected)
      /\ r.id \in IdsOf(selected) =>
           Range(selected') = {x \in Range(kept) : x.id # r.id}
      /\ r.id \notin IdsOf(selected) => Range(selected') = Range(kept) \cup {r}
  BY <1>1, PickFacts
<1> HIDE DEF kept
<1>4. IdsOf(selected') \subseteq picked'
  BY <1>1, <1>2, <1>3 DEF IdsOf
<1> QED BY <1>1, <1>2, <1>4 DEF ChosenInv

\* Moved rules are selected ones.
LEMMA EditChosen ==
  ASSUME Typed, ChosenInv, Edits
  PROVE  ChosenInv'
<1>1. UNCHANGED <<phase, action, named, acted, picked>> /\ phase = "ready"
  BY UpDownFacts, RemoveRulesFacts DEF Edits, working
<1>2. IdsOf(selected') \subseteq IdsOf(selected)
  <2>1. CASE Up \/ Down
    <3>1. PICK moved \in Seq(RowType(Known)) : \E i \in DOMAIN moved :
            /\ moved[i] = Head(selected)
            /\ data' = Renumber(moved) /\ selected' = <<data'[i]>>
      BY <2>1, UpDownFacts
    <3>2. PICK i \in DOMAIN moved :
            moved[i] = Head(selected) /\ selected' = <<data'[i]>>
      BY <3>1
    <3>3. data'[i].id = Head(selected).id
      BY <3>1, <3>2, RenumberFacts
    <3>4. Head(selected) \in Range(selected)
      BY <1>1, <2>1, UpDownFacts, OpenPage, SeqFacts
    <3>5. Range(selected') = {data'[i]}
      BY <3>2, SingleFacts
    <3> QED BY <3>3, <3>4, <3>5 DEF IdsOf
  <2>2. CASE RemoveRules
    <3>1. selected' = selected
      BY <2>2, RemoveRulesFacts
    <3> QED BY <3>1
  <2> QED BY <2>1, <2>2 DEF Edits
<1> QED BY <1>1, <1>2, ChosenStays

\* An action that names a row was offered because a row is selected.
LEMMA EnabledFacts ==
  ASSUME Typed, phase = "ready", NEW a \in table.actions, Enabled(a)
  PROVE  /\ a.needs => Names(selected) # <<>>
         /\ Range(Names(selected)) = IdsOf(selected)
<1>1. /\ a.min \in Nat /\ a.max \in Nat /\ (a.needs => a.min > 0)
  BY PageFacts DEF Typed
<1>2. selected \in Seq(RowType(Known))
  BY OpenPage
<1>3. /\ Names(selected) \in Seq(Known)
      /\ Len(Names(selected)) = Len(selected)
      /\ Range(Names(selected)) = IdsOf(selected)
  BY <1>2, NamesFacts
<1>4. Len(selected) \in a.min..a.max
  BY DEF Enabled
<1>5. Len(selected) \in Nat
  BY <1>2, SeqFacts
<1>6. a.min > 0 => Len(Names(selected)) # 0
  BY <1>1, <1>3, <1>4, <1>5
<1>7. Len(Names(selected)) # 0 => Names(selected) # <<>>
  BY EmptyFacts
<1> QED BY <1>1, <1>3, <1>6, <1>7

\* A click, and its confirmation, are for selected rows.
LEMMA WorkChosen ==
  ASSUME Typed, ChosenInv, NEW a \in table.actions, phase # "closed",
         (phase = "ready" /\ Click(a)) \/ Confirm \/ EndTask("completed")
           \/ EndTask("broken")
  PROVE  ChosenInv'
<1>1. UNCHANGED <<selected, picked>> /\ IdsOf(selected) \subseteq picked
  BY DEF Click, Confirm, EndTask, ChosenInv
<1>2. CASE phase = "ready" /\ Click(a)
  <2>1. /\ named' = Names(selected) /\ Enabled(a)
        /\ \/ phase' = "asking" /\ action' = a /\ acted' = {}
           \/ Start(a, Names(selected))
    BY <1>2 DEF Click
  <2>2. /\ a.needs => named' # <<>>
        /\ Range(named') = IdsOf(selected)
    BY <1>2, <2>1, EnabledFacts
  <2>3. CASE phase' = "asking" /\ action' = a /\ acted' = {}
    BY <1>1, <2>2, <2>3 DEF ChosenInv, Chosen
  <2>4. CASE Start(a, Names(selected))
    <3>1. Names(selected) \in Seq(Known)
      BY <1>2, OpenPage, NamesFacts
    <3>2. /\ phase' \in {"working", "task"} /\ action' = a
          /\ acted' = IF a.needs THEN Range(Names(selected)) ELSE {}
      BY <2>4, <3>1, StartTyped
    <3>3. acted' \subseteq Range(named')
      BY <2>1, <3>2
    <3> QED BY <1>1, <2>2, <3>2, <3>3 DEF ChosenInv, Chosen
  <2> QED BY <2>1, <2>3, <2>4
<1>3. CASE Confirm
  <2> DEFINE ids == IF action.bound THEN named ELSE Names(selected)
  <2>1. phase = "asking" /\ Start(action, ids) /\ named' = named
    BY <1>3 DEF Confirm
  <2>2. /\ IdsOf(selected) \subseteq Range(named)
        /\ Range(named) \subseteq picked /\ (action.needs => named # <<>>)
    BY <2>1 DEF ChosenInv, Chosen
  <2>3. named \in Seq(Known) /\ Names(selected) \in Seq(Known)
        /\ Range(Names(selected)) = IdsOf(selected)
    BY OpenPage, NamesFacts
  <2>4. ids \in Seq(Known) /\ Range(ids) \subseteq Range(named)
    BY <2>2, <2>3
  <2> HIDE DEF ids
  <2>5. /\ phase' \in {"working", "task"} /\ action' = action
        /\ acted' = IF action.needs THEN Range(ids) ELSE {}
    BY <2>1, <2>4, StartTyped
  <2>6. acted' \subseteq Range(named)
    BY <2>4, <2>5
  <2> QED BY <1>1, <2>1, <2>2, <2>5, <2>6 DEF ChosenInv, Chosen
<1>4. CASE EndTask("completed") \/ EndTask("broken")
  <2>1. /\ phase = "task" /\ phase' \in {"completed", "broken"}
        /\ UNCHANGED <<action, named, acted, selected, picked>>
    BY <1>4 DEF EndTask, working
  <2> QED BY <2>1 DEF ChosenInv, Chosen
<1> QED BY <1>2, <1>3, <1>4

\* The action is over.
LEMMA DoneChosen ==
  ASSUME ChosenInv, Done, UNCHANGED <<selected, picked>>
  PROVE  ChosenInv'
BY DEF ChosenInv, Done

\* The page is left; what a link acted on was selected.
LEMMA LeavesChosen ==
  ASSUME ChosenInv, NEW url, Closed(url), picked' = picked,
         acted' \subseteq IdsOf(selected)
  PROVE  ChosenInv'
<1>1. phase' = "closed" /\ selected' = <<>>
  BY DEF Closed
<1>2. IdsOf(selected') = {}
  BY <1>1, EmptyFacts DEF IdsOf
<1> QED BY <1>1, <1>2 DEF ChosenInv

\* Every step keeps the selection and what is acted on among the rows that
\* the user has picked.
LEMMA ChosenStep ==
  ASSUME Typed, KeysIdentify, ChosenInv, [Next]_vars
  PROVE  ChosenInv'
<1>1. CASE \/ UNCHANGED vars
           \/ Tick \/ Reload \/ ChooseLog \/ Search
           \/ SaveRules \/ SaveCells \/ BackendChanges
           \/ \E s \in saving : SaveFails(s)
  <2>1. UNCHANGED <<phase, action, named, acted, picked, selected>>
    BY <1>1 DEF vars, Tick, Reload, ChooseLog, Search, SaveRules, SaveCells,
                BackendChanges, SaveFails, working
  <2> QED BY <2>1, ChosenStays
<1>2. CASE Opens
  <2>1. /\ phase = "closed" /\ phase' = "ready" /\ acted' = {}
        /\ selected' = selected
    BY <1>2 DEF Opens, Open
  <2>2. IdsOf(selected') = {}
    BY <2>1, EmptyFacts DEF Typed, PageInv, IdsOf
  <2> QED BY <2>1, <2>2 DEF ChosenInv
<1>3. CASE Answers
  BY <1>3, LoadChosen DEF Answers
<1>4. CASE \E r \in Range(data) : Toggle(r) \/ Pick(r)
  BY <1>4, ToggleChosen, PickChosen
<1>5. CASE Edits
  BY <1>5, EditChosen
<1>6. CASE \E a \in table.actions : Follow(a)
  <2>1. PICK a \in table.actions : Follow(a)
    BY <1>6
  <2>2. acted' \subseteq IdsOf(selected) /\ picked' = picked
    BY <2>1 DEF Follow
  <2>3. \E url : Closed(url)
    BY <2>1 DEF Follow
  <2> QED BY <2>2, <2>3, LeavesChosen
<1>7. CASE \/ phase = "ready" /\ \E a \in table.actions : Click(a)
           \/ Confirm \/ EndTask("completed") \/ EndTask("broken")
  <2>1. CASE phase = "ready" /\ \E a \in table.actions : Click(a)
    BY <2>1, WorkChosen
  <2>2. CASE Confirm \/ EndTask("completed") \/ EndTask("broken")
    <3>1. phase # "closed" /\ action \in table.actions
      BY <2>2 DEF Confirm, EndTask, Typed, ActionInv
    <3> QED BY <2>2, <3>1, WorkChosen
  <2> QED BY <1>7, <2>1, <2>2
<1>8. CASE Decline \/ RequestFails
  BY <1>8, DoneChosen DEF Decline, RequestFails
<1>9. CASE RequestSucceeds
  <2>1. /\ phase = "working" /\ phase' \in {"working", "ready"}
        /\ phase' = "working" => UNCHANGED <<action, named, acted>>
        /\ phase' = "ready" => Done
        /\ UNCHANGED <<selected, picked>>
    BY <1>9, RequestFacts
  <2> QED BY <2>1, ChosenStays, DoneChosen
<1>10. CASE CloseDialog
  <2>1. CASE phase' # "closed"
    BY <1>10, <2>1, CloseFacts, DoneChosen
  <2>2. CASE phase' = "closed"
    <3>1. (\E url : Closed(url)) /\ acted' = {} /\ picked' = picked
      BY <1>10, <2>2 DEF CloseDialog, Done
    <3> QED BY <3>1, LeavesChosen
  <2> QED BY <2>1, <2>2
<1>11. CASE \E s \in saving : SaveSucceeds(s)
  <2>1. PICK s \in saving : SaveSucceeds(s)
    BY <1>11
  <2>2. CASE s.to = ""
    <3>1. UNCHANGED <<phase, action, named, acted, picked, selected>>
      BY <2>1, <2>2 DEF SaveSucceeds, working
    <3> QED BY <3>1, ChosenStays
  <2>3. CASE s.to # ""
    <3>1. Closed(s.to) /\ acted' = {} /\ picked' = picked
      BY <2>1, <2>3 DEF SaveSucceeds
    <3> QED BY <3>1, LeavesChosen
  <2> QED BY <2>2, <2>3
<1>12. CASE Leave
  BY <1>12, LeavesChosen DEF Leave
<1> QED BY <1>1, <1>2, <1>3, <1>4, <1>5, <1>6, <1>7, <1>8, <1>9, <1>10, <1>11,
           <1>12 DEF Next, Opens, Answers, Edits

\* The inductive invariant behind the two theorems that follow.
THEOREM AlwaysChosen ==
  ASSUME KeysIdentify
  PROVE  Spec => []ChosenInv
<1>1. Init => ChosenInv
  <2>1. ASSUME Init
        PROVE  ChosenInv
    <3>1. phase = "closed" /\ acted = {} /\ IdsOf(selected) = {}
      BY <2>1, EmptyFacts DEF Init, IdsOf
    <3> QED BY <3>1 DEF ChosenInv
  <2> QED BY <2>1
<1>2. ChosenInv /\ Typed /\ [Next]_vars => ChosenInv'
  BY ChosenStep
<1> QED BY <1>1, <1>2, AlwaysTyped, PTL DEF Spec

\* Every row a link, a request or a dialog acts on was selected by the user,
\* whatever reloads replaced meanwhile.
THEOREM ActsOnlyOnSelected ==
  ASSUME KeysIdentify
  PROVE  Spec => []OnlySelected
<1>1. ChosenInv => OnlySelected
  BY DEF ChosenInv, OnlySelected
<1> QED BY <1>1, AlwaysChosen, PTL

\* Every row an action works on was selected when the user was asked, and
\* there is one if the action names a row.
THEOREM ActsOnlyOnConfirmed ==
  ASSUME KeysIdentify
  PROVE  Spec => []OnlyConfirmed
<1>1. ChosenInv => OnlyConfirmed
  BY DEF ChosenInv, Chosen, OnlyConfirmed
<1> QED BY <1>1, AlwaysChosen, PTL

-----------------------------------------------------------------------------
\* Where a page leads.

\* Every URL that an action of a table names is one of a route.
UrlsExist ==
  \A n \in DOMAIN Tables : \A a \in Range(Tables[n].actions) :
    a.urls \subseteq Urls

\* The page shown exists, and so do those that saves under way lead to.
LandInv == at \in Urls /\ \A s \in saving : s.to \in Urls \cup {""}

\* The URLs of an action of the open page exist.
LEMMA ActionUrls ==
  ASSUME Typed, UrlsExist, phase # "closed", NEW a \in table.actions
  PROVE  a.urls \subseteq Urls
<1>1. PICK n \in DOMAIN Tables : table = Component(Tables[n])
  BY DEF Typed, PageInv
<1>2. table.actions = Range(Tables[n].actions)
  BY <1>1 DEF Component
<1> QED BY <1>2 DEF UrlsExist

\* Every step leads to a page that exists, and so will the saves it sends.
LEMMA LandStep ==
  ASSUME Typed, UrlsExist, LandInv, [Next]_vars
  PROVE  LandInv'
<1> USE DEF LandInv
<1>1. Urls' = Urls /\ "/dashboard" \in Urls
  BY RoutesAssumption DEF Urls
<1>2. CASE at' = at /\ saving' \subseteq saving
  BY <1>1, <1>2
<1>3. CASE \E url \in Urls : Closed(url) /\ saving' \subseteq saving
  BY <1>1, <1>3 DEF Closed
<1>4. CASE Opens
  BY <1>1, <1>4 DEF Opens, Open, Urls
<1>5. CASE \/ UNCHANGED vars \/ Answers \/ Edits
           \/ \E r \in Range(data) : Toggle(r) \/ Pick(r)
  <2>1. at' = at /\ saving' = saving
    BY <1>5 DEF vars, Answers, Deliver, LoadFails, Discard, Edits, Up, Down,
                RemoveRules, Edited, Toggle, Pick
  <2> QED BY <1>2, <2>1
<1>6. CASE Tick \/ Reload \/ ChooseLog \/ Search \/ BackendChanges
  BY <1>2, <1>6 DEF Tick, Reload, ChooseLog, Search, BackendChanges
<1>7. CASE \/ \E a \in table.actions : Click(a)
           \/ Confirm \/ Decline \/ RequestSucceeds \/ RequestFails
           \/ EndTask("completed") \/ EndTask("broken")
  <2>1. at' = at /\ saving' = saving
    BY <1>7 DEF Click, Confirm, Decline, RequestSucceeds, RequestFails,
                EndTask
  <2> QED BY <1>2, <2>1
<1>8. CASE phase = "ready" /\ \E a \in table.actions : Follow(a)
  <2>1. PICK a \in table.actions : Follow(a)
    BY <1>8
  <2>2. a.urls \subseteq Urls
    BY <1>8, ActionUrls
  <2> QED BY <1>3, <2>1, <2>2 DEF Follow
<1>9. CASE CloseDialog
  <2>1. CASE phase' # "closed"
    BY <1>2, <1>9, <2>1, CloseFacts
  <2>2. CASE phase' = "closed"
    <3>1. /\ phase \in {"completed", "broken"} /\ saving' = saving
          /\ \E url \in action.urls : Closed(url)
      BY <1>9, <2>2 DEF CloseDialog, Done
    <3>2. action.urls \subseteq Urls
      BY <3>1, ActionUrls DEF Typed, ActionInv
    <3> QED BY <1>3, <3>1, <3>2
  <2> QED BY <2>1, <2>2
<1>10. CASE SaveRules
  <2> DEFINE new == [to |-> "", rows |-> data]
  <2>1. at' = at /\ saving' = saving \union {new}
    BY <1>10 DEF SaveRules
  <2>2. new.to = ""
    OBVIOUS
  <2> HIDE DEF new
  <2> QED BY <1>1, <2>1, <2>2
<1>11. CASE SaveCells
  <2>1. PICK a \in table.actions : \E url \in a.urls :
          /\ phase = "ready" /\ at' = at
          /\ saving' = saving \union {[to |-> url, rows |-> <<>>]}
    BY <1>11 DEF SaveCells
  <2>2. a.urls \subseteq Urls
    BY <2>1, ActionUrls
  <2>3. PICK url \in Urls :
          at' = at /\ saving' = saving \union {[to |-> url, rows |-> <<>>]}
    BY <2>1, <2>2
  <2> DEFINE new == [to |-> url, rows |-> <<>>]
  <2>4. new.to = url /\ saving' = saving \union {new}
    BY <2>3
  <2> HIDE DEF new
  <2> QED BY <1>1, <2>3, <2>4
<1>12. CASE \E s \in saving : SaveSucceeds(s) \/ SaveFails(s)
  <2>1. PICK s \in saving : SaveSucceeds(s) \/ SaveFails(s)
    BY <1>12
  <2>2. CASE SaveFails(s) \/ (SaveSucceeds(s) /\ s.to = "")
    <3>1. at' = at /\ saving' \subseteq saving
      BY <2>2 DEF SaveFails, SaveSucceeds
    <3> QED BY <1>2, <3>1
  <2>3. CASE SaveSucceeds(s) /\ s.to # ""
    <3>1. s.to \in Urls /\ Closed(s.to) /\ saving' \subseteq saving
      BY <2>3 DEF SaveSucceeds
    <3> QED BY <1>3, <3>1
  <2> QED BY <2>1, <2>2, <2>3
<1>13. CASE Leave
  BY <1>1, <1>3, <1>13 DEF Leave
<1> QED BY <1>4, <1>5, <1>6, <1>7, <1>8, <1>9, <1>10, <1>11, <1>12, <1>13
        DEF Next, Opens, Answers, Edits

\* If the URLs of the actions exist, the user lands on no page that does not,
\* also where the answer to a save comes when the page that sent it is left.
THEOREM AlwaysLands ==
  ASSUME UrlsExist
  PROVE  Spec => []LandsOnPage
<1>1. Init => LandInv
  BY RoutesAssumption DEF Init, LandInv, Urls
<1>2. LandInv /\ Typed /\ [Next]_vars => LandInv'
  BY LandStep
<1>3. LandInv => LandsOnPage
  BY DEF LandInv, LandsOnPage
<1> QED BY <1>1, <1>2, <1>3, AlwaysTyped, PTL DEF Spec

=============================================================================
