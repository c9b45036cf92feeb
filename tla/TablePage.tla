----------------------------- MODULE TablePage -----------------------------
(***************************************************************************)
(* The table pages of the workbench at work: the datatable with its rows   *)
(* and its selection, the page that loads them, flat or as a tree, runs    *)
(* the actions of the toolbar, and is left.                                *)
(*                                                                         *)
(* Loads, their answers, a timer, the user and the backend interleave.     *)
(* The callbacks of an answer run to their end in the browser's single     *)
(* thread and are one action each.                                         *)
(***************************************************************************)
EXTENDS TableActions, Arrays

CONSTANTS
  Tables,      \* the table pages, by name
  Routes,      \* the routes of the workbench
  MaxAsks,     \* how often the user or the timer loads a table again
  MaxClicks,   \* how many actions with requests or dialogs are clicked
  MaxEdits,    \* how many times the rules of a firewall page are changed
  MaxChanges,  \* how often the backend's rows change on their own
  Satisfies(_, _)   \* ConstraintService.test: the value of a constraint

ASSUME PagesAssumption ==    \* each table's page has a route
  \A n \in DOMAIN Tables : \E r \in Routes : r.page = Tables[n].page
ASSUME RoutesAssumption ==   \* every route has a URL, the dashboard is one
  /\ \A r \in Routes : r.url \in STRING
  /\ \E r \in Routes : r.url = "/dashboard"
ASSUME RowsAssumption ==     \* every row has a name, a key and a parent
  \A n \in DOMAIN Tables : LET t == Tables[n] IN
    /\ t.ids \in Seq(STRING \ {""})
    /\ \A i, j \in DOMAIN t.ids : t.ids[i] = t.ids[j] => i = j
    /\ t.parents \in [DOMAIN t.ids -> STRING]
    /\ t.ordered => t.tree = ""
ASSUME ActionsAssumption ==
  \A n \in DOMAIN Tables : \A a \in Range(Tables[n].actions) :
    /\ a.urls \subseteq STRING
    /\ {a.min, a.max} \subseteq Nat
    \* An action whose parameters name a row asks for a selected one, and
    \* so do those that move a rule; only rules are moved and saved.
    /\ a.needs \/ a.what \in {"up", "down"} => a.min > 0
    /\ a.what \in {"up", "down", "remove", "saveRules"} => Tables[n].ordered
ASSUME BoundsAssumption ==
  {MaxAsks, MaxClicks, MaxEdits, MaxChanges} \subseteq Nat

VARIABLES
  at,        \* the URL shown
  table,     \* the component of the table page that is open
  phase,     \* what the page is doing
  stored,    \* the rows the backend has, in order
  nums,      \* the numbers it has stored for the rules, 0 in other tables
  search,    \* whether something is typed into the search field
  data,      \* the rows of the store, in order
  shownFor,  \* loadParams: the search that provided the root rows
  expanded,  \* expandedTreeRowIds
  selected,  \* the selection: rows as they were when they were selected
  loads,     \* the loads that have no answer yet
  action,    \* the action that asks, works or shows its dialog
  queue,     \* the rows its remaining requests are for, "" for none
  named,     \* the rows that were selected when it was clicked
  acted,     \* the rows it acts on
  picked,    \* the rows the user has selected on this page
  dirty,     \* the order of the rules was changed
  saving,    \* the save requests that have no answer yet
  asks,      \* the loads asked for again, bounded by MaxAsks
  clicks,    \* the actions clicked, bounded by MaxClicks or MaxEdits
  changes    \* the backend's changes so far, bounded by MaxChanges

working == <<action, queue, named, acted>>
counts  == <<asks, clicks, changes>>
vars == <<at, table, phase, stored, nums, search, data, shownFor,
          expanded, selected, loads, working, picked, dirty, saving, counts>>

NoTable  == [page |-> ""]
NoAction == [what |-> ""]

-----------------------------------------------------------------------------
\* What a page makes of its configuration.
Component(t) ==
  LET of(f) == [x \in Range(t.ids) |->
                  f[CHOOSE i \in DOMAIN t.ids : t.ids[i] = x]]
  IN  [page |-> t.page, ids |-> t.ids, props |-> of(t.rows),
       key |-> of(t.keys), parent |-> of(t.parents),
       actions |-> Range(t.actions), select |-> t.select,
       search |-> t.search, auto |-> t.auto, ticks |-> t.ticks,
       bar |-> t.bar, tree |-> t.tree, ordered |-> t.ordered]

IdsOf(rs) == {r.id : r \in Range(rs)}
Names(rs) == [i \in DOMAIN rs |-> rs[i].id]

\* What is typed into the search field matches every row but the first.
Hit(x) == x # Head(table.ids)

\* What the backend answers when it has the rows ids and the numbers ns: to
\* a tree that loads lazily, the children of the row asked for; to every
\* other table, all rows that match.  A rule has the number stored for it,
\* which need not be its place.
Answered(load, ids, ns) ==
  LET part == Only(ids, {x \in Range(ids) :
                /\ load.search => Hit(x)
                /\ table.tree = "lazy" => table.parent[x] = load.of})
  IN  [i \in DOMAIN part |->
         [id |-> part[i], num |-> ns[part[i]],
          search |-> load.search, parent |-> table.parent[part[i]],
          status |-> "collapsed"]]

\* A load of the root rows, of "", or of the children of a row.  Its answer
\* shows the rows the backend had at its start or has at its end; reloaded
\* says that the rows shown have been replaced since.
Load(id, ids, ns, searching) ==
  [of |-> id, before |-> ids, nums |-> ns, search |-> searching,
   reloaded |-> FALSE]

\* reloadData: the search is a parameter when the backend does the searching.
RootLoad(ids, ns, typed) ==
  Load("", ids, ns, typed /\ table.search = "remote")

\* The rows of rs with the key of the given row.  A row without a key is
\* never found.
SameKey(x, rs) ==
  Only(rs, {r \in Range(rs) : /\ table.key[r.id] # ""
                              /\ table.key[r.id] = table.key[x.id]})

\* Mutants: the selection is kept by position; it is not updated.
ByPosition_Mutant(sels, rs) ==
  LET place(x) == CHOOSE i \in DOMAIN table.ids : table.ids[i] = x.id
      kept == Only(sels, {x \in Range(sels) : place(x) <= Len(rs)})
  IN  [i \in DOMAIN kept |-> rs[place(kept[i])]]
Kept_Mutant(sels, rs) == sels

\* The rows that are selected once rs is shown: for each one selected, the
\* first that has its key.
UpdateSelection(sels, rs) ==
  LET kept == Only(sels, {x \in Range(sels) : SameKey(x, rs) # <<>>})
  IN  [i \in DOMAIN kept |-> Head(SameKey(kept[i], rs))]

-----------------------------------------------------------------------------
HasChildren(id, rs) == \E r \in Range(rs) : r.parent = id

\* expandTreeRows: of the new rows among rs, those that were expanded before
\* are expanded again.
Expand(new, rs) ==
  [i \in DOMAIN rs |->
     IF table.tree # "" /\ rs[i].id \in new \cap expanded
     THEN [rs[i] EXCEPT !.status = IF HasChildren(rs[i].id, rs)
                                   THEN "expanded" ELSE "loading"]
     ELSE rs[i]]

\* The loads of the new rows that have to ask for their children.
ChildLoads(new, rs, searching) ==
  LET waiting == Only(rs, {r \in Range(rs) :
                             r.id \in new /\ r.status = "loading"})
  IN  [i \in DOMAIN waiting |->
         Load(waiting[i].id, stored, nums, searching)]

SetStatus(rs, id, status) ==
  [i \in DOMAIN rs |-> IF rs[i].id = id THEN [rs[i] EXCEPT !.status = status]
                       ELSE rs[i]]

-----------------------------------------------------------------------------
Closed(url) ==
  /\ at' = url /\ phase' = "closed" /\ table' = NoTable
  /\ stored' = <<>> /\ nums' = <<>> /\ search' = FALSE
  /\ data' = <<>> /\ shownFor' = FALSE
  /\ expanded' = {} /\ selected' = <<>> /\ loads' = <<>>
  /\ action' = NoAction /\ queue' = <<>> /\ named' = <<>>
  /\ dirty' = FALSE /\ asks' = 0 /\ clicks' = 0
  /\ changes' = 0

Init ==
  /\ at = "/dashboard" /\ phase = "closed" /\ table = NoTable
  /\ stored = <<>> /\ nums = <<>> /\ search = FALSE
  /\ data = <<>> /\ shownFor = FALSE
  /\ expanded = {} /\ selected = <<>> /\ loads = <<>>
  /\ action = NoAction /\ queue = <<>> /\ named = <<>> /\ acted = {}
  /\ picked = {} /\ dirty = FALSE /\ saving = {}
  /\ asks = 0 /\ clicks = 0 /\ changes = 0

\* The numbers of the rules at first.  The model counts rules from 1.
Numbers(t) ==
  [x \in Range(t.ids) |->
     IF t.ordered THEN CHOOSE i \in DOMAIN t.ids : t.ids[i] = x ELSE 0]

\* The router shows a table page; the datatable loads at once if it is to.
Open(n, r) ==
  /\ phase = "closed" /\ r.page = Tables[n].page
  /\ at' = r.url /\ phase' = "ready"
  /\ \E t \in {Component(Tables[n])} :
       /\ table' = t /\ stored' = t.ids /\ nums' = Numbers(t)
       /\ loads' = IF t.auto THEN <<Load("", t.ids, Numbers(t), FALSE)>>
                   ELSE <<>>
  /\ acted' = {} /\ picked' = {} /\ saving' = {}
  /\ UNCHANGED <<search, data, shownFor, expanded, selected, action, queue,
                 named, dirty, counts>>

-----------------------------------------------------------------------------
\* Loads.  Every load of the root rows makes the firewall page forget that
\* it is dirty.  A table without autoLoad has nothing to load at first.
AskRoot(typed) ==
  /\ asks < MaxAsks /\ asks' = asks + 1
  /\ loads' = Append(loads, RootLoad(stored, nums, typed))
  /\ dirty' = FALSE

Tick ==
  /\ phase # "closed" /\ table.ticks
  /\ AskRoot(search)
  /\ UNCHANGED <<at, table, phase, stored, nums, search, data, shownFor,
                 expanded, selected, working, picked, saving, clicks,
                 changes>>

Reload ==
  /\ phase = "ready" /\ table.bar /\ ~table.ticks
  /\ table.auto \/ asks > 0
  /\ AskRoot(search)
  /\ UNCHANGED <<at, table, phase, stored, nums, search, data, shownFor,
                 expanded, selected, working, picked, saving, clicks,
                 changes>>

\* A log is chosen from the toolbar of the system logs.
ChooseLog ==
  /\ phase = "ready" /\ \E a \in table.actions : a.what = "choose"
  /\ AskRoot(search)
  /\ UNCHANGED <<at, table, phase, stored, nums, search, data, shownFor,
                 expanded, selected, working, picked, saving, clicks,
                 changes>>

\* Typing into or clearing the search field: a local search only filters the
\* rows shown.
Search ==
  /\ phase = "ready" /\ table.search # ""
  /\ search' = ~search
  /\ IF table.search = "remote"
     THEN (table.auto \/ asks > 0) /\ AskRoot(search')
     ELSE UNCHANGED <<loads, dirty, asks>>
  /\ UNCHANGED <<at, table, phase, stored, nums, data, shownFor, expanded,
                 selected, working, picked, saving, clicks, changes>>

\* Answers may overtake each other.  The rows of the last one are shown.
Remaining(i) ==
  [j \in 1..(Len(loads) - 1) |-> loads[IF j < i THEN j ELSE j + 1]]

\* Mutant: the child loads under way are not cancelled by a reload.
Reloaded_Mutant(ls) == ls

Reloaded(ls) == [j \in DOMAIN ls |-> [ls[j] EXCEPT !.reloaded = TRUE]]

DeliverRoot(i, ids, ns) ==
  LET rs  == Answered(loads[i], ids, ns)
      new == Expand(IdsOf(rs), rs)
  IN  /\ loads[i].of = ""
      /\ data' = new /\ shownFor' = loads[i].search
      /\ selected' = UpdateSelection(selected, new)
      /\ loads' = Reloaded(Remaining(i))
                  \o ChildLoads(IdsOf(new), new, loads[i].search)
      /\ UNCHANGED expanded

NewRows(rs) == Only(rs, {r \in Range(rs) : r.id \notin IdsOf(data)})

\* Child rows are added unless the rows have been reloaded meanwhile.  A row
\* that turns out to have no children is not expanded again.
DeliverChildren(i, ids, ns) ==
  LET id    == loads[i].of
      fresh == NewRows(Answered(loads[i], ids, ns))
      all   == data \o fresh
      found == HasChildren(id, all)
      new   == Expand(IdsOf(fresh), SetStatus(all, id, IF found THEN "expanded"
                                                       ELSE "disabled"))
  IN  /\ id # "" /\ ~loads[i].reloaded
      /\ data' = new
      /\ expanded' = IF found THEN expanded ELSE expanded \ {id}
      /\ selected' = UpdateSelection(selected, new)
      /\ loads' = Remaining(i) \o ChildLoads(IdsOf(fresh), new, shownFor)
      /\ UNCHANGED shownFor

Deliver(i) ==
  /\ \/ DeliverRoot(i, loads[i].before, loads[i].nums)
     \/ DeliverRoot(i, stored, nums)
     \/ DeliverChildren(i, loads[i].before, loads[i].nums)
     \/ DeliverChildren(i, stored, nums)
  /\ UNCHANGED <<at, table, phase, stored, nums, search, working, picked,
                 dirty, saving, counts>>

\* A failed load empties the table, or collapses the row.
Collapsed(id) == SetStatus(data, id, "collapsed")

LoadFails(i) ==
  /\ IF loads[i].of = ""
     THEN /\ data' = <<>> /\ selected' = UpdateSelection(selected, <<>>)
          /\ loads' = Reloaded(Remaining(i)) /\ UNCHANGED expanded
     ELSE /\ ~loads[i].reloaded
          /\ data' = Collapsed(loads[i].of)
          /\ expanded' = expanded \ {loads[i].of}
          /\ selected' = UpdateSelection(selected, data')
          /\ loads' = Remaining(i)
  /\ UNCHANGED <<at, table, phase, stored, nums, search, shownFor, working,
                 picked, dirty, saving, counts>>

\* What is answered to a child load after a reload is discarded.
Discard(i) ==
  /\ loads[i].of # "" /\ loads[i].reloaded
  /\ loads' = Remaining(i)
  /\ UNCHANGED <<at, table, phase, stored, nums, search, data, shownFor,
                 expanded, selected, working, picked, dirty, saving, counts>>

\* The toggle button of a row of a tree.
\* It is there when the row is displayed: its ancestors are expanded.
Visible[n \in 0..Len(data)] ==
  IF n = 0 THEN {}
  ELSE {r \in Range(data) :
          \/ r.parent = ""
          \/ \E q \in Visible[n - 1] :
               q.id = r.parent /\ q.status = "expanded"}

InView(r) == r \in Visible[Len(data)]

Toggle(r) ==
  /\ phase = "ready" /\ table.tree # "" /\ InView(r)
  /\ CASE r.status = "expanded" ->
            /\ data' = SetStatus(data, r.id, "collapsed")
            /\ expanded' = expanded \ {r.id}
            /\ UNCHANGED loads
       [] r.status = "collapsed" /\ HasChildren(r.id, data) ->
            /\ data' = SetStatus(data, r.id, "expanded")
            /\ expanded' = expanded \union {r.id}
            /\ UNCHANGED loads
       [] r.status = "collapsed" /\ ~HasChildren(r.id, data) ->
            /\ data' = SetStatus(data, r.id, "loading")
            /\ expanded' = expanded \union {r.id}
            /\ loads' = Append(loads, Load(r.id, stored, nums, shownFor))
       [] OTHER -> FALSE
  /\ selected' = UpdateSelection(selected, data')
  /\ UNCHANGED <<at, table, phase, stored, nums, search, shownFor, working,
                 picked, dirty, saving, counts>>

-----------------------------------------------------------------------------
\* The user selects or unselects a row that is displayed.
Displayed(r) == (search /\ table.search = "local" => Hit(r.id)) /\ InView(r)

\* Mutant: a table that selects single rows keeps the others.
Pick_Mutant(r) ==
  /\ phase = "ready" /\ table.select # "none" /\ Displayed(r)
  /\ selected' = IF r.id \in IdsOf(selected)
                 THEN Only(selected, {x \in Range(selected) : x.id # r.id})
                 ELSE Append(selected, r)
  /\ picked' = IF r.id \in IdsOf(selected) THEN picked \ {r.id}
               ELSE picked \union {r.id}
  /\ UNCHANGED <<at, table, phase, stored, nums, search, data, shownFor,
                 expanded, loads, working, dirty, saving, counts>>

Pick(r) ==
  /\ phase = "ready" /\ table.select # "none" /\ Displayed(r)
  /\ LET kept == IF table.select = "multi" THEN selected ELSE <<>> IN
     IF r.id \in IdsOf(selected)
     THEN /\ selected' = Only(kept, {x \in Range(kept) : x.id # r.id})
          /\ picked' = picked \ {r.id}
     ELSE /\ selected' = Append(kept, r)
          /\ picked' = (picked \cap IdsOf(kept)) \union {r.id}
  /\ UNCHANGED <<at, table, phase, stored, nums, search, data, shownFor,
                 expanded, loads, working, dirty, saving, counts>>

\* Mutant: what asks first is offered without a selected row.
Enabled_Mutant(a) ==
  /\ Len(selected) \in (IF a.confirm THEN 0 ELSE a.min)..a.max
  /\ a.data => data # <<>>
  /\ \A c \in a.fits :
       \A x \in Range(selected) : Satisfies(c, table.props[x.id])

\* isDisabled: the buttons that can be clicked.
Enabled(a) ==
  /\ Len(selected) \in a.min..a.max
  /\ a.data => data # <<>>
  /\ \A c \in a.fits :
       \A x \in Range(selected) : Satisfies(c, table.props[x.id])

\* A link leads away at once; its URL is built from the selected row.
Follow(a) ==
  /\ phase = "ready" /\ a.what = "link" /\ Enabled(a)
  /\ \E url \in a.urls : Closed(url)
  /\ acted' = IF a.needs THEN IdsOf(selected) ELSE {}
  /\ UNCHANGED <<picked, saving>>

\* The requests of an action, or the dialog of its task.  Requests run for
\* every selected row, one after the other, whether or not their parameters
\* name it, and once when no row is selected.
Start(a, ids) ==
  /\ IF a.what = "request"
     THEN /\ phase' = "working"
          /\ queue' = IF ids = <<>> THEN <<"">> ELSE ids
     ELSE phase' = "task" /\ queue' = <<>>
  /\ action' = a /\ acted' = IF a.needs THEN Range(ids) ELSE {}

Click(a) ==
  /\ phase = "ready" /\ a.what \in {"request", "dialog"} /\ Enabled(a)
  /\ clicks < MaxClicks /\ clicks' = clicks + 1
  /\ named' = Names(selected)
  /\ IF a.confirm
     THEN phase' = "asking" /\ action' = a /\ queue' = <<>> /\ acted' = {}
     ELSE Start(a, Names(selected))
  /\ UNCHANGED <<at, table, stored, nums, search, data, shownFor, expanded,
                 selected, loads, picked, dirty, saving, asks, changes>>

\* What is confirmed runs for the rows that are selected by then, except for
\* a page's own action.
Confirm ==
  /\ phase = "asking"
  /\ Start(action, IF action.bound THEN named ELSE Names(selected))
  /\ UNCHANGED <<at, table, stored, nums, search, data, shownFor, expanded,
                 selected, loads, named, picked, dirty, saving, counts>>

Done == /\ phase' = "ready" /\ action' = NoAction /\ queue' = <<>>
        /\ named' = <<>> /\ acted' = {}

Decline ==
  /\ phase = "asking" /\ Done
  /\ UNCHANGED <<at, table, stored, nums, search, data, shownFor, expanded,
                 selected, loads, picked, dirty, saving, counts>>

\* After each request that succeeds the table is reloaded.  The backend only
\* removes a row it has.
RequestSucceeds ==
  /\ phase = "working"
  /\ action.removes => Head(queue) \in Range(stored)
  /\ stored' = IF action.removes
               THEN Only(stored, Range(stored) \ {Head(queue)}) ELSE stored
  /\ loads' = Append(loads, RootLoad(stored', nums, search))
  /\ IF Len(queue) = 1 THEN Done
     ELSE /\ queue' = Tail(queue)
          /\ UNCHANGED <<phase, action, named, acted>>
  /\ UNCHANGED <<at, table, nums, search, data, shownFor, expanded, selected,
                 picked, dirty, saving, counts>>

\* The first failure ends the row of requests: nothing more is sent, and the
\* table is not reloaded on its account.
RequestFails ==
  /\ phase = "working" /\ Done
  /\ UNCHANGED <<at, table, stored, nums, search, data, shownFor, expanded,
                 selected, loads, picked, dirty, saving, counts>>

\* The dialog of a task or of a form: it can be closed once what it runs has
\* completed, has failed or was stopped.
EndTask(result) ==
  /\ phase = "task" /\ phase' = result
  /\ UNCHANGED <<at, table, stored, nums, search, data, shownFor, expanded,
                 selected, loads, working, picked, dirty, saving, counts>>

CloseDialog ==
  /\ phase \in {"completed", "broken"}
  /\ LET result == phase = "completed" /\ ~action.bound IN
     IF result /\ action.urls # {}
     THEN \E url \in action.urls : Closed(url) /\ acted' = {}
     ELSE /\ Done
          /\ loads' =
               IF result THEN Append(loads, RootLoad(stored, nums, search))
               ELSE loads
          /\ UNCHANGED <<at, table, stored, nums, search, data, shownFor,
                         expanded, selected, dirty, counts>>
  /\ UNCHANGED <<picked, saving>>

-----------------------------------------------------------------------------
\* The firewall pages: rules are moved and removed in the table, in place,
\* so that the selection is not updated, and saved all together.
Offered(what) == \E a \in table.actions : a.what = what /\ Enabled(a)

Renumber(rs) == [i \in DOMAIN rs |-> [rs[i] EXCEPT !.num = i]]

\* The place of the selected row: the row that equals it, or 0.
Place == LET equal == {i \in DOMAIN data : data[i] = Head(selected)}
         IN  IF equal = {} THEN 0 ELSE Min(equal)

\* A row that is gone is inserted again, at the top.
Move(by) ==
  LET i == IF Place = 0 THEN 1 ELSE Place + by
      others == IF Place = 0 THEN data ELSE RemoveAt(data, Place) IN
  /\ data' = Renumber(InsertAt(others, i, Head(selected)))
  /\ selected' = <<data'[i]>>

Edited ==
  /\ dirty' = TRUE
  /\ clicks < MaxEdits /\ clicks' = clicks + 1
  /\ UNCHANGED <<at, table, phase, stored, nums, search, shownFor, expanded,
                 loads, working, picked, saving, asks, changes>>

Up   == phase = "ready" /\ Offered("up") /\ Place > 1 /\ Move(-1) /\ Edited
Down ==
  phase = "ready" /\ Offered("down") /\ Place < Len(data) /\ Move(1) /\ Edited

RemoveRules ==
  LET gone == {x.num : x \in Range(selected)} IN
  /\ phase = "ready" /\ Offered("remove")
  /\ gone \subseteq DOMAIN data
  /\ data' = Renumber(Only(data, {r \in Range(data) : r.num \notin gone}))
  /\ UNCHANGED selected
  /\ Edited

SaveRules ==
  /\ phase = "ready" /\ Offered("saveRules") /\ dirty /\ saving = {}
  /\ saving' = saving \union {[to |-> "", rows |-> data]}
  /\ UNCHANGED <<at, table, phase, stored, nums, search, data, shownFor,
                 expanded, selected, loads, working, picked, dirty, counts>>

\* The permission pages send all their rows.
SaveCells ==
  /\ phase = "ready"
  /\ \E a \in table.actions : \E url \in a.urls :
       /\ a.what = "save"
       /\ saving' = saving \union {[to |-> url, rows |-> <<>>]}
  /\ UNCHANGED <<at, table, phase, stored, nums, search, data, shownFor,
                 expanded, selected, loads, working, picked, dirty, counts>>

\* The rules are stored with the numbers they were sent with.
Renumbered(rs) ==
  [x \in DOMAIN nums |->
     IF x \in IdsOf(rs) THEN (CHOOSE r \in Range(rs) : r.id = x).num
     ELSE nums[x]]

\* The answer clears the dirty flag, or leads to another page, wherever the
\* user has gone meanwhile.
SaveSucceeds(s) ==
  /\ phase \in {"ready", "closed"}
  /\ saving' = saving \ {s}
  /\ IF s.to = ""
     THEN /\ IF phase = "closed" THEN UNCHANGED <<stored, nums>>
             ELSE stored' = Names(s.rows) /\ nums' = Renumbered(s.rows)
          /\ dirty' = FALSE
          /\ UNCHANGED <<at, table, phase, search, data, shownFor, expanded,
                         selected, loads, working, counts>>
     ELSE Closed(s.to) /\ acted' = {}
  /\ UNCHANGED picked

SaveFails(s) ==
  /\ saving' = saving \ {s}
  /\ UNCHANGED <<at, table, phase, stored, nums, search, data, shownFor,
                 expanded, selected, loads, working, picked, dirty, counts>>

-----------------------------------------------------------------------------
\* The user leaves; a firewall page that is dirty asks first.
Leave ==
  /\ phase = "ready" /\ Closed("/dashboard") /\ acted' = {}
  /\ UNCHANGED <<picked, saving>>

\* The backend's rows change by other means.  A new rule gets as its number
\* how many there are then; the others keep theirs when one is deleted.
BackendChanges ==
  /\ phase # "closed" /\ changes < MaxChanges /\ changes' = changes + 1
  /\ \E x \in Range(table.ids) :
       \/ /\ x \in Range(stored)
          /\ \A y \in Range(stored) : table.parent[y] # x
          /\ stored' = Only(stored, Range(stored) \ {x})
          /\ UNCHANGED nums
       \/ /\ x \notin Range(stored)
          /\ table.parent[x] \in Range(stored) \union {""}
          /\ stored' = Append(stored, x)
          /\ nums' = [nums EXCEPT ![x] =
                        IF table.ordered THEN Len(stored) + 1 ELSE 0]
  /\ UNCHANGED <<at, table, phase, search, data, shownFor, expanded, selected,
                 loads, working, picked, dirty, saving, asks, clicks>>

Next ==
  \/ \E n \in DOMAIN Tables : \E r \in Routes : Open(n, r)
  \/ Tick \/ Reload \/ ChooseLog \/ Search
  \/ \E i \in DOMAIN loads : Deliver(i) \/ LoadFails(i) \/ Discard(i)
  \/ \E r \in Range(data) : Toggle(r) \/ Pick(r)
  \/ phase = "ready" /\ \E a \in table.actions : Follow(a) \/ Click(a)
  \/ Confirm \/ Decline
  \/ RequestSucceeds \/ RequestFails
  \/ EndTask("completed") \/ EndTask("broken") \/ CloseDialog
  \/ Up \/ Down \/ RemoveRules \/ SaveRules \/ SaveCells
  \/ \E s \in saving : SaveSucceeds(s) \/ SaveFails(s)
  \/ Leave
  \/ BackendChanges

Spec == Init /\ [][Next]_vars

-----------------------------------------------------------------------------
Urls == {r.url : r \in Routes}

Phases == {"closed", "ready", "asking", "working", "task", "completed",
           "broken"}
TypeOK ==
  /\ at \in STRING /\ phase \in Phases
  /\ phase = "closed" <=> table = NoTable
  /\ phase \in {"closed", "ready"} <=> action = NoAction
  /\ phase = "working" <=> queue # <<>>
  /\ {search, shownFor, dirty} \subseteq BOOLEAN
  /\ phase # "closed" =>
       /\ IdsOf(data) \union Range(stored) \union IdsOf(selected)
            \union expanded \subseteq Range(table.ids)
       /\ \A i \in DOMAIN loads : loads[i].of \in Range(table.ids) \union {""}
       /\ table.select # "multi" => Len(selected) <= 1
       /\ dirty => table.ordered

\* The keys of a table tell its rows apart.  (Those of the SMART devices do
\* not: every disk that is not monitored has the same.)
KeysIdentify ==
  \A n \in DOMAIN Tables : LET t == Tables[n] IN
    \A i, j \in DOMAIN t.ids :
      t.keys[i] # "" /\ t.keys[i] = t.keys[j] => i = j

\* The rows an action acts on were selected by the user: after a reload the
\* selection never holds another row (DatatableComponent::updateSelection).
OnlySelected == acted \subseteq picked

\* What is confirmed acts on rows that were selected when the user was asked,
\* although loads go on while the dialog is open, and nothing that names a
\* row was offered without one.  (The rows may be gone by then: the request
\* is sent all the same, without its row.)
OnlyConfirmed ==
  phase = "working" /\ action.needs =>
    named # <<>> /\ acted \subseteq Range(named)

\* The page a link, a dialog or a save leads to exists.
LandsOnPage == at \in Urls

\* The selection holds rows that are shown: whatever load empties or changes
\* the table, no button stays enabled for a row that is gone.  The firewall
\* pages change their rows in place, and what is removed there stays selected;
\* but a rule that is still there, wherever it was moved and however it was
\* numbered since, is selected as it is now.
SelectionIsShown ==
  phase # "closed" =>
    \A x \in Range(selected) :
      \/ x \in Range(data)
      \/ table.ordered /\ x.id \notin IdsOf(data)

UniqueRows == \A i, j \in DOMAIN data : data[i].id = data[j].id => i = j
LoadingIsPending ==
  \A r \in Range(data) : r.status = "loading" =>
    \E i \in DOMAIN loads : loads[i].of = r.id /\ ~loads[i].reloaded
StaysExpanded ==
  \A r \in Range(data) : r.id \in expanded => r.status # "collapsed"
RowsMatchParams == \A r \in Range(data) : r.search = shownFor

\* Whichever loads of the roots and of the children of a tree overlap, fail
\* or overtake each other: no row is shown twice, a row that shows that it is
\* loading waits for an answer that will not be discarded, a row the user has
\* expanded stays so, and roots and children answer the same search
\* (DatatablePageComponent::loadTreeChildRows).
TreeIsConsistent ==
  UniqueRows /\ LoadingIsPending /\ StaysExpanded /\ RowsMatchParams

\* Removing the selected rules removes no other rule
\* (FirewallRuleInetDatatablePageComponent::onDeleteClick).
RemovesOnlySelected ==
  [][RemoveRules => IdsOf(data) \ IdsOf(data') \subseteq IdsOf(selected)]_vars
=============================================================================
