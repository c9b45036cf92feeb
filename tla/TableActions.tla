---------------------------- MODULE TableActions ----------------------------
(***************************************************************************)
(* The vocabulary of the workbench's table pages: a table with the rows it *)
(* shows, and the actions of its toolbar, with what DatatablePageComponent *)
(* makes of their templates.                                               *)
(***************************************************************************)
EXTENDS Constraints

Many == 9   \* more rows than a table of the model has

\* An action: what it does, the URLs it may lead to, how many rows may be
\* selected and what they must satisfy, whether the table must have data,
\* whether it asks first, whether its parameters name a row, whether that
\* row is the one of the click, and whether it removes its rows.
Action(what) ==
  [what |-> what, urls |-> {}, min |-> 0, max |-> Many, fits |-> {},
   data |-> FALSE, confirm |-> FALSE, needs |-> FALSE, bound |-> FALSE,
   removes |-> FALSE]

OfRow(a)       == [a EXCEPT !.min = 1, !.max = 1, !.needs = TRUE]
Confirmed(a)   == [a EXCEPT !.confirm = TRUE]
Fits(a, cs)    == [a EXCEPT !.fits = cs]
WithData(a)    == [a EXCEPT !.data = TRUE]

Link(url)      == [Action("link") EXCEPT !.urls = {url}]
RowLinks(urls) == OfRow([Action("link") EXCEPT !.urls = urls])
RowLink(url)   == RowLinks({url})
Request        == Action("request")
Dialog         == Action("dialog")
Reboots(a)     == [a EXCEPT !.urls = {"/reload"}]

\* The dialogs of an action of a page's own keep the row of the click, and
\* what comes of them is ignored.
Bound(a)       == [a EXCEPT !.bound = TRUE]

\* The delete template: some row is selected, and the user is asked.
Delete ==
  [Action("request") EXCEPT !.min = 1, !.confirm = TRUE, !.needs = TRUE,
                            !.removes = TRUE]

\* A button below the table that sends its rows and then leaves.
Saves(url)     == [Action("save") EXCEPT !.urls = {url}]

-----------------------------------------------------------------------------
Plain == [plain |-> On]

\* A table: the page it is on, its rows by name, with the properties
\* constraints look at, the key that identifies each of them after a reload ("" for none),
\* how rows are selected, who searches, and when it loads.
Ids == <<"a", "b", "c", "d">>
Table(page, rows, actions) ==
  [page |-> page, ids |-> SubSeq(Ids, 1, Len(rows)), rows |-> rows,
   actions |-> actions,
   keys |-> [i \in DOMAIN rows |-> Ids[i]],
   parents |-> [i \in DOMAIN rows |-> ""],
   select |-> "multi", search |-> "", auto |-> TRUE, ticks |-> FALSE,
   bar |-> TRUE, tree |-> "", ordered |-> FALSE]

Rows(page, actions) == Table(page, <<Plain, Plain>>, actions)

Keyed(t, keys)    == [t EXCEPT !.keys = keys]
Keyless(t)        == [t EXCEPT !.keys = [i \in DOMAIN @ |-> ""]]
Selecting(t, how) == [t EXCEPT !.select = how]
Searched(t, who)  == [t EXCEPT !.search = who]
Ticking(t)        == [t EXCEPT !.ticks = TRUE]
Bare(t)           == [t EXCEPT !.bar = FALSE, !.select = "none"]
Manual(t)         == [t EXCEPT !.auto = FALSE]
Ordered(t)        == [t EXCEPT !.ordered = TRUE]
Tree(t, kind, parents) == [t EXCEPT !.tree = kind, !.parents = parents]
=============================================================================
