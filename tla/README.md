# A formal model of openmediavault

openmediavault is a NAS distribution. Its core is a PHP daemon, `omv-engined`,
which executes RPC requests for the web workbench, the command line and the
plugins: it keeps the settings of the system in one XML file, remembers which
services have to be deployed again when settings change, deploys them with Salt,
and runs long tasks in background processes that clients poll. Its workbench, an
Angular application, is written mostly as data: some sixty forms and thirty tables
are configurations that a few components interpret.

This directory holds TLA+ modules translated from that code, the TLC
configurations that check them on small instances, and proofs, checked by TLAPS,
of what holds for instances of every size. `PROJECT.json` links each definition
to the lines it stands for, each property to the run that checks it and to a
mutation of the code that it detects, and each hazard to the properties that
guard it. Paths below are relative to `src/deb/openmediavault/`; `php/` stands for
`usr/share/php/openmediavault/` and `rpc/` for
`usr/share/openmediavault/engined/rpc/`, `app/` for `workbench/src/app/` and
`intuition/` for `app/core/components/intuition/`.

## 1. Inventory

### How the parts interact

    workbench / omv-rpc / plugins
        |  request over a UNIX socket, one connection per request
        v
    omv-engined ---fork per request---> worker ---fork (…Bg methods)---> background process
                                          |                                 |
           set, delete                    |  applyChanges, revertChanges    | status file,
        +---------------------------------+---------------+                 | output file
        v                                                 v                 v
    config.xml + revisions  <---- semaphore ---->   dirty modules file   polled by clients
        |                                                 ^   (flock)       (Exec service)
        +--- notification: setDirty of the listeners -----+
                                                          |
                                     Salt deploys the selected modules in order

Nothing is shared in memory: every request is a process of its own, and all
interaction goes through files, a System V semaphore, `flock`, signals and `/proc`.

    user ---> route and its guard ---> form page          table page <--- timer
                    ^                  |  fields,          |  rows, selection,
                    |                  |  modifiers,       |  tree, toolbar,
                    |                  |  validators       |  dialogs
                    +--- navigation ---+---- RPC ----------+

In the browser one thread runs each callback to its end; what interleaves are input,
timers, and the answers of RPCs, in any order.

### Components

**Configuration change, apply and revert** (`rpc/config.inc`, `php/mutex.inc`,
`php/engine/module/manager.inc`) - *modelled: ConfigApply*.
State: the dirty modules file. Operations: `applyChanges`, `revertChanges`,
`setModuleDirty`, `isDirty`. Hard: a deployment lasts minutes between reading the
dirty list and writing it; it can fail after some modules or be killed; two locks
are taken by two requests in different orders. Correct when a module that is not
reported dirty runs with the stored settings, when nothing is written under a
running deployment, when a revert restores the last applied state, and when every
request ends.

**Configuration database** (`php/config/database.inc`,
`php/config/databasebackend.inc`) - *locking, commit, revisions and revert
modelled in ConfigApply; objects planned: ConfigStore*.
State: `config.xml`, the revision files `config.xml.NNNN`, a parsed copy per
process. Operations: `get`, `getByFilter`, `set`, `delete`, `isUnique`,
`isReferenced`, `lock`, `unlinkRevisions`, `revert`. Hard: reads take no lock while the file is
rewritten in place; uniqueness and references are checked before the lock is
taken. Correct when a reader sees a document some writer completed, and when
objects stay unique and references resolve.

**Deployment order** (`php/util/topologicalsort.inc`, `deployAfter` and
`deployBefore` of the modules) - *modelled: DeployOrder*.
State: the dependencies, the order in which PHP iterates over them. Hard: `add`
replaces what was recorded before, aliases, dependencies on modules that are not
selected, cycles between plugins. Correct when each selected module is deployed
once and after the modules it declares.

**Module registry and notifications** (`php/engine/module/*.inc`,
`php/engine/notify/*.inc`) - *listeners modelled in ConfigApply, the task queue in
TaskQueue*.
State: registered modules and listeners (built at start, then constant), a file of
queued tasks per module, which only `fstab` uses. Operations: `notify`, `addTask`,
`execTasks`. Hard: a task that throws stays queued and stops the later ones; the lock
on the file is held while tasks run; a process may be killed in the middle. Correct
when a mount point that is to be released is released once, and not forgotten.

**Background processes** (`php/rpc/serviceabstract.inc`, `php/rpc/bgstatus*.inc`,
`rpc/exec.inc`, polling in the workbench) - *modelled: BgProc; `asyncProc` and
`waitAsyncProcs` planned: AsyncProcs*.
State: a status file and an output file per process. Operations: `execBgProc`,
`callMethodBg`, `exec`, and `getOutput`, `isRunning`, `stop`, `enumerate` of the
Exec service. Hard: three kinds of process read and write the two files without an
order between them; processes are killed. Correct when a client is told the truth
about how the task ended, receives the whole output, and stops polling.

**Engine daemon and RPC transport** (`usr/sbin/omv-engined`, `php/rpc/rpc.inc`,
`php/rpc/proxy/*`) - *modelled: Engined, composed with TaskQueue in Engine*.
State: the listening socket and its backlog, the list of children, signals that were
noted. Operations: accept, read, fork, reap, stop, start; connect, write, read of a
caller; answering by a worker. Hard: the daemon reads a request before it forks; signals
arrive anywhere and are dispatched in two places; a worker inherits handlers that
swallow SIGTERM, and the listening socket; the caller gives up after a timeout although
the worker goes on. Correct when every request is executed and its worker reaped, when
an answer is true, and when a daemon that is told to stop does so with its workers.

**JSON state files** (`php/json/file.inc`) - *modelled in TaskQueue as the task file
uses them; atomic steps elsewhere*. Hard: `open` creates before it locks, `write`
truncates before it writes.

**Sessions and web front end** (`php/session.inc`,
`var/www/openmediavault/rpc.php`) - *planned as part of the session timer*. Hard:
expiry on the server against the automatic logout in the browser.

**Workbench: form pages** (`intuition/form/`, `intuition/form-page/`,
`app/shared/services/constraint.service.ts`, `app/shared/forms/custom-validators.ts`,
the routes and `app/shared/services/is-dirty-guard.service.ts`) - *modelled:
Constraints, FormFields, Forms…, Routes, FormPage*.
State: the values of the fields, which are disabled, hidden, dirty or invalid, whether
the form is dirty, what the page waits for. Operations: load, input, the modifiers it
sets off, submit, the requests of buttons, navigation. Hard: modifiers of fields
depend on each other in both directions and announce changes that are none; a validator
runs again only when a property it is known to read changes; an object is loaded key
by key while modifiers run. Correct when a cascade ends, commands hold and input is
not undone, when marks and the dirty flag are true, and when no change is lost without
a question.

**Workbench: table pages** (`intuition/datatable-page/`,
`app/shared/components/datatable/`, `app/shared/components/datatable-actions/`) -
*modelled: TableActions, Tables, TablePage*.
State: the rows, the selection, the expanded rows of a tree, the loads under way, the
action that asks, works or shows its dialog. Operations: load (timer, button, search,
after an action), select, expand, the actions of the toolbar, moving and saving of
firewall rules. Hard: a reload replaces the rows under the selection and under an open
question; loads of children are answered after a reload; one request of several fails.
Correct when an action is for rows the user selected and confirmed, when no row is
shown twice, and when a row or page that waits is waiting for something.

**Workbench: sessions, dashboard and other pages** (rest of `workbench/`) - *polling
of background tasks modelled in BgProc, all routes in Routes*; the rest is presentation.

**RPC services of the features, system wrappers, data model and schema, Python
library, Salt states, plugins** - *not modelled*: see section 8. The deployment
tables of the `md` and `nut` plugins are part of the instance of DeployOrder.

## 2. Modules

| Module | Content |
|---|---|
| `PendingChanges` | abstract: what the banner of pending changes promises |
| `ConfigApply` | set, apply and revert, one process per request, with their locks |
| `DeployOrder` | the loops of `applyChanges` and `TopologicalSort` that order a deployment |
| `Job` | abstract: what a caller of a background task may rely on |
| `BgProc` | one background process, the worker that starts it, the clients that poll it |
| `TaskQueue` | the tasks of fstab: `addTask` and `execTasks` on a locked file, with deaths |
| `Engined` | the daemon, its callers and workers that answer anything |
| `Engine` | Engined and TaskQueue composed: the workers execute requests on tasks |
| `Constraints` | the constraints that pages attach to fields, buttons and actions |
| `ConstraintService` | its two functions, `test` and `getProps` |
| `FormFields` | the configuration of fields, validators and modifiers |
| `FormsNetwork`, `FormsServices`, `FormsStorage`, `FormsSystem`, `FormsUsers` | the form pages: what each configures |
| `TableActions` | the configuration of tables and of the actions of their toolbar |
| `Tables` | the table pages: what each configures |
| `Routes` | all routes, with the guards of the form pages |
| `Arrays` | `Array.filter`, which both interpreters use |
| `FormPage` | an interpreter of forms: page, form, modifiers, validators, guard |
| `TablePage` | an interpreter of tables: page, datatable, tree, toolbar, rules |
| `MC…` | instances for TLC: sets of clients, listeners, the table of modules, symmetry |
| `…Proofs` | the theorems about the module of that name; in `BgProcProofs` also that BgProc implements Job, in `EngineProofs` also those about Engined |

No module that is proved about declares a RECURSIVE operator or reaches one: only
`ConstraintService` does. `FormPage` and `TablePage` know the meaning of a constraint as a
constant, `Satisfies`, and the properties it reads as `Reads`; their instances give these
the values `Test` and `GetProps`. Definitions with a
suffix such as `SetLock_NoWait` are mutants: the operator as a plausible mistake
would have it. They are in no specification and are named in `PROJECT.json`.

### ConfigApply

| Model | Code |
|---|---|
| `conf` | the objects in `config.xml`; a value is named after the request that stored it |
| `revs` | the files `config.xml.0001`, ...: a sequence, oldest first, as `glob` returns them |
| `dirty` | the dirty modules file; the `Removed` names are modules of uninstalled plugins |
| `mutex` | the semaphore of `php/mutex.inc`; `None` when free |
| `flock` | the exclusive lock of `OMV\Json\File` on the dirty modules file |
| `deployed[m]` | what the configuration was when Salt last rendered module m |
| `pc`, `todo`, `keep` | place and local variables of each worker |
| `baseline` | auxiliary: `conf` when the revisions were last all removed |

*Set* (`SetLock` ... `SetReturn`) is `Database::set`, `delete` or
`deleteByFilter`: the critical section of the backend (copy a revision, save the
document), then, **after the semaphore was released**, one step per listener of
the changed object, each of which opens, locks, rewrites and closes the dirty
modules file. *Apply* is `applyChanges`: semaphore, file, selection, one step per
deployed module, write the list and free the file, unlink the revisions one by one,
return, which frees the semaphore. *Revert* takes the file first and the semaphore
second, copies the named backup or the lowest revision, unlinks the revisions,
frees the semaphore and empties the list.
Failures are actions of their own: `SetThrow`, which throws before the commit;
`NotifyThrow`, a listener that throws after it, so that the change is stored, the request
fails and the listeners after it are not called, because `Dispatcher::notify` catches nothing
(the listener `onDelete` of fstab adds a task to a file and may throw); `ApplyThrow` (before
or after the failing module took effect, with the order in which PHP destroys the lock objects);
`RevertThrow`; and `Kill`, in which the kernel frees the locks of a process. `Throwers` are the
modules whose listeners may throw. `Unsortable` are the selections for which the sort of
DeployOrder returns FALSE: nothing is deployed (`ToDeploy`), and all the same the modules
leave the dirty list.
The parameters of a request (which object, which modules, `force`, which backup)
are chosen by `\E` where the code first uses them.

`PendingChanges` is the abstract specification: a configuration, the modules that are
pending, and the configuration each module runs with. A change makes its listeners
pending at once, and a module stops being pending only when it runs with the stored
configuration. ConfigApply maps to it with `Pending`, the dirty list together with the
listeners a committed change has still to notify (`ImplementsPromise`).

### DeployOrder

`modules` is the list that `applyChanges` iterates over: all registered names, in their
order, when the caller lists none, and otherwise the caller's list, in any order (`Lists`).
`mods` are the names of it that are selected, because they are dirty or forced; `adds` are the
calls of `TopologicalSort::add` still to be made for a module. `Add` replaces the
dependencies of a name and keeps its place, as a PHP array does, so that the order of the list
matters. `DropMissing` is
`ignoreMissing`; `Visit` is one iteration of the inner `foreach`, over the names
that are left in the order of the array; `NextPass`, `SortDone` and `SortFails` are
the outer `while`. `DeployNext` skips sorted names that were not selected. This is
all inside `apply_select` and `apply_deploy` of ConfigApply, where the order does
not matter to the properties and any module of `todo` may be next. `AddModule` and
`AddWaiting` are the two `add` calls of the first loop, one for the module itself and
one for each name of its `deployBefore`.

### BgProc

| Model | Code |
|---|---|
| `worker` | the worker in `execBgProc`: create the status file, fork, write the pid |
| `child` | the background process: wait for the pid, create and name the output file, run, record the end, exit |
| `file`, `status` | the status file: missing, created but empty, JSON; its fields |
| `outfile`, `size` | the output file and its length in pieces |
| `pc`, `kind`, `snap`, `pos`, `res` | each client: its step, what it does, the status it has read, how much output it has received, what it was told in the end |
| `outcome`, `written` | auxiliary: how the task really ended, how much it really wrote |

A client is one of four kinds. A *task* polls `getOutput` from position 0 without a
limit (`pollTask`); a *dialog* polls it from its last position with a limit
(`pollTaskOutput`); *watch* polls `isRunning`; *stop* calls `Exec::stop`.
`getBgProcStatus` is two steps, because it reads the file and then looks at
`/proc`; everything after that in a request is separate steps as well, so that
another client or the process can come in between. `NoFile`, `OutputGone` and
`KillFails` are the exceptions the code throws when it comes too late. Each access
to the status file is one atomic step: the code opens, locks, reads or rewrites and
closes it in a row.

`Job` is the abstract specification: output is produced until the process ends, once; a
client is given ever more of it, and is told once that the process is over. BgProc
maps to it with `written`, `pos`, `outcome` and `res` (`ImplementsJob`).

### TaskQueue

| Model | Code |
|---|---|
| `file`, `queue` | `fstab_tasks.json`: missing, of no bytes, or JSON; the tasks in it |
| `flock`, `mutex` | the lock on that file, the database semaphore |
| `op`, `pc`, `list`, `result` | each request: its kind, its place, `$tasks`, what it will answer |
| `added`, `ran`, `due` | auxiliary: tasks written so far, how often each was run, what an apply has to run |
| `lost`, `again` | auxiliary: tasks that a death lost, tasks that a death leaves to be run again |

A request deletes a mount point (`addTask` through the listener `onDelete`), applies
fstab (`execTasks` from `preDeploy`, under the semaphore), or does both in this order, as
`FileSystemMgmt::umount` does. `AddOpen` creates the file before anybody has the lock;
`AddLock` locks it, fills an empty one and reads it; `AddCut` and `AddWrite` are the two
halves of `File::write`. `ExecTask` runs one task, `ExecFails` is one that throws,
`ExecAll` the end of the list; both go through the `finally` block, which truncates and
writes (`ExecWrite`). `ExecEmpty` is the exception of `read` when it meets no bytes. `Die`
may come at any step, and the kernel frees the locks.

### Engined and Engine

| Model | Code |
|---|---|
| `daemon` | the place in the main loop: `loop` (its end and its beginning), `select`, `read`, `stop` (`killChld`), `down`, `failed` |
| `sigs`, `sigTerm`, `sigChld` | signals not dispatched, and the flags of `signalHandler` |
| `children`, `unkilled` | `$children`, and those `killChld` has still to signal |
| `conn`, `backlog` | the connection accepted last, those that wait |
| `worker` | each worker: `fresh` with the handlers of the daemon, `running` with the default ones, `zombie`, `reaped` |
| `caller`, `attempt`, `sent`, `reply` | `Rpc::call`: its place, failed attempts, the request and the answer in the connection |
| `stranded`, `orphans`, `faults` | connections to the backlog of a dead daemon; auxiliary: workers of a dead daemon, faults so far |

`Connect` ... `Timeout` are `Rpc::call`, `Reap` ... `Fork` the main loop, `Stop`,
`KillChild`, `Wait` and `Cleanup` its end, `ResetSignals` and `Respond` the child process.
`Fork` needs a request that is complete or whose caller has gone: until then the daemon
is in `read` and does not look at signals. `SelectSignal` and `Loop` are the two places
where signals are dispatched; a signal that comes between them waits for at most a
second. `Crash` is the failure of a fork, or any other death of the daemon: its workers
go on (`KillMode=process` in the unit file) and keep the socket listening, so that callers
connect to nobody. `Start` binds a new socket.

In Engined a worker answers whatever it likes. In Engine it takes the steps of its
request (`Execute`) and answers with its result (`Answer`); a worker that is killed by
the daemon (`Kill`) or otherwise (`Perish`) takes its request with it. Engine implements
both QueueSpec and DaemonSpec, which is proved.

### Form pages

A page is data in the code and data here. A field is its type followed by its aspects,
joined by `&`; a definition of `Forms…` is one page with its requests and the URLs its
buttons lead to. Lines that give labels, hints, icons, columns and texts have no
counterpart.

| Model | Code |
|---|---|
| `Test`, `GetProps` | `ConstraintService.test` and `getProps` |
| `required`, `tests`, `bad` | `requiredIf`, `constraint`, and all validators that look at the field alone |
| `values`, `off`, `dirty`, `invalid`, `changed` | the `FormGroup` and its controls; `changed` is the dirty flag of the group |
| `hidden` | the fields `doModifier` does not display |
| `Cascade`, `Step`, `Run` | subscriptions to `valueChanges` that run one inside the other; a cascade is followed for 512 steps, and `endless` if it goes on |
| `phase` | `loading` after `onPageInit`, `posting`, `asking` and `requesting` in `onButtonClick` |
| `saved`, `touched`, `undone`, `endless`, `left` | auxiliary |

`Open` builds the form and applies each modifier once; `Load` patches the stored object
key by key, in the order of the fields or the reverse. `Edit` is the input of a user
together with the whole cascade it sets off, because JavaScript does not interleave
here; the validations that are debounced by 5 ms are at its end. `Refuse` is the
click on Save with an invalid form, `Submit`, `PostSucceeds` and `PostFails` its request,
`Answer`, `RequestSucceeds` and `RequestFails` the confirmed request of a page of the
update settings, which goes on to search for updates. `Navigate` is the guard of the
route, `Interrupted` the navigation after an answer 401 or 503.

### Table pages

| Model | Code |
|---|---|
| `stored` | the rows the backend has, which change also without the page |
| `nums` | the `rulenum` it has stored for each firewall rule; `setRule` appends with the number of rules, `deleteRule` leaves a gap |
| `data`, `expanded`, `shownFor` | the store of the page, `expandedTreeRowIds`, `loadParams` |
| `selected` | the selection: rows, not positions, as they were when they were selected |
| `loads` | requests without an answer; each may be answered in any order, by the rows of its start or its end, or fail |
| `action`, `queue` | the action under way and the rows of its remaining requests |
| `saving` | save requests of the firewall and permission pages |
| `picked`, `named`, `acted` | auxiliary: rows the user selected, rows selected at the click, rows acted on |

`DeliverRoot` replaces the rows, restores the selection by key and expands rows again;
`DeliverChildren` adds the children of a row; `Discard` is an answer that comes after
a reload. `Answered` gives a rule the number that is stored for it, whatever its place;
`Renumber` numbers the rows by their places after each edit, and a save stores these numbers
(`Renumbered`). `RemoveRules` removes the rows that have the numbers of the selected ones and
leaves the selection alone, as `updateData` does. `Click`, `Confirm`, `Decline`, `RequestSucceeds`, `EndTask` and `CloseDialog` are
the branches of `onActionClick`. The tree mode is part of the component, but used by
no page of the repository: `MCTablePage` adds two samples of it.

`Only`, in `Arrays`, is `Array.filter`, told by the places of the elements and not by recursion,
so that it can be reasoned about. The assumptions say what a configuration is: names and keys are
texts, rows have different names, an action that names a row asks for a selected one, only
tables of rules have actions on rules and a tree is no such table.

## 3. Runs

| Run | Question | Result |
|---|---|---|
| `set_apply` | four concurrent changes and (partial, failing, killed) applies: can a module be stale and not dirty? | `TypeOK`, `CleanIsDeployed` hold |
| `all_requests` | three requests of any kind, including reverts to a backup, listeners that throw and a failed sort: are locks held by whom they should be, is the configuration frozen under a deployment, is the oldest revision the state to go back to, does every request end? | `LocksHeld`, `DeployFreezesConfig`, `OldestRevisionIsBaseline`, `RevertGoesBack`, `RequestsEnd` hold |
| `lock_cycle` | can an apply and a revert wait for each other? | they can: `NoLockCycle` is violated |
| `revert_forgets` | is `CleanIsDeployed` true with reverts? | no: violated |
| `deploy_order` | every selection of thirteen names, every list of up to four of them in any order: does the sort respect its input, when does it give up, are the declarations honoured? | `SortedRespectsDeps`, `AllOrNothingDeployed`, `DeclaredOrder` hold |
| `deploy_alias` | is a declaration that uses an alias honoured? | no: `DeclaredOrderOfInstances` is violated |
| `bg_proc` | two clients of any kind, any failure or death: are errors real, does stop leave nothing behind, is unread output kept, has who is told of the end all output, is every poller answered? | `TypeOK`, `ErrorsAreReal`, `StoppedIsGone`, `UnreadOutputKept`, `OutputReceived`, `PollersEnd` hold |
| `bg_stale` | is a client that is told "finished" told the truth? | no: `FinishedIsTrue` is violated |
| `forms` | every form page by every route: do cascades end, do they keep input and commands, are marks and the dirty flag true, is no change lost? | all nine hold |
| `tables` | every table page but one, and two trees: do actions act on rows that were selected and confirmed, are the selected rows shown, are trees consistent? | all six hold |
| `rules_removed` | does Delete on a firewall page remove only selected rules? | no: `RemovesOnlySelected` is violated |
| `engine` | two requests to the daemon and one fault or signal: is a task forgotten or run twice, are answers true, is every request executed and its worker reaped, does a daemon that is told to stop do so with all its workers? | `TypeOK`, `NothingForgotten`, `RunOnce`, `AnswersAreTrue`, `RequestsServed`, `StopsItsOwn`, `StopEnds` hold |

`set_apply` also checks `ImplementsPromise` and `bg_proc` `ImplementsJob`: the detailed
modules implement the abstract ones. `OnlyConfirmed` holds although loads go on under the
question, because a reload can only drop rows from the selection, never add one. `SelectionIsShown`
says of firewall rules, which are edited in place, that a selected rule that is still there is
selected as it is now, number included. `OutputReceived` exempts answers that say more is pending (section 4).
`ValidityIsCurrent` is the property that `getProps`, which ignores the second
argument of `in`, does no harm to any form of the repository.

### Bounds, and why they are enough

* **Processes.** `set_apply` has four, the other runs of ConfigApply three or two.
  A process executes one request, so this is the number of requests of a history.
  A property of two locks and a list is violated by a request that comes between
  two steps of another, and needs one more to make the state it acts on dirty, and
  one more to apply the other module. Reverts multiply the states by the revisions
  and the backup, so their run has three.
* **Objects and modules.** Two of each: `email` concerns both modules, `share` only
  one, so that a module may be dirty for its own or a shared reason and may be
  applied without the other.
* **Removed.** One name that is no registered module, initially in the list or not.
* **Backups.** The initial configuration, which may differ from any revision.
* **Failures.** `set_apply`, `lock_cycle` and `revert_forgets` have no throwing listeners and no
  unsortable selections: `CleanIsDeployed` does not hold with them (section 4). `all_requests` has
  one module whose listener throws, and the selection of both modules is unsortable.
* **Lists of DeployOrder.** Up to `MaxListed` = 4 names in any order: `add` replaces what was
  recorded when three modules meet (two that name a third in `deployBefore`), and a fourth may
  depend on them. `deploy_alias` has `MaxListed` = 0, so that its counterexample needs no list.
* **Modules of DeployOrder.** All names of the repository that depend on more than one
  other module or are involved in such a dependency, with the tables their classes
  declare, and the alias `email`. `plugin1` and `plugin2` are hypothetical modules of
  third parties that declare each other, because no table in the repository is circular.
  Other modules are isolated or depend on one of these in the same ways.
* **BgProc.** One worker and one background process, because processes share
  nothing; two clients (who started the task, and one that found it with
  `enumerate`), because the code distinguishes no third role; three pieces of output
  and a limit of one, so that a dialog can be in the middle of the output when the
  process ends. `Deaths` allows deaths without a handler at any step.
  `bg_stale` forbids them, so that its counterexample needs no crash.

* **Forms.** All pages and routes. `MaxTouched` = 2 fields are changed, any number of times
  and in any order: a modifier or validator relates two fields, and a chain is a
  cascade, which runs to its end anyway. Values are the ones some constraint tells
  apart, and one ill-formed value. Of fields that are alike and matter to no other
  field a user is given one (`Alike`). `Enough` bounds the steps of a cascade
  by 8 * 64; `CascadesEnd` says that none takes as many.
* **Tables.** Two rows, three in a firewall table, so that a rule can be moved past another
  and one removed above it, and four in a tree, so that a child has a child. At most
  one load beside the first and those that actions cause (`MaxAsks`), one click
  (`MaxClicks`), two edits of rules (`MaxEdits`), one change by others (`MaxChanges`): an
  overtaken answer needs two loads, a stale selection one change and one reload, a gap in the
  numbers of rules one deletion by others. `rules_removed` has the firewall page alone. Larger bounds
  multiply the 200,000 states beyond what a run may take.

* **Engine.** Two requests: two deletions that meet in the file, or an unmount and an
  apply that meet in the semaphore and the file. One connection may wait
  (`MaxConnections` = 0 is a backlog of one), so that a second caller has to. One fault
  or signal (`MaxFaults`), at any step: a SIGTERM, a crash of the daemon, the death of a
  worker or of a caller. Starting again is free. Two attempts to connect, so that there
  is a first and a last. The 326,432 states leave no room for a second fault; the case it
  would add, a daemon that stops while orphans of a dead one still run, is covered by the
  theorems, which have no bounds.

Symmetry over processes is used where a run has no liveness property.
`CHECK_DEADLOCK FALSE` is set for ConfigApply, where the deadlock is the finding and
`RequestsEnd` says it is the only one, and for Engine, where all requests may have been
answered and the daemon be idle for ever; what must happen there is said by
`RequestsServed` and `StopEnds`. In the other modules deadlock is checked, and `Finished`
is the only state in which nothing has to happen.

### Fairness

ConfigApply: weak fairness of the steps of each worker. The kernel schedules every
process; a semaphore and a file lock wake their waiters in turn, and the bounded
number of requests means that a lock is not taken for ever by others. Starts,
failures and kills are not fair: they need not happen.
BgProc: weak fairness of the worker, the background process and each client. This
assumes that the task comes to an end by itself (`Write` is bounded and `Return` is
enabled beside it); a task that never ends keeps its pollers for ever, as it should.
Engine: weak fairness of the daemon, of each worker and of each caller. The kernel
schedules every process, `select` returns after a second, a caller that has connected
writes its request or gives up, and a task or a deployment comes to an end, well or not.
Faults, signals and new starts are not fair. That a caller does write its request is an
assumption about `Rpc::call`, which connects and writes in a row: a client of another
kind that connects and stays silent keeps the daemon in `read`.
FormPage and TablePage have no liveness property, and no fairness.

## 4. What was found

1. **Lock cycle** (`lock_cycle`). `applyChanges` takes the semaphore and then the
   file, `revertChanges` the file and then the semaphore. One of each, started
   together, block each other, and then everything that writes the configuration.
2. **Revert forgets** (`revert_forgets`). `revertChanges` empties the dirty list
   whatever was deployed. After an apply that failed at its second module, a revert
   restores the configuration, but the first module runs with the one that was
   taken back and is not dirty. The same end is reached by a revert to an old
   backup; by a revert after one of two dirty modules was applied (the revisions
   are gone, so nothing is restored, and the list is emptied all the same); and
   by a revert after an apply that came between the commit of a change and its
   notification.
3. **Alias** (`deploy_alias`). `monit` and `mdadm` declare that they come after
   `email`, the alias of `postfix`. The dirty list holds `postfix`, the sort knows
   no `email` and drops the dependency as missing.
4. **Stale status** (`bg_stale`). A client that reads the status, then looks at
   `/proc`, reports a task that recorded its error and ended in between as finished
   without error, and removes the record.
5. **Rules removed** (`rules_removed`). On a firewall page Delete removes the rules that have
   the numbers of the selected ones, numbers the rest anew and leaves the selection as it is. The
   removed rule stays selected with its old number, which is that of the next rule now: a second
   click removes a rule that nobody selected. It is stored with the next save.

Also visible in the models, and not stated as violated properties because no
document promises otherwise: a circular dependency between plugins deploys nothing
(`AllOrNothingDeployed` says so) and takes all modules off the dirty list (`ApplyWrite`); a
listener that throws after a change was committed leaves the modules after it unmarked
(`NotifyThrow`), and the caller is told that the change failed; a list of modules in a certain
order, such as `rrdcached`, `nut`, `collectd`, makes `add` replace what another module has
declared, and collectd is deployed before nut (`DeclaredOrder` exempts what was replaced); a change
stored with the `quiet` flag marks nothing dirty; the status file of a task that failed is
never removed (`ReportError`); a task that was killed without its handlers is
reported as finished; an output file created but not yet named in the status stays
behind when the task is stopped (the exception in `StoppedIsGone`); the service answers
`pendingOutput` where the workbench tests `outputPending` (`rpc.service.ts:294`), so that the output
of a task that is larger than one request is cut off when the task ends, and its files stay
(the exception in `OutputReceived`).

In the engine: a task whose process dies between truncating and writing the file is gone
with all others in it (`lost`), and the next apply fails on the empty file until a deletion
fills it; a task whose process dies before it has rewritten the file is run again; a
deletion marks fstab dirty before it adds its task, so that an apply in between leaves
the task behind with nothing dirty; a revert takes back a deletion but not its task; when
the daemon dies while a worker lives, callers connect to a socket nobody accepts on and
wait for their timeout; and a caller that was told of a timeout does not know that its
request goes on.

In the table of SMART devices, which is in `Tables` but in no run, all disks that are not
monitored have the `uuid` of a new object, and a reload finds the selected row by its
`uuid`: it selects the first of these disks in place of the one the user chose
(`OnlySelected` does not hold there).

In the workbench: the route of the SMB settings has no guard, so that leaving it loses changes
without a question (`left = "unguarded"`); the page of access control lists is marked as pristine
before its request is sent (`"unsent"`); so is a firewall page when the answer to an earlier save
comes after another edit, and the in-place edits of the permission tables are not guarded at all;
the answer to a save leads away even when the user has left meanwhile; loads of root
rows are not cancelled by later ones; a request that names no row runs once for each
selected row; moving a removed firewall rule, which is still selected, inserts it again; when
others delete and append rules, two rules have the same number until the next edit, and removing one
removes both (the run would show this with two changes by others); the port of an rsync task and the maximum size of a Time Machine share block
saving when they are ill-formed and then hidden (`MissingIsReachable` is about missing
values only); a misplaced parenthesis keeps the `maxLength` validator from being built.

## 5. What is proved

All theorems are about the module's `Spec`, for every value of its constants that
satisfies its assumptions: any number of requests, objects, modules, clients, any
table of dependencies, any amount of output. The named assumptions say only what
the constants are (`None` is no process, the listeners are modules, and the like).

| Theorem | States | Argument |
|---|---|---|
| `ConfigApplyProofs!TypeCorrect` | `[]TypeOK` | inductive as it is |
| `LocksCorrect` | `[]LocksHeld` | inductive with `TypeOK`: a lock is held by exactly the process inside a section it guards |
| `FreezeCorrect` | `DeployFreezesConfig` | a step of another process that would write needs a lock that, by `LocksHeld`, the apply has |
| `CleanCorrect` | `[]CleanIsDeployed` | without reverts, kills of a set, throwing listeners and unsortable selections; see below |
| `BaselineCorrect` | `[]OldestRevisionIsBaseline` | when no apply or revert is killed; with `CopiedBeforeSave` |
| `RevertCorrect` | `RevertGoesBack` | when no apply or revert is killed; from `BaselineCorrect` and, for the exclusion of others, `LocksCorrect` |
| `RevertsStayClean` | `[]CleanIsDeployed` | with reverts instead of applies, without kills, throwing listeners and backup files; see below |
| `PromiseKept` | `ImplementsPromise` | under the assumptions of `CleanCorrect`; each step maps to a change, a deployment, some modules applied, or a stutter; `Accounted` for the last write of an apply |
| `DeployOrderProofs!SortCorrect` | `[]SortedRespectsDeps` | `SortType` and the order of what is sorted so far |
| `GivesUpCorrect` | `[]GivesUpOnlyOnCycle` | `PassInv`: a name this pass has left behind waits for one that is not sorted |
| `AllOrNothingCorrect` | `[]AllOrNothingDeployed` | `DeployedInv`: what is deployed so far are the selected names among the sorted ones before `pos` |
| `RecordedCorrect` | `[]RecordedOrder` | the order of the dependencies still recorded at the end; `AddInv`, `PlacedInv` |
| `DeclaredCorrect` | `[](NothingLost => DeclaredOrder)` | from the same; see below |
| `BgProcProofs!TypeCorrect` | `[]TypeOK` | `Inv`; the bound on `pos` needs that output only grows while it is read |
| `StopCorrect` | `[]StoppedIsGone` | `StopInv`: the process is dead before its files are removed |
| `OutputCorrect` | `UnreadOutputKept` | `PosInv`: who removes the files has all that was written, because the process was over when it read |
| `ErrorsCorrect` | `[]ErrorsAreReal` | `GoneInv`: for each missing file there is a client that removed it |
| `JobKept` | `ImplementsJob` | with `Inv` and `JobInv`: a file is gone, or a client holds a final answer, only when the process is over |
| `TaskQueueProofs!NothingForgottenCorrect`, `RunOnceCorrect`, `OkIsKept` | the same of QueueSpec | `QueueInv`; see below |
| `EngineProofs!StopsItsOwnCorrect` | `[]StopsItsOwn` of DaemonSpec | `ChildrenKept`: a worker that has not been reaped is a child or an orphan |
| `ImplementsQueue`, `ImplementsDaemon` | `Spec => QueueSpec`, `Spec => DaemonSpec` | each step of the composition is a step of the part, or leaves it alone; that a worker has only results to answer needs `QueueInv` |
| `TypeCorrect`, `EngineForgetsNothing`, `EngineRunsOnce`, `EngineStopsItsOwn` | `[]TypeOK`, `[]NothingForgotten`, `[]RunOnce`, `[]StopsItsOwn` of the composition | from the parts |
| `AnswersAreTrueCorrect` | `[]AnswersAreTrue` | `AnswersKept`: who was answered "ok" has "ok" as result, which stays (`OkStays`) and is kept (`QueueInv`) |
| `TablePageProofs!TypeCorrect` | `[]TypeOK` | `Typed`; see below |
| `SelectionAlwaysShown`, `TreeAlwaysConsistent` | `[]SelectionIsShown`, `[]TreeIsConsistent` | `AlwaysTidy`, that is `[]Tidy` |
| `ActsOnlyOnSelected`, `ActsOnlyOnConfirmed` | `[]OnlySelected`, `[]OnlyConfirmed` | `AlwaysChosen`, if `KeysIdentify` |
| `AlwaysLands` | `[]LandsOnPage` | `LandInv`, if `UrlsExist` |
| `FormPageProofs!TypeCorrect` | `[]TypeOK` | `IInv`; see below |
| `ValidityAlwaysCurrent` | `[]CascadesEnd` implies `[]ValidityIsCurrent` | `Checked` and, within a cascade, `Good`, if `TestsReported` |
| `OnlyValidSent` | `[]CascadesEnd` implies `SendsOnlyValid`: what is sent, its validators accept | from it |
| `NothingEverLost` | `[]PristineMeansSaved` implies `[]NothingLost` | `IInv`: the ways out of a page that are open to the user are none of the guard's exceptions |
| `CascadesEndMeasured`, `InputSticksMeasured` | `CascadesEnd`, `InputSticks` on every page with a measure | `Ends`, `Sticks`: each step of a cascade makes the rest cheaper |
| `ValidityMeasured` | `ValidityIsCurrent` on these pages | `Checked`, if `TestsReported` |
| `SwitchesObeyed` | `[]CascadesEnd` implies that all lone switches are obeyed | `Commands` and, within a cascade, `Ruled`, if `ConditionsReported` |
| `CommandsMeasured`, `PristineMeasured` | `CommandsHold`, `PristineMeansSaved` on pages with a measure and lone switches only | `Commands`, `Kempt` and, within a cascade, `Ruled`, `Tame`, if `ConditionsReported` |
| `LossesMeasured` | `PlainKeepChanges`: leaving such a page loses no change unasked | from `PristineMeasured` |
| `AlwaysLands` | `[]LandsOnPage` | `LandInv`, if `ButtonsLand` |

*CleanCorrect.* `CleanIsDeployed` alone is not inductive: when `ApplyWrite` drops a
module from the list, nothing in it says the module is up to date. The
strengthening `Accounted` says that, during a deployment, each dirty module is
going to be kept in the list, is still to be deployed, or is not stale. It is
preserved because, by `LocksHeld`, nobody writes `conf` or `dirty` meanwhile. The assumption
`"revert" \notin Ops` is the finding above; `"set" \notin Mortal` excludes a
process that is killed after its commit and before its notifications, which
leaves a stale module nobody has announced. `Throwers = {}` excludes a listener that throws there,
which leaves the same, and `Unsortable = {}` an apply that takes modules off the list
without deploying them.

*BaselineCorrect.* A process that is killed between two `unlink` calls leaves the
newer revisions, whose oldest is no baseline: hence `Mortal \subseteq {"set"}`, for `RevertCorrect` too.

*RevertsStayClean.* The finding about reverts needs an apply that failed halfway. Without applies
the modules keep the configuration that a revert goes back to, and `Restored` says that a revert has put it
back before it empties the list of dirty modules. It empties the list after it has freed the semaphore, so
that others may commit meanwhile: who has made a module stale by then has yet to announce it (`Unmarked`).

*DeclaredCorrect.* `add` replaces what was recorded for a name, so that a module's `deployBefore` may be
lost when another module names the same one. What is true of every table is `RecordedOrder`. `NothingLost`
says that each declaration is still recorded, or follows from others that are; of the 8192 selections
of the modules of the run, in their registered order, it holds for 7168. It fails exactly when nut, collectd and rrdcached are selected
together: both nut and rrdcached declare that they come before collectd, and the later one replaces the other.
There the order is right only because of the order in which the modules are registered,
which the run shows; in another order, which a caller may list them in, it need not be.

*BgProc.* The state of the process decides what a client's old snapshot is still
worth. `ClientInv` says: a client that has read "not running", or is about to remove
files, may rely on the process being in `exit` or `gone`, where it writes nothing
any more. `WorkerInv` and `ChildInv` relate the files to the place of worker and process.
`GoneInv` is needed for errors only: it attributes each missing file to a client
that `Removes`.

*TaskQueue.* While a file is rewritten its tasks are in the memory of one process only,
so that `NothingForgotten` is about what several places hold together. `Holding` makes
the steps on the file exclusive; `ListsKept` says what a process has read and how far it
has got: at `exec_run` its list is a part of the file, and what is missing has been run.
`RerunKept` says which tasks in the file have been run already: those of a process that
died, and the one somebody is just taking out.

*TablePage.* The theorems hold for every set of tables, every number of rows, loads,
clicks, edits and changes, and every meaning of the constraints. They follow from three
invariants, each inductive with the ones before it.
`Typed` says what every sequence of the page holds. It is needed everywhere, and it is
more than types: a table that selects single rows has one selected at most through all
reloads, because a reload never makes the selection longer.
`Tidy` says what is shown. The hard part is a tree with several loads under way. That a row
which shows that it is loading waits for an answer is not inductive alone: an answer to the
children of one row adds rows and changes the status of others, and an answer to the root
rows marks all earlier loads, after which only loads sent with it may answer. `PendingInv` says
that each loading row has a load that is not marked; `StoredInv` and `LoadsInv` that the backend has
no row twice, now or when a load started; `ParamsInv` that a load which is not marked asks with
the search that the rows shown answer; `Flat` that nothing of this concerns a table without a
tree. A rule that was removed stays selected and is inserted again when it is moved: that this makes no
second copy of a rule needs `RowsInv`, by which a selected row whose name is shown is the row shown.
`Chosen` says that the selection and the rows acted on were picked by the user, and that
what is asked about is no more than what was selected at the click. It needs that a row found
again by its key is the row selected: `KeysIdentify`, a hypothesis of `ActsOnlyOnSelected` and
`ActsOnlyOnConfirmed`. `MCTablePage` has TLC confirm it of every table of the run; of the SMART
devices it is false, and the property with it (section 4).
`AlwaysLands` presupposes `UrlsExist`, that the URLs of actions are those of routes, which depends
on the tables alone; the theorem says that no other URL is ever shown, also when the answer to a
save comes after the page was left.

*FormPage.* The theorems hold for every set of forms with any fields, modifiers and validators,
and every meaning of the constraints. One action is a whole cascade, so that the proof has two
inductions: over the steps of the system and over those of a cascade. The second is `Good`, an
invariant of the work that is left together with the form so far, which each kind of work keeps
(`StepGood`) and therefore all of them together (`RunGood`). The steps are a recursive function;
that there is one (`RoundsDefined`) and what it keeps are shown by induction on the set of the
numbers for which it is so (`NatSetInduction`, from the library's well-founded order of numbers).
That marks are right is not inductive in a cascade: a modifier sets a field, and the fields
whose tests read it are wrong until they hear of it. `Current` says that each field is marked
right, or is noted for the debounced validation, or watches a change whose announcement is
still among the work. The announcement is in the work because every modifier that changes
anything announces it; and a field that does not watch another one is refused as before when
that one changes (`RefusesAsBefore`), which is where `TestsReported` comes in: no test reads a
property that `getProps` does not report of it. The code does not guarantee that (`getProps`
leaves out a property in the second argument of `in`); `MCFormPage` has TLC confirm it of all
tests of the forms, for the values a user enters. The other hypothesis, `CascadesEnd`, is
true of the forms of the repository, which the run shows, and not of every form: two modifiers
may go on for ever.
`Measured` says of which forms it is true, whatever is entered: each field can be given a cost that is
higher than that of all the changes a change of the field may cause, and opening, loading and
refusing the form costs no more than the steps that a cascade is followed for (8 * `Enough`). The proof is that
every step makes the work that is left cheaper (`StepLowers`). TLC evaluates `PagesAreMeasured` in
`MCFormPage`: 46 of the 49 pages have such costs. On the other three (`RsyncTaskForm`,
`SmbSettingsForm`, `SmbShareForm`) two fields modify each other. A change of a field costs less than
the field itself, so that no input comes back to its own field (`Below`): `InputSticksMeasured`.
A *lone switch* is a modifier that enables, disables, shows or hides a field, follows all that its condition
reads, but not the field itself, and is the only one of its kind for the field. All 103 such modifiers of the
repository are lone (`SwitchesAreLone`, evaluated by TLC). That they are obeyed is, like the marks, not inductive in
a cascade: `Ruled` says that each is obeyed, or is recalled by work that is left. With
`ConditionsReported`, which TLC evaluates with `TestsReported`, a condition has the same value as
long as nothing changes that the switch follows.
Of the 17 pages with modifiers, 10 have lone switches only and a measure; with the 32 that have no
modifiers, `CommandsMeasured`, `PristineMeasured` and `LossesMeasured` are about 42 pages. That a
form without changes shows what is stored needs more there than that no modifier sets a value:
disabling a field makes the form count as unchanged when all fields the user has
changed are disabled. `Kempt` says that one of them is always enabled. It is the one changed last, since
no switch of a field follows that field.
`NothingEverLost` is for every page: it leaves to the run what depends on the forms, that a form which is not dirty
shows what is stored; what it adds is that the guard then lets no change go unasked, whatever
was loaded, edited, refused, sent or failed before. `AlwaysLands` is as for the tables:
`ButtonsLand` is about the configuration of the pages alone.

## 6. What is only model-checked

* `RequestsEnd`, `PollersEnd`, `RequestsServed` and `StopEnds`: liveness, which needs fairness and ENABLED, is
  out of reach of the prover.
* `DeclaredOrder` when nut, collectd and rrdcached are selected together (see section 5), and for
  lists of any order what it says of the declarations that `add` has not replaced. `OutputReceived`.
* What is true of the forms of the repository, and not of every one: `CascadesEnd` and `InputSticks` of
  the three pages on which two fields modify each other; `CommandsHold` of the modifiers that check,
  uncheck or set a field, and `PristineMeansSaved` of the 7 pages that have such modifiers;
  `MissingIsReachable`, which depends on which fields a page requires and hides. For `ValidityIsCurrent`, `NothingLost` and `LandsOnPage`
  the theorems say what the forms have to fulfil.
* That the hypotheses of the theorems on forms are true of the pages: `TestsAreReported`,
  `PagesAreMeasured` and `SwitchesAreLone` are evaluated by TLC, the first of them for the values
  that users enter.
* `UrlsExist` and `ButtonsLand`, the hypotheses of the two theorems `AlwaysLands`, are not
  evaluated by themselves: the runs check `LandsOnPage` of the tables and forms of the repository.
* The values of `Test` and `GetProps`: constraints are trees, and what these two recursive
  functions compute is beyond the prover.

## 7. Plan

Done: ConfigApply with PendingChanges, DeployOrder, BgProc with Job, TaskQueue, Engined and
their composition Engine, the proofs of all of these, the form and table pages. What would
come next, in this order:

1. **ConfigStore**: objects with uniqueness and references; check, lock, write; reads
   of a file that is being written. Abstract specification: an atomic store. Theorem:
   writers are serialized.
2. **TaskQueue with ConfigApply**: the order of `setDirty` and `addTask`, and reverts that
   leave tasks behind.
3. **AsyncProcs**: `asyncProc` and `waitAsyncProcs`, with their timeout and socket
   buffer. **Session timer**: expiry against automatic logout.

## 8. What is not modelled

* *RPC services of the features*: validation and one read-modify-write of an object
  each; the effect on the database is the set of ConfigApply.
* *System wrappers*: calls of external programs and `/proc` without protocol state.
* *Data model, JSON schema*: pure functions over unbounded data.
* *Python library*: a second reader of `config.xml`; its sort is used by `omv-salt` only.
* *Salt states*: templates rendered by another program; `Deploy` stands for a run.
* *Workbench*: dashboards, diagrams, text and tab pages, login and the shell around the pages
  show answers and keep no protocol state. Of the form pages: code a page adds to its
  configuration (copying permissions, choosing a path of access control lists, sending a
  test notification), the stores behind select fields, and validators of single
  values, which are one ill-formed value here. Of the table pages: columns, sorting, paging,
  and what an action's request does in the engine beyond removing a row; the browser's own sort of
  the rules by number (a place of a rule is its index in the data); that `setRules` stores the rules
  under new identifiers, so that a reload after a save drops the selection. Of the
  form pages also the answer to a POST that comes after the page was left and leads away all the
  same (`form-page.component.ts:350-369`); of the table pages this is modelled (`SaveSucceeds`).
* In ConfigApply: the contents of a file in the middle of a write; a second change
  by the same request; kills of a set or a revert, except where a theorem assumes
  nothing about them (`TypeCorrect`, `LocksCorrect` and `FreezeCorrect` cover every `Mortal`).
* In BgProc: the reuse of a process id by another process; the time between SIGTERM
  and the death it causes (the signal is taken to act at once); the wait of five
  seconds is a choice that may be made at any moment; `callMethodBg` in the
  variants that differ only in what is run.
* In Engine: `applyChangesBg`, whose background process outlives its worker; requests
  other than those on the tasks of fstab, which a worker of Engined stands for by
  answering anything; a client that connects and sends nothing, which the fairness of callers
  excludes (it would block the daemon in `read`, and `StopEnds` and `RequestsServed` with it); a
  caller that sends its request again after a timeout, which would be executed twice; a task that adds
  a task, which would wait for itself (fstab's does not); what becomes of the tasks in a file whose
  process is killed while it is truncated is modelled, and exempted as `lost`; identifiers of tasks other than fstab's only one, and the order of
  tasks in the file; the XDebug mode, `daemonize` and the command line of the daemon; more
  than one connection of a caller.
