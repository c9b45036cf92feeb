---------------------------- MODULE DeployOrder ----------------------------
(***************************************************************************)
(* The order in which Config::applyChanges deploys the modules it has      *)
(* selected: it adds each with its declared dependencies to a              *)
(* TopologicalSort, sorts, and deploys the sorted names it selected.       *)
(* All of it happens inside the critical section of ConfigApply, where     *)
(* Deploy stands for one iteration of the last loop.                       *)
(***************************************************************************)
EXTENDS Naturals, Sequences, SequencesExt

CONSTANTS
  Registered, \* the registered names and aliases, in the order of ksort
  Alias,      \* Alias[n]: the name of the module registered as n
  After,      \* After[m]: the names deployAfter() returns, a set
  Before,     \* Before[m]: the names deployBefore() returns, in order
  MaxListed   \* the most modules a caller lists

ModuleNames == Range(Registered)
Instances   == {Alias[n] : n \in ModuleNames}

ASSUME RegisteredAssumption == Registered \in Seq(ModuleNames)

ASSUME InstancesAssumption ==
  Instances \subseteq DOMAIN After \cap DOMAIN Before

ASSUME BeforeAssumption ==
  \A m \in Instances : Before[m] \in Seq(Range(Before[m]))

ASSUME MaxListedAssumption == MaxListed \in Nat

VARIABLES
  modules,  \* the names that applyChanges iterates over
  mods,     \* the ones it selects: the keys of $processModules
  adds,     \* the calls of TopologicalSort::add still to be made for a module
  deps,     \* $dependencies, by name ...
  order,    \* ... and its keys, in the order PHP iterates over them
  sorted,   \* the result so far; sorted names are no longer in $dependencies
  found,    \* this pass over $dependencies has sorted a name: $abort is FALSE
  pos,      \* the loop's place in modules, then in order, then in sorted
  deployed, \* the names deployed so far
  phase     \* "add", "sort", "deploy" or "done"

vars ==
  <<modules, mods, adds, deps, order, sorted, found, pos, deployed, phase>>

(* What a caller may list, in any order.  A name given twice counts once,  *)
(* at its first place, since $processModules is keyed by name.             *)
Lists == {s \in BoundedSeq(ModuleNames, MaxListed) :
            s # <<>> /\ \A i, j \in DOMAIN s : s[i] = s[j] => i = j}

(* No list stands for all registered names, and those that are not dirty   *)
(* are skipped unless the caller forces them, so any of them may be left.  *)
(* A listed name that is skipped is as good as one that is not listed.     *)
Init ==
  /\ \/ modules = Registered /\ mods \in SUBSET ModuleNames
     \/ modules \in Lists /\ mods = Range(modules)
  /\ adds = <<>>
  /\ deps = <<>>
  /\ order = <<>>
  /\ sorted = <<>>
  /\ found = FALSE
  /\ pos = 1
  /\ deployed = <<>>
  /\ phase = "add"

(* i is the next place in s, from pos on, whose name is in S.              *)
NextAt(i, s, S) == /\ i \in pos .. Len(s) /\ s[i] \in S
                   /\ \A j \in pos .. i - 1 : s[j] \notin S

PassOver(s, S) == \A i \in pos .. Len(s) : s[i] \notin S

(* "$this->dependencies[$node] = $deps": a name that was added before      *)
(* keeps its place, and what was recorded for it is replaced.              *)
Add(node, names) ==
  /\ deps' = [n \in DOMAIN deps \cup {node} |->
                IF n = node THEN names ELSE deps[n]]
  /\ order' = IF node \in DOMAIN deps THEN order ELSE Append(order, node)

(* Mutant: deployBefore is not asked.                                      *)
Waiting_None(n) == <<>>

(* The add calls for the modules that have to wait for n.                  *)
Waiting(n) ==
  LET names == Before[Alias[n]]
  IN  [i \in DOMAIN names |-> [node |-> names[i], deps |-> {n}]]

(* The selected modules are added in the order of the list, each with its  *)
(* own dependencies, ...                                                   *)
AddModule ==
  /\ phase = "add" /\ adds = <<>>
  /\ \E i \in DOMAIN modules :
       /\ NextAt(i, modules, mods)
       /\ Add(modules[i], After[Alias[modules[i]]])
       /\ adds' = Waiting(modules[i])
       /\ pos' = i + 1
  /\ UNCHANGED <<modules, mods, sorted, found, deployed, phase>>

(* ... then one call is made for each module that has to wait for it.      *)
AddWaiting ==
  /\ phase = "add" /\ adds # <<>>
  /\ Add(Head(adds).node, Head(adds).deps)
  /\ adds' = Tail(adds)
  /\ UNCHANGED <<modules, mods, sorted, found, pos, deployed, phase>>

AllAdded == phase = "add" /\ adds = <<>> /\ PassOver(modules, mods)

(* Mutant: a name that depends on a missing one is dropped too.            *)
DropMissing_Dependents ==
  /\ AllAdded
  /\ LET kept == {n \in DOMAIN deps : deps[n] \subseteq DOMAIN deps}
     IN  /\ deps' = [n \in kept |-> deps[n] \cap kept]
         /\ order' = SelectSeq(order, LAMBDA n : n \in kept)
  /\ phase' = "sort" /\ pos' = 1
  /\ UNCHANGED <<modules, mods, adds, sorted, found, deployed>>

(* ignoreMissing: a dependency on a name never added does not count.       *)
DropMissing ==
  /\ AllAdded
  /\ deps' = [n \in DOMAIN deps |-> deps[n] \cap DOMAIN deps]
  /\ phase' = "sort" /\ pos' = 1
  /\ UNCHANGED <<modules, mods, adds, order, sorted, found, deployed>>

Left == DOMAIN deps \ Range(sorted)

(* Mutant: one sorted dependency is enough.                                *)
Ready_Any(n) == deps[n] = {} \/ deps[n] \cap Range(sorted) # {}

Ready(n) == deps[n] \subseteq Range(sorted)

(* One iteration of the foreach over $dependencies: a name all of whose    *)
(* dependencies are sorted is sorted next.                                 *)
Visit ==
  /\ phase = "sort"
  /\ \E i \in DOMAIN order :
       /\ NextAt(i, order, Left)
       /\ IF Ready(order[i])
            THEN sorted' = Append(sorted, order[i]) /\ found' = TRUE
            ELSE UNCHANGED <<sorted, found>>
       /\ pos' = i + 1
  /\ UNCHANGED <<modules, mods, adds, deps, order, deployed, phase>>

(* The while loop goes round again after a pass that sorted a name.        *)
NextPass ==
  /\ phase = "sort" /\ PassOver(order, Left) /\ Left # {} /\ found
  /\ found' = FALSE
  /\ pos' = 1
  /\ UNCHANGED <<modules, mods, adds, deps, order, sorted, deployed, phase>>

SortDone ==
  /\ phase = "sort" /\ Left = {}
  /\ phase' = "deploy"
  /\ pos' = 1
  /\ UNCHANGED <<modules, mods, adds, deps, order, sorted, found, deployed>>

(* sort returns FALSE and the loop over it deploys nothing, but            *)
(* applyChanges goes on and takes the modules off the dirty list.          *)
SortFails ==
  /\ phase = "sort" /\ PassOver(order, Left) /\ Left # {} /\ ~ found
  /\ phase' = "done"
  /\ UNCHANGED <<modules, mods, adds, deps, order, sorted, found, pos, deployed>>

(* Names that were only mentioned as a dependency are skipped.             *)
DeployNext ==
  /\ phase = "deploy"
  /\ \E i \in DOMAIN sorted : /\ NextAt(i, sorted, mods)
                              /\ deployed' = Append(deployed, sorted[i])
                              /\ pos' = i + 1
  /\ UNCHANGED <<modules, mods, adds, deps, order, sorted, found, phase>>

DeployDone ==
  /\ phase = "deploy" /\ PassOver(sorted, mods)
  /\ phase' = "done"
  /\ UNCHANGED <<modules, mods, adds, deps, order, sorted, found, pos, deployed>>

Finished == phase = "done" /\ UNCHANGED vars

Next == \/ AddModule \/ AddWaiting \/ DropMissing
        \/ Visit \/ NextPass \/ SortDone \/ SortFails
        \/ DeployNext \/ DeployDone \/ Finished

Spec == Init /\ [][Next]_vars
-----------------------------------------------------------------------------
(* The names of s that come before its i-th.                               *)
Earlier(s, i) == {s[j] : j \in 1 .. i - 1}

(* The sort keeps its promise for the dependencies it was given: each name *)
(* comes after all it depends on, and none comes twice.                    *)
SortedRespectsDeps ==
  phase # "add" => \A i \in DOMAIN sorted :
                     /\ deps[sorted[i]] \subseteq Earlier(sorted, i)
                     /\ sorted[i] \notin Earlier(sorted, i)

(* A set of names each of which waits for another one of the set.          *)
Circular(S) == S # {} /\ \A n \in S : deps[n] \cap S # {}

(* The sort gives up only when names are left over that all wait for one   *)
(* another.                                                                *)
GivesUpOnlyOnCycle == phase = "done" /\ Left # {} => Circular(Left)

(* It leaves none over otherwise, and then every selected module is        *)
(* deployed; but on a circular dependency not a single one is, although    *)
(* applyChanges takes them all off the dirty list.                         *)
AllOrNothingDeployed ==
  /\ GivesUpOnlyOnCycle
  /\ phase = "done" => Range(deployed) = IF Left = {} THEN mods ELSE {}

(* modules[a] is selected, and its own call of add or one that its      *)
(* deployBefore causes records something for n.                            *)
Records(a, n) ==
  /\ modules[a] \in mods
  /\ modules[a] = n \/ n \in Range(Before[Alias[modules[a]]])

(* Of the first names of modules, up to and without the p-th, the a-th  *)
(* is the last that records something for n.                               *)
LastRecord(a, p, n) == /\ a \in DOMAIN modules /\ a < p /\ Records(a, n)
                       /\ \A b \in DOMAIN modules :
                            a < b /\ b < p => ~ Records(b, n)

(* What the a-th name records for n.                                       *)
Record(a, n) ==
  LET m == modules[a]
  IN  IF n \in Range(Before[Alias[m]]) THEN {m} ELSE After[Alias[m]]

(* What n waits for according to the last call of add with that name.      *)
Recorded(n) ==
  UNION {Record(a, n) : a \in {b \in DOMAIN modules :
                                 LastRecord(b, Len(modules) + 1, n)}}

(* What add recorded last for a module is what counts: the module is       *)
(* deployed after all selected ones of these.                              *)
RecordedOrder ==
  phase = "done" =>
    \A i, j \in DOMAIN deployed : deployed[j] \in Recorded(deployed[i]) => j < i

(* m is to be deployed before n: one of the two modules declares it, for   *)
(* names as they are written.                                              *)
Declared(m, n) == m \in After[Alias[n]] \/ n \in Range(Before[Alias[m]])

(* The selected modules that n waits for, at once or through others.       *)
Awaited(n) ==
  {m \in mods : \A S \in SUBSET mods :
                  (\A k \in S \cup {n} : Recorded(k) \cap mods \subseteq S) => m \in S}

(* What the modules declare: "Ensures that this module is deployed after   *)
(* [before] the listed modules" (iservice.inc).  add may overwrite what    *)
(* another module declared, so this does not follow from                   *)
(* SortedRespectsDeps.  The modules of the repository are deployed as they *)
(* declare when the caller lists none; when it lists some, in the order it *)
(* chooses, only a declaration that add replaced is not respected.         *)
DeclaredOrder ==
  phase = "done" =>
    \A i, j \in DOMAIN deployed :
      Declared(deployed[j], deployed[i])
        => \/ j < i
           \/ modules # Registered /\ deployed[j] \notin Awaited(deployed[i])

(* No declaration is lost: where add replaced what a module had declared,  *)
(* what it recorded instead implies that.                                  *)
NothingLost ==
  \A m, n \in mods : Declared(m, n) => m \in Awaited(n)

(* The same for the modules the names stand for: a module registered under *)
(* an alias is one of the listed modules when its alias is listed.         *)
DeclaredOrderOfInstances ==
  phase = "done" =>
    \A i \in DOMAIN deployed, n \in ModuleNames :
      LET places == {j \in DOMAIN deployed : Alias[deployed[j]] = Alias[n]}
      IN  n \in After[Alias[deployed[i]]] /\ places # {}
            => \E j \in places : j < i
=============================================================================
