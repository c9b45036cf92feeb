------------------------- MODULE DeployOrderProofs -------------------------
(* What TopologicalSort guarantees for every table of dependencies.        *)
EXTENDS DeployOrder, TLAPS

(* The sort's own state: nothing is sorted while names are added, then     *)
(* only names that were added are, and order lists all of these.           *)
SortType ==
  /\ sorted \in Seq(DOMAIN deps)
  /\ phase = "add" => sorted = <<>>
  /\ order \in Seq(DOMAIN deps)
  /\ Range(order) = DOMAIN deps

RespectInv == SortType /\ SortedRespectsDeps

(* What is appended is last, and what came before stays where it was.      *)
LEMMA AppendRange ==
  ASSUME NEW S, NEW s \in Seq(S), NEW e \in S
  PROVE  /\ Append(s, e) \in Seq(S)
         /\ Range(Append(s, e)) = Range(s) \cup {e}
         /\ Earlier(Append(s, e), Len(s) + 1) = Range(s)
         /\ \A i \in DOMAIN s : /\ Append(s, e)[i] = s[i]
                                /\ Earlier(Append(s, e), i) = Earlier(s, i)
<1>1. /\ Append(s, e) \in Seq(S) /\ Len(Append(s, e)) = Len(s) + 1
      /\ Append(s, e)[Len(s) + 1] = e /\ Len(s) \in Nat
      /\ DOMAIN s = 1 .. Len(s) /\ DOMAIN Append(s, e) = 1 .. Len(s) + 1
      /\ \A i \in 1 .. Len(s) : Append(s, e)[i] = s[i]
  OBVIOUS
<1>2. Range(Append(s, e)) = Range(s) \cup {e}
  BY <1>1 DEF Range
<1>3. Earlier(Append(s, e), Len(s) + 1) = Range(s)
  BY <1>1 DEF Earlier, Range
<1>4. ASSUME NEW i \in DOMAIN s
      PROVE  Earlier(Append(s, e), i) = Earlier(s, i)
  BY <1>1 DEF Earlier
<1> QED
  BY <1>1, <1>2, <1>3, <1>4

(* The calls of add leave the keys of $dependencies, each once named.      *)
LEMMA AddType ==
  ASSUME SortType, phase = "add", phase' = "add", sorted' = sorted,
         NEW node, NEW names, Add(node, names)
  PROVE  SortType'
<1>1. /\ sorted = <<>> /\ sorted' = <<>>
      /\ DOMAIN deps' = DOMAIN deps \cup {node}
      /\ order' = IF node \in DOMAIN deps THEN order ELSE Append(order, node)
  BY DEF Add, SortType
<1>2. order \in Seq(DOMAIN deps') /\ Range(order) = DOMAIN deps
  BY <1>1 DEF SortType
<1>3. order' \in Seq(DOMAIN deps') /\ Range(order') = DOMAIN deps'
  BY <1>1, <1>2, AppendRange
<1> QED
  BY <1>1, <1>3 DEF SortType

(* Steps of the loops that sort nothing keep what is said of sorted.       *)
LEMMA NothingSorted ==
  ASSUME RespectInv, phase # "add", phase' # "add",
         deps' = deps, order' = order, sorted' = sorted
  PROVE  RespectInv'
<1>1. SortType'
  BY DEF RespectInv, SortType, Range
<1>2. \A i : Earlier(sorted', i) = Earlier(sorted, i)
  BY DEF Earlier
<1>3. SortedRespectsDeps'
  BY <1>2 DEF RespectInv, SortedRespectsDeps, Earlier
<1> QED
  BY <1>1, <1>3 DEF RespectInv

(* Every step of the sort keeps its type and the order.                    *)
LEMMA SortInvariant == Spec => []RespectInv
<1>1. Init => RespectInv
  BY DEF Init, RespectInv, SortType, SortedRespectsDeps, Range
<1>2. RespectInv /\ [Next]_vars => RespectInv'
  <2> SUFFICES ASSUME RespectInv, [Next]_vars PROVE RespectInv'
    OBVIOUS
  <2> USE DEF RespectInv
  <2>1. CASE AddModule \/ AddWaiting
    BY <2>1, AddType DEF AddModule, AddWaiting, SortedRespectsDeps
  <2>2. CASE DropMissing
    BY <2>2 DEF DropMissing, AllAdded, SortType, SortedRespectsDeps
  <2>3. CASE Visit
    <3>1. PICK i \in DOMAIN order :
            /\ order[i] \in Left
            /\ \/ Ready(order[i]) /\ sorted' = Append(sorted, order[i])
               \/ sorted' = sorted
      BY <2>3 DEF Visit, NextAt
    <3>2. deps' = deps /\ order' = order /\ phase = "sort" /\ phase' = "sort"
      BY <2>3 DEF Visit
    <3>3. CASE sorted' = sorted
      BY <3>2, <3>3 DEF SortType, SortedRespectsDeps, Earlier
    <3>4. CASE Ready(order[i]) /\ sorted' = Append(sorted, order[i])
      <4> DEFINE e == order[i]
      <4>1. e \in DOMAIN deps /\ e \notin Range(sorted) /\ deps[e] \subseteq Range(sorted)
        BY <3>1, <3>4 DEF Left, Ready
      <4>2. sorted \in Seq(DOMAIN deps) /\ sorted' = Append(sorted, e)
        BY <3>4 DEF SortType
      <4> HIDE DEF e
      <4>3. SortType'
        BY <3>2, <4>1, <4>2, AppendRange DEF SortType
      <4>4. DOMAIN sorted' = DOMAIN sorted \cup {Len(sorted) + 1}
        BY <4>1, <4>2
      <4>5. sorted'[Len(sorted) + 1] = e
        BY <4>1, <4>2
      <4>6. ASSUME NEW k \in DOMAIN sorted'
            PROVE  /\ deps[sorted'[k]] \subseteq Earlier(sorted', k)
                   /\ sorted'[k] \notin Earlier(sorted', k)
        <5>1. CASE k = Len(sorted) + 1
          BY <4>1, <4>2, <4>5, <5>1, AppendRange
        <5>2. CASE k \in DOMAIN sorted
          BY <3>2, <4>1, <4>2, <5>2, AppendRange DEF SortedRespectsDeps
        <5> QED
          BY <4>4, <5>1, <5>2
      <4> QED
        BY <3>2, <4>3, <4>6 DEF SortedRespectsDeps, Earlier
    <3> QED
      BY <3>1, <3>3, <3>4
  <2>4. CASE NextPass \/ SortDone \/ SortFails
    BY <2>4, NothingSorted DEF NextPass, SortDone, SortFails
  <2>5. CASE DeployNext \/ DeployDone
    BY <2>5, NothingSorted DEF DeployNext, DeployDone
  <2>6. CASE UNCHANGED vars
    BY <2>6 DEF vars, SortType, SortedRespectsDeps, Earlier
  <2> QED
    BY <2>1, <2>2, <2>3, <2>4, <2>5, <2>6 DEF Next, Finished
<1> QED
  BY <1>1, <1>2, PTL DEF Spec

(* Whatever the modules declare, the sort puts a name after all the names  *)
(* its entry in $dependencies lists, and lists it once.                    *)
THEOREM SortCorrect == Spec => []SortedRespectsDeps
<1>1. RespectInv => SortedRespectsDeps
  BY DEF RespectInv
<1> QED
  BY <1>1, SortInvariant, PTL

-----------------------------------------------------------------------------
(* During the sort every dependency is a name that was added, the loop is  *)
(* inside order, and in a pass that has sorted nothing yet each name that  *)
(* is left over before pos waits for another one.                          *)
PassInv ==
  /\ phase \in {"add", "sort", "deploy", "done"}
  /\ phase \in {"add", "sort"} => pos \in Nat
  /\ phase = "add" => ~ found
  /\ phase # "add" => \A n \in DOMAIN deps : deps[n] \subseteq DOMAIN deps
  /\ phase = "sort" /\ ~ found =>
       \A i \in DOMAIN order : i < pos /\ order[i] \in Left => ~ Ready(order[i])
  /\ phase = "deploy" => Left = {}

(* Whatever the modules declare, when the sort returns FALSE the names it  *)
(* could not sort depend on one another in a circle.                       *)
LEMMA PassInvariant == Spec => [](PassInv /\ GivesUpOnlyOnCycle)
<1> DEFINE Inv == PassInv /\ GivesUpOnlyOnCycle
<1>1. Init => Inv
  BY DEF Init, PassInv, GivesUpOnlyOnCycle
<1>2. RespectInv /\ Inv /\ [Next]_vars => Inv'
  <2> SUFFICES ASSUME SortType, Inv, [Next]_vars PROVE Inv'
    BY DEF RespectInv
  <2> USE DEF PassInv, GivesUpOnlyOnCycle
  <2>1. CASE AddModule \/ AddWaiting
    BY <2>1 DEF AddModule, AddWaiting, NextAt
  <2>2. CASE DropMissing
    BY <2>2 DEF DropMissing, AllAdded, SortType
  <2>3. CASE Visit
    BY <2>3 DEF Visit, NextAt, Left, Ready, SortType
  <2>4. CASE NextPass
    BY <2>4 DEF NextPass, SortType
  <2>5. CASE SortDone
    BY <2>5 DEF SortDone, Left
  <2>6. CASE SortFails
    <3>1. Left' = Left /\ Left # {}
      BY <2>6 DEF SortFails, Left
    <3>2. ASSUME NEW n \in Left PROVE deps[n] \cap Left # {}
      <4>1. PICK i \in DOMAIN order : order[i] = n
        BY <3>2 DEF SortType, Range, Left
      <4>2. i < pos
        BY <2>6, <3>2, <4>1 DEF SortFails, PassOver, SortType
      <4>3. ~ Ready(n)
        BY <2>6, <3>2, <4>1, <4>2 DEF SortFails
      <4> QED
        BY <2>6, <3>2, <4>3 DEF SortFails, Ready, Left
    <3> QED
      BY <2>6, <3>1, <3>2 DEF SortFails, Circular
  <2>7. CASE DeployNext
    BY <2>7 DEF DeployNext, Left
  <2>8. CASE DeployDone
    BY <2>8 DEF DeployDone, Left
  <2>9. CASE UNCHANGED vars
    BY <2>9 DEF vars, Left, Ready, Circular
  <2> QED
    BY <2>1, <2>2, <2>3, <2>4, <2>5, <2>6, <2>7, <2>8, <2>9 DEF Next, Finished
<1> QED
  BY <1>1, <1>2, SortInvariant, PTL DEF Spec

THEOREM GivesUpCorrect == Spec => []GivesUpOnlyOnCycle
BY PassInvariant, PTL

-----------------------------------------------------------------------------
(* The selected modules before pos have been added; then all have.         *)
AddedInv ==
  /\ modules \in Seq(ModuleNames)
  /\ mods \subseteq Range(modules)
  /\ phase = "add" =>
       \A i \in DOMAIN modules :
         i < pos /\ modules[i] \in mods => modules[i] \in DOMAIN deps
  /\ phase # "add" => mods \subseteq DOMAIN deps

(* The selected ones of the sorted names before pos have been deployed.    *)
Passed == {sorted[i] : i \in {j \in DOMAIN sorted : j < pos}}

DeployedInv ==
  /\ deployed \in Seq(mods)
  /\ phase \in {"add", "sort"} => deployed = <<>>
  /\ phase = "deploy" => pos \in Nat \ {0} /\ Range(deployed) = Passed \cap mods
  /\ phase = "done" => Range(deployed) = IF Left = {} THEN mods ELSE {}

(* What is iterated over is a sequence that has all selected names.        *)
LEMMA InitSelection ==
  Init => AddedInv /\ modules \in Seq(ModuleNames) /\ mods \subseteq Range(modules)
<1> SUFFICES ASSUME Init
             PROVE  /\ AddedInv /\ modules \in Seq(ModuleNames)
                    /\ mods \subseteq Range(modules)
  OBVIOUS
<1> DEFINE Right == modules \in Seq(ModuleNames) /\ mods \subseteq Range(modules)
<1>1. ASSUME modules = Registered PROVE Right
  BY <1>1, RegisteredAssumption DEF Init, ModuleNames
<1>2. ASSUME modules \in Lists, mods = Range(modules) PROVE Right
  BY <1>2, MaxListedAssumption DEF Lists, BoundedSeq, SeqOf
<1>3. Right
  BY <1>1, <1>2 DEF Init
<1>4. phase = "add" /\ \A i \in DOMAIN modules : ~ (i < pos)
  BY <1>3 DEF Init
<1> QED
  BY <1>3, <1>4 DEF AddedInv

LEMMA AddedStep ==
  ASSUME PassInv, SortType, AddedInv, [Next]_vars
  PROVE  AddedInv'
<1> USE DEF AddedInv, PassInv
<1>0. modules \in Seq(ModuleNames)
  OBVIOUS
<1>1. CASE AddModule
  <2>1. PICK i \in DOMAIN modules :
          /\ NextAt(i, modules, mods) /\ pos' = i + 1
          /\ DOMAIN deps' = DOMAIN deps \cup {modules[i]}
    BY <1>1 DEF AddModule, Add
  <2>2. phase = "add" /\ phase' = "add" /\ modules' = modules /\ mods' = mods
    BY <1>1 DEF AddModule
  <2> QED
    BY <1>0, <2>1, <2>2 DEF NextAt
<1>2. CASE AddWaiting
  BY <1>2 DEF AddWaiting, Add
<1>3. CASE DropMissing
  <2>1. DOMAIN deps' = DOMAIN deps /\ modules' = modules /\ mods' = mods
        /\ phase = "add"
        /\ phase' = "sort" /\ PassOver(modules, mods)
    BY <1>3 DEF DropMissing, AllAdded
  <2>2. ASSUME NEW n \in mods PROVE n \in DOMAIN deps
    <3>1. PICK i \in DOMAIN modules : modules[i] = n
      BY <2>2 DEF ModuleNames, Range
    <3>2. i \in Nat /\ i <= Len(modules)
      BY <1>0
    <3>3. i < pos
      BY <2>1, <2>2, <3>1, <3>2 DEF PassOver
    <3> QED
      BY <2>1, <2>2, <3>1, <3>3
  <2> QED
    BY <2>1, <2>2
<1>4. CASE Visit \/ NextPass \/ SortDone \/ SortFails \/ DeployNext
             \/ DeployDone \/ Finished \/ UNCHANGED vars
  BY <1>4 DEF Visit, NextPass, SortDone, SortFails, DeployNext, DeployDone,
     Finished, vars
<1> QED
  BY <1>1, <1>2, <1>3, <1>4 DEF Next

LEMMA DeployedStep ==
  ASSUME RespectInv, PassInv, AddedInv, DeployedInv, [Next]_vars
  PROVE  DeployedInv'
<1> USE DEF DeployedInv, RespectInv
<1>1. CASE AddModule \/ AddWaiting \/ DropMissing \/ Visit \/ NextPass
  BY <1>1 DEF AddModule, AddWaiting, DropMissing, AllAdded, Visit, NextPass
<1>2. CASE SortDone
  <2>1. phase' = "deploy" /\ pos' = 1 /\ deployed' = <<>>
          /\ modules' = modules /\ mods' = mods
        /\ sorted' = sorted
    BY <1>2 DEF SortDone
  <2>2. Passed' = {}
    BY <2>1 DEF Passed, SortType
  <2> QED
    BY <2>1, <2>2 DEF Range
<1>3. CASE SortFails
  <2>1. phase' = "done" /\ deployed' = <<>>
          /\ modules' = modules /\ mods' = mods /\ Left' = Left
        /\ Left # {}
    BY <1>3 DEF SortFails, Left
  <2> QED
    BY <2>1 DEF Range
<1>4. CASE DeployNext
  <2>1. PICK i \in DOMAIN sorted : /\ NextAt(i, sorted, mods)
                                 /\ deployed' = Append(deployed, sorted[i])
                                 /\ pos' = i + 1
    BY <1>4 DEF DeployNext
  <2>2. phase = "deploy" /\ phase' = "deploy"
          /\ modules' = modules /\ mods' = mods /\ sorted' = sorted
    BY <1>4 DEF DeployNext
  <2>3. sorted \in Seq(DOMAIN deps) /\ pos \in Nat \ {0}
    BY <2>2 DEF SortType
  <2>4. sorted[i] \in mods /\ \A j \in pos .. i - 1 : sorted[j] \notin mods
    BY <2>1 DEF NextAt
  <2>5. Passed' \cap mods = (Passed \cap mods) \cup {sorted[i]}
    BY <2>1, <2>2, <2>3, <2>4 DEF Passed, NextAt
  <2>6. Range(deployed') = Range(deployed) \cup {sorted[i]}
        /\ deployed' \in Seq(mods)
    BY <2>1, <2>4, AppendRange
  <2> QED
    BY <2>1, <2>2, <2>3, <2>5, <2>6
<1>5. CASE DeployDone
  <2>1. phase = "deploy" /\ phase' = "done"
          /\ modules' = modules /\ mods' = mods
        /\ deployed' = deployed /\ Left' = Left /\ PassOver(sorted, mods)
    BY <1>5 DEF DeployDone, Left
  <2>2. Left = {} /\ mods \subseteq DOMAIN deps
    BY <2>1 DEF PassInv, AddedInv
  <2>3. ASSUME NEW n \in mods PROVE n \in Passed
    <3>1. n \in Range(sorted)
      BY <2>2, <2>3 DEF Left
    <3>2. PICK i \in DOMAIN sorted : sorted[i] = n
      BY <3>1 DEF Range
    <3>3. i \in 1 .. Len(sorted) /\ pos \in Nat
      BY <2>1 DEF SortType
    <3>4. i < pos
      BY <2>1, <2>3, <3>2, <3>3 DEF PassOver
    <3> QED
      BY <3>2, <3>4 DEF Passed
  <2> QED
    BY <2>1, <2>2, <2>3
<1>6. CASE Finished \/ UNCHANGED vars
  BY <1>6 DEF Finished, vars, Passed, Left
<1> QED
  BY <1>1, <1>2, <1>3, <1>4, <1>5, <1>6 DEF Next

(* Whatever the modules declare and whichever are selected, all selected   *)
(* ones are deployed when the sort succeeds, and none of them when the     *)
(* declarations are circular.                                              *)
THEOREM AllOrNothingCorrect == Spec => []AllOrNothingDeployed
<1>1. Init => AddedInv /\ DeployedInv
  BY InitSelection DEF Init, DeployedInv
<1>2. RespectInv /\ PassInv /\ AddedInv /\ DeployedInv /\ [Next]_vars
        => AddedInv' /\ DeployedInv'
  BY AddedStep, DeployedStep DEF RespectInv
<1>3. DeployedInv /\ GivesUpOnlyOnCycle => AllOrNothingDeployed
  BY DEF DeployedInv, AllOrNothingDeployed
<1> QED
  BY <1>1, <1>2, <1>3, SortInvariant, PassInvariant, PTL DEF Spec

-----------------------------------------------------------------------------
(* While a module's calls of add are made, what $dependencies holds for a  *)
(* name is what the last module before pos has recorded for it, unless a   *)
(* call for this name is still to be made.                                 *)
PendingInv ==
  /\ adds \in Seq(Range(adds))
  /\ adds # <<>> =>
       /\ pos \in Nat /\ pos - 1 \in DOMAIN modules /\ modules[pos - 1] \in mods
       /\ \A k \in DOMAIN adds :
            /\ adds[k].node \in Range(Before[Alias[modules[pos - 1]]])
            /\ adds[k].deps = {modules[pos - 1]}

Pending(n) == \E k \in DOMAIN adds : adds[k].node = n

RecordInv ==
  \A n : \A a \in DOMAIN modules :
    LastRecord(a, pos, n) /\ ~ Pending(n)
      => n \in DOMAIN deps /\ deps[n] = Record(a, n)

(* DropMissing then takes away only what has not been added.               *)
AddInv == /\ phase = "add" => PendingInv /\ RecordInv
          /\ phase # "add" =>
               \A n \in DOMAIN deps : Recorded(n) \cap DOMAIN deps \subseteq deps[n]

(* A function on 1 .. n is a sequence.                                     *)
LEMMA FunctionIsSequence ==
  ASSUME NEW n \in Nat, NEW f, f = [k \in 1 .. n |-> f[k]]
  PROVE  f \in Seq(Range(f))
<1>1. \A k \in 1 .. n : f[k] \in Range(f)
  BY DEF Range
<1> QED
  BY <1>1

LEMMA RecordsStep ==
  ASSUME PassInv, AddedInv, AddInv, AddModule
  PROVE  AddInv'
<1>1. PICK i \in DOMAIN modules :
        /\ NextAt(i, modules, mods)
        /\ Add(modules[i], After[Alias[modules[i]]])
        /\ adds' = Waiting(modules[i])
        /\ pos' = i + 1
  BY DEF AddModule
<1> DEFINE r == modules[i]
           w == Before[Alias[r]]
<1>2. /\ phase = "add" /\ phase' = "add" /\ adds = <<>>
      /\ modules' = modules /\ mods' = mods
      /\ pos \in Nat /\ RecordInv
  BY DEF AddModule, PassInv, AddInv
<1>3. /\ modules \in Seq(ModuleNames) /\ i \in 1 .. Len(modules)
      /\ DOMAIN modules = 1 .. Len(modules) /\ Len(modules) \in Nat
      /\ r \in mods /\ r \in ModuleNames /\ Alias[r] \in Instances
  BY <1>1 DEF AddedInv, NextAt, Instances, ModuleNames, Range
<1>4. w \in Seq(Range(w))
  BY <1>3, BeforeAssumption
<1>5. /\ DOMAIN adds' = DOMAIN w
      /\ \A k \in DOMAIN w : adds'[k] = [node |-> w[k], deps |-> {r}]
      /\ adds' = [k \in DOMAIN w |-> [node |-> w[k], deps |-> {r}]]
  BY <1>1 DEF Waiting
<1>6. PendingInv'
  <2>1. adds' \in Seq(Range(adds'))
    <3>1. DOMAIN adds' = 1 .. Len(w) /\ Len(w) \in Nat
      BY <1>4, <1>5
    <3>2. adds' = [k \in 1 .. Len(w) |-> adds'[k]]
      BY <1>5, <3>1
    <3> QED
      BY <3>1, <3>2, FunctionIsSequence
  <2>2. \A k \in DOMAIN adds' : adds'[k].node \in Range(w) /\ adds'[k].deps = {r}
    BY <1>5 DEF Range
  <2>3. pos' - 1 = i /\ pos' \in Nat
    BY <1>1, <1>3
  <2> QED
    BY <1>2, <1>3, <2>1, <2>2, <2>3 DEF PendingInv
<1>7. ASSUME NEW n, NEW a \in DOMAIN modules, LastRecord(a, pos, n)', ~ Pending(n)'
      PROVE  n \in DOMAIN deps' /\ deps'[n] = Record(a, n)
  <2>1. n \notin Range(w)
    <3> SUFFICES ASSUME NEW k \in DOMAIN w, w[k] = n PROVE FALSE
      BY DEF Range
    <3> QED
      BY <1>5, <1>7 DEF Pending
  <2>2. a \in 1 .. Len(modules) /\ a <= i /\ Records(a, n)
        /\ \A b \in DOMAIN modules : a < b /\ b <= i => ~ Records(b, n)
    BY <1>1, <1>2, <1>3, <1>7 DEF LastRecord, Records
  <2>3. /\ DOMAIN deps' = DOMAIN deps \cup {r}
        /\ \A m \in DOMAIN deps' : deps'[m] = IF m = r THEN After[Alias[r]] ELSE deps[m]
    BY <1>1 DEF Add
  <2>4. CASE a = i
    BY <2>1, <2>2, <2>3, <2>4 DEF Records, Record
  <2>5. CASE a < i
    <3>1. n # r
      BY <1>3, <2>2, <2>5 DEF Records
    <3>2. a < pos
      <4> SUFFICES ASSUME ~ (a < pos) PROVE FALSE
        OBVIOUS
      <4>1. a \in pos .. i - 1
        BY <1>2, <1>3, <2>2, <2>5
      <4> QED
        BY <1>1, <2>2, <4>1 DEF NextAt, Records
    <3>3. LastRecord(a, pos, n)
      BY <1>1, <1>2, <1>3, <2>2, <3>2 DEF LastRecord, NextAt
    <3>4. ~ Pending(n)
      BY <1>2 DEF Pending
    <3>5. n \in DOMAIN deps /\ deps[n] = Record(a, n)
      BY <1>2, <3>3, <3>4 DEF RecordInv
    <3> QED
      BY <2>3, <3>1, <3>5
  <2> QED
    BY <1>3, <2>2, <2>4, <2>5
<1>8. RecordInv'
  <2>1. DOMAIN modules' = DOMAIN modules /\ \A a, n : Record(a, n)' = Record(a, n)
    BY <1>2 DEF Record
  <2> QED
    BY <1>7, <2>1 DEF RecordInv
<1> QED
  BY <1>2, <1>6, <1>8 DEF AddInv

LEMMA WaitingStep ==
  ASSUME PassInv, AddedInv, AddInv, AddWaiting
  PROVE  AddInv'
<1> DEFINE h == Head(adds)
           c == pos - 1
           r == modules[c]
<1>1. /\ phase = "add" /\ phase' = "add" /\ adds # <<>>
      /\ modules' = modules /\ mods' = mods /\ pos' = pos
      /\ Add(h.node, h.deps) /\ adds' = Tail(adds)
      /\ PendingInv /\ RecordInv /\ adds \in Seq(Range(adds))
  BY DEF AddWaiting, AddInv, PendingInv
<1>2. /\ c \in DOMAIN modules /\ r \in mods /\ pos \in Nat /\ c + 1 = pos
      /\ h.node \in Range(Before[Alias[r]]) /\ h.deps = {r} /\ h = adds[1]
      /\ DOMAIN adds = 1 .. Len(adds) /\ Len(adds) \in Nat \ {0}
  <2>1. 1 \in DOMAIN adds /\ h = adds[1]
    BY <1>1
  <2>2. pos \in Nat /\ c \in DOMAIN modules /\ r \in mods
    BY <1>1 DEF PendingInv
  <2>3. adds[1].node \in Range(Before[Alias[r]]) /\ adds[1].deps = {r}
    BY <1>1, <2>1 DEF PendingInv
  <2> QED
    BY <1>1, <2>1, <2>2, <2>3
<1>3. /\ DOMAIN adds' = 1 .. Len(adds) - 1
      /\ \A k \in 1 .. Len(adds) - 1 : adds'[k] = adds[k + 1]
  BY <1>1, <1>2
<1>4. PendingInv'
  <2>1. adds' \in Seq(Range(adds'))
    <3>1. Len(adds') = Len(adds) - 1
      BY <1>1, <1>2
    <3>2. \A k \in DOMAIN adds' : adds'[k] \in Range(adds')
      BY DEF Range
    <3>3. adds' \in Seq(Range(adds))
      BY <1>1
    <3> QED
      BY <1>3, <3>1, <3>2, <3>3
  <2> QED
    BY <1>1, <1>2, <1>3, <2>1 DEF PendingInv
<1>5. /\ DOMAIN deps' = DOMAIN deps \cup {h.node}
      /\ \A m \in DOMAIN deps' : deps'[m] = IF m = h.node THEN {r} ELSE deps[m]
  BY <1>1, <1>2 DEF Add
<1>6. ASSUME NEW n, NEW a \in DOMAIN modules, LastRecord(a, pos, n)', ~ Pending(n)'
      PROVE  n \in DOMAIN deps' /\ deps'[n] = Record(a, n)
  <2>1. LastRecord(a, pos, n)
    BY <1>1, <1>6 DEF LastRecord, Records
  <2>2. CASE n = h.node
    <3>1. Records(c, n)
      BY <1>2, <2>2 DEF Records
    <3>2. a \in Nat /\ c \in Nat
      BY <1>2 DEF AddedInv
    <3>3. a = c
      BY <1>2, <2>1, <3>1, <3>2 DEF LastRecord
    <3> QED
      BY <1>2, <1>5, <2>2, <3>3 DEF Record
  <2>3. CASE n # h.node
    <3>1. ASSUME NEW k \in DOMAIN adds, adds[k].node = n PROVE FALSE
      <4>1. k # 1
        BY <1>2, <2>3, <3>1
      <4>2. k - 1 \in 1 .. Len(adds) - 1 /\ (k - 1) + 1 = k
        BY <1>2, <4>1
      <4> QED
        BY <1>3, <1>6, <3>1, <4>2 DEF Pending
    <3>2. ~ Pending(n)
      BY <3>1 DEF Pending
    <3> QED
      BY <1>1, <1>5, <2>1, <2>3, <3>2 DEF RecordInv
  <2> QED
    BY <2>2, <2>3
<1>7. RecordInv'
  <2>1. DOMAIN modules' = DOMAIN modules /\ \A a, n : Record(a, n)' = Record(a, n)
    BY <1>1 DEF Record
  <2> QED
    BY <1>6, <2>1 DEF RecordInv
<1> QED
  BY <1>1, <1>4, <1>7 DEF AddInv

LEMMA DropStep ==
  ASSUME PassInv, AddedInv, AddInv, DropMissing
  PROVE  AddInv'
<1>1. /\ phase = "add" /\ phase' = "sort" /\ adds = <<>>
      /\ modules' = modules /\ mods' = mods
      /\ PassOver(modules, mods) /\ RecordInv /\ pos \in Nat
      /\ deps' = [n \in DOMAIN deps |-> deps[n] \cap DOMAIN deps]
  BY DEF DropMissing, AllAdded, AddInv, PassInv
<1>2. DOMAIN modules = 1 .. Len(modules) /\ Len(modules) \in Nat
  BY DEF AddedInv
<1>3. ASSUME NEW n, NEW a, LastRecord(a, Len(modules) + 1, n)
      PROVE  n \in DOMAIN deps /\ deps[n] = Record(a, n)
  <2>1. a \in DOMAIN modules /\ Records(a, n)
    BY <1>3 DEF LastRecord
  <2>2. a < pos
    BY <1>1, <1>2, <2>1 DEF PassOver, Records
  <2>3. LastRecord(a, pos, n)
    BY <1>1, <1>2, <1>3, <2>1, <2>2 DEF LastRecord
  <2>4. ~ Pending(n)
    BY <1>1 DEF Pending
  <2> QED
    BY <1>1, <2>1, <2>3, <2>4 DEF RecordInv
<1>4. ASSUME NEW n \in DOMAIN deps PROVE Recorded(n) \subseteq deps[n]
  BY <1>3 DEF Recorded
<1>5. \A n : Recorded(n)' = Recorded(n)
  BY <1>1 DEF Recorded, LastRecord, Record, Records
<1> QED
  BY <1>1, <1>4, <1>5 DEF AddInv

(* What $dependencies holds is what the calls of add have recorded last.   *)
LEMMA RecordInvariant == Spec => []AddInv
<1>1. Init => AddInv
  <2> SUFFICES ASSUME Init PROVE AddInv
    OBVIOUS
  <2>1. phase = "add" /\ adds = <<>> /\ pos = 1
    BY DEF Init
  <2>2. PendingInv
    BY <2>1 DEF PendingInv
  <2>3. RecordInv
    BY <2>1, InitSelection DEF RecordInv, LastRecord
  <2> QED
    BY <2>1, <2>2, <2>3 DEF AddInv
<1>2. PassInv /\ AddedInv /\ AddInv /\ [Next]_vars => AddInv'
  <2> SUFFICES ASSUME PassInv, AddedInv, AddInv, [Next]_vars PROVE AddInv'
    OBVIOUS
  <2>1. CASE AddModule
    BY <2>1, RecordsStep
  <2>2. CASE AddWaiting
    BY <2>2, WaitingStep
  <2>3. CASE DropMissing
    BY <2>3, DropStep
  <2>4. CASE Visit \/ NextPass \/ SortDone \/ SortFails \/ DeployNext
               \/ DeployDone
    <3>1. phase # "add" /\ phase' # "add" /\ deps' = deps
            /\ modules' = modules /\ mods' = mods
      BY <2>4 DEF Visit, NextPass, SortDone, SortFails, DeployNext, DeployDone
    <3>2. \A n : Recorded(n)' = Recorded(n)
      BY <3>1 DEF Recorded, LastRecord, Record, Records
    <3> QED
      BY <3>1, <3>2 DEF AddInv
  <2>5. CASE Finished \/ UNCHANGED vars
    <3>1. UNCHANGED vars
      BY <2>5 DEF Finished
    <3>2. \A n : Recorded(n)' = Recorded(n)
      BY <3>1 DEF vars, Recorded, LastRecord, Record, Records
    <3>3. PendingInv' = PendingInv
      BY <3>1 DEF vars, PendingInv
    <3>4. RecordInv' = RecordInv
      BY <3>1, SMT DEF vars, RecordInv, LastRecord, Records, Record, Pending
    <3> QED
      BY <3>1, <3>2, <3>3, <3>4 DEF vars, AddInv
  <2> QED
    BY <2>1, <2>2, <2>3, <2>4, <2>5 DEF Next
<1>3. Init => AddedInv
  BY InitSelection
<1>4. RespectInv /\ PassInv /\ AddedInv /\ [Next]_vars => AddedInv'
  BY AddedStep DEF RespectInv
<1> QED
  BY <1>1, <1>2, <1>3, <1>4, SortInvariant, PassInvariant, PTL DEF Spec

(* No name is deployed twice, and a deployed one comes after the selected  *)
(* names that are sorted before it.                                        *)
PlacedInv ==
  /\ \A i \in DOMAIN deployed : deployed[i] \notin Earlier(deployed, i)
  /\ \A i \in DOMAIN deployed, q \in DOMAIN sorted :
       sorted[q] = deployed[i] => Earlier(sorted, q) \cap mods \subseteq Earlier(deployed, i)

LEMMA PlacedStep ==
  ASSUME RespectInv, DeployedInv, PlacedInv, [Next]_vars
  PROVE  PlacedInv'
<1> USE DEF PlacedInv
<1>1. CASE AddModule \/ AddWaiting \/ DropMissing \/ Visit \/ NextPass
           \/ SortDone \/ SortFails
  <2>1. deployed = <<>> /\ deployed' = <<>>
    BY <1>1 DEF DeployedInv, AddModule, AddWaiting, DropMissing, AllAdded, Visit,
       NextPass, SortDone, SortFails
  <2> QED
    BY <2>1
<1>2. CASE DeployNext
  <2>1. PICK i \in DOMAIN sorted : /\ NextAt(i, sorted, mods)
                                 /\ deployed' = Append(deployed, sorted[i])
    BY <1>2 DEF DeployNext
  <2> DEFINE e == sorted[i]
             l == Len(deployed) + 1
  <2>2. /\ phase = "deploy"
        /\ modules' = modules /\ mods' = mods /\ sorted' = sorted
        /\ deployed \in Seq(mods) /\ Range(deployed) = Passed \cap mods
        /\ pos \in Nat \ {0}
    BY <1>2 DEF DeployNext, DeployedInv
  <2>3. /\ sorted \in Seq(DOMAIN deps) /\ DOMAIN sorted = 1 .. Len(sorted)
        /\ Len(sorted) \in Nat
        /\ \A q \in DOMAIN sorted : sorted[q] \notin Earlier(sorted, q)
    BY <2>2 DEF RespectInv, SortType, SortedRespectsDeps
  <2>4. /\ e \in mods /\ pos <= i /\ i \in DOMAIN sorted
        /\ \A j \in pos .. i - 1 : sorted[j] \notin mods
    BY <2>1, <2>2, <2>3 DEF NextAt
  <2>5. ASSUME NEW q \in DOMAIN sorted, sorted[q] = e PROVE q = i
    BY <2>3, <2>4, <2>5 DEF Earlier
  <2>6. Earlier(sorted, i) \cap mods = Range(deployed)
    <3>1. ASSUME NEW q \in 1 .. i - 1, sorted[q] \in mods PROVE q < pos /\ q \in DOMAIN sorted
      BY <2>2, <2>3, <2>4, <3>1
    <3>2. ASSUME NEW q \in DOMAIN sorted, q < pos PROVE q \in 1 .. i - 1
      BY <2>2, <2>3, <2>4, <3>2
    <3> QED
      BY <2>2, <3>1, <3>2 DEF Earlier, Passed
  <2>7. e \notin Range(deployed)
    BY <2>3, <2>4, <2>6
  <2>8. /\ DOMAIN deployed' = DOMAIN deployed \cup {l} /\ deployed'[l] = e
        /\ Earlier(deployed', l) = Range(deployed)
        /\ \A k \in DOMAIN deployed : /\ deployed'[k] = deployed[k]
                                     /\ Earlier(deployed', k) = Earlier(deployed, k)
    <3>1. deployed' = Append(deployed, e) /\ deployed \in Seq(mods) /\ e \in mods
      BY <2>1, <2>2, <2>4
    <3> HIDE DEF e
    <3>2. DOMAIN deployed' = DOMAIN deployed \cup {l} /\ deployed'[l] = e
      BY <3>1
    <3> QED
      BY <3>1, <3>2, AppendRange
  <2> HIDE DEF e, l
  <2>9. \A k \in DOMAIN deployed' : deployed'[k] \notin Earlier(deployed', k)
    BY <2>7, <2>8
  <2>10. ASSUME NEW k \in DOMAIN deployed', NEW q \in DOMAIN sorted,
               sorted[q] = deployed'[k]
        PROVE  Earlier(sorted, q) \cap mods \subseteq Earlier(deployed', k)
    <3>1. CASE k = l
      BY <2>5, <2>6, <2>8, <2>10, <3>1
    <3>2. CASE k \in DOMAIN deployed
      BY <2>8, <2>10, <3>2
    <3> QED
      BY <2>8, <3>1, <3>2
  <2> QED
    BY <2>2, <2>9, <2>10 DEF Earlier
<1>3. CASE DeployDone \/ Finished \/ UNCHANGED vars
  BY <1>3 DEF DeployDone, Finished, vars, Earlier
<1> QED
  BY <1>1, <1>2, <1>3 DEF Next

(* A name that comes earlier in deployed has an earlier place.             *)
LEMMA EarlierPlace ==
  ASSUME NEW S, deployed \in Seq(S), PlacedInv,
         NEW i \in DOMAIN deployed, NEW j \in DOMAIN deployed,
         deployed[j] \in Earlier(deployed, i)
  PROVE  j < i
<1>1. DOMAIN deployed = 1 .. Len(deployed) /\ Len(deployed) \in Nat
  OBVIOUS
<1>2. PICK k \in 1 .. i - 1 : deployed[k] = deployed[j]
  BY DEF Earlier
<1>3. SUFFICES ASSUME k < j PROVE FALSE
  BY <1>1, <1>2
<1>4. deployed[j] \in Earlier(deployed, j)
  BY <1>1, <1>2, <1>3 DEF Earlier
<1> QED
  BY <1>4 DEF PlacedInv

(* When modules have been deployed, all selected ones have, each of them   *)
(* after those that are recorded for it.                                   *)
LEMMA RecordedEarlier ==
  ASSUME RespectInv, AddedInv, AddInv, DeployedInv, PlacedInv, phase = "done",
         NEW i \in DOMAIN deployed
  PROVE  /\ Range(deployed) = mods /\ deployed[i] \in mods
         /\ Recorded(deployed[i]) \cap mods \subseteq Earlier(deployed, i)
<1> DEFINE n == deployed[i]
<1>1. n \in Range(deployed) /\ n \in mods
  BY DEF Range, DeployedInv
<1>2. Range(deployed) = mods /\ Left = {} /\ mods \subseteq DOMAIN deps
  BY <1>1 DEF DeployedInv, AddedInv
<1>3. PICK q \in DOMAIN sorted : sorted[q] = n
  BY <1>1, <1>2 DEF Left, Range
<1>4. deps[n] \subseteq Earlier(sorted, q)
  BY <1>3 DEF RespectInv, SortedRespectsDeps
<1>5. Recorded(n) \cap mods \subseteq deps[n]
  BY <1>1, <1>2 DEF AddInv
<1>6. Earlier(sorted, q) \cap mods \subseteq Earlier(deployed, i)
  BY <1>3 DEF PlacedInv
<1> QED
  BY <1>1, <1>2, <1>4, <1>5, <1>6

(* A module is deployed after all that it waits for, at once or through    *)
(* other selected modules.                                                 *)
LEMMA AwaitedEarlier ==
  ASSUME RespectInv, AddedInv, AddInv, DeployedInv, PlacedInv, phase = "done",
         NEW i \in DOMAIN deployed
  PROVE  Awaited(deployed[i]) \subseteq Earlier(deployed, i)
<1> DEFINE S == Earlier(deployed, i)
<1>1. /\ DOMAIN deployed = 1 .. Len(deployed) /\ Len(deployed) \in Nat
      /\ \A k \in DOMAIN deployed : deployed[k] \in mods
  BY DEF DeployedInv
<1>2. S \subseteq mods
  BY <1>1 DEF Earlier
<1>3. ASSUME NEW n \in S \cup {deployed[i]} PROVE Recorded(n) \cap mods \subseteq S
  <2>1. PICK k \in 1 .. i : deployed[k] = n
    BY <1>1, <1>3 DEF Earlier
  <2>2. k \in DOMAIN deployed /\ Earlier(deployed, k) \subseteq S
    BY <1>1, <2>1 DEF Earlier
  <2> QED
    BY <2>1, <2>2, RecordedEarlier
<1> HIDE DEF S
<1>4. S \in SUBSET mods /\ \A k \in S \cup {deployed[i]} : Recorded(k) \cap mods \subseteq S
  BY <1>2, <1>3
<1>5. Awaited(deployed[i]) \subseteq S
  BY <1>4 DEF Awaited
<1> QED
  BY <1>5 DEF S

LEMMA PlacedInvariant ==
  Spec => [](RespectInv /\ AddedInv /\ AddInv /\ DeployedInv /\ PlacedInv)
<1>1. Init => AddedInv /\ DeployedInv /\ PlacedInv
  BY InitSelection DEF Init, DeployedInv, PlacedInv
<1>2. RespectInv /\ PassInv /\ AddedInv /\ DeployedInv /\ PlacedInv /\ [Next]_vars
        => AddedInv' /\ DeployedInv' /\ PlacedInv'
  BY AddedStep, DeployedStep, PlacedStep DEF RespectInv
<1> QED
  BY <1>1, <1>2, SortInvariant, PassInvariant, RecordInvariant, PTL DEF Spec

(* Whatever the modules declare and whichever are selected, a module is    *)
(* deployed after the selected ones that add recorded for it last: an      *)
(* entry of $dependencies that replaced another one is all that is lost.   *)
THEOREM RecordedCorrect == Spec => []RecordedOrder
<1>1. RespectInv /\ AddedInv /\ AddInv /\ DeployedInv /\ PlacedInv => RecordedOrder
  <2> SUFFICES ASSUME RespectInv, AddedInv, AddInv, DeployedInv, PlacedInv,
                      phase = "done",
                      NEW i \in DOMAIN deployed, NEW j \in DOMAIN deployed,
                      deployed[j] \in Recorded(deployed[i])
               PROVE  j < i
    BY DEF RecordedOrder
  <2>1. deployed \in Seq(mods) /\ deployed[j] \in mods
    BY DEF DeployedInv
  <2>2. deployed[j] \in Earlier(deployed, i)
    BY <2>1, RecordedEarlier
  <2> QED
    BY <2>1, <2>2, EarlierPlace
<1> QED
  BY <1>1, PlacedInvariant, PTL

(* The order of deployment is the one the modules declare, for every table *)
(* and every selection of which the calls of add lose nothing: what they   *)
(* replace is implied by what they record instead.                         *)
THEOREM DeclaredCorrect == Spec => [](NothingLost => DeclaredOrder)
<1>1. RespectInv /\ AddedInv /\ AddInv /\ DeployedInv /\ PlacedInv
        => (NothingLost => DeclaredOrder)
  <2> SUFFICES ASSUME RespectInv, AddedInv, AddInv, DeployedInv, PlacedInv,
                      NothingLost, phase = "done",
                      NEW i \in DOMAIN deployed, NEW j \in DOMAIN deployed,
                      Declared(deployed[j], deployed[i])
               PROVE  j < i
    BY DEF DeclaredOrder
  <2>1. deployed \in Seq(mods) /\ deployed[j] \in mods /\ deployed[i] \in mods
    BY DEF DeployedInv
  <2>2. deployed[j] \in Awaited(deployed[i])
    BY <2>1 DEF NothingLost
  <2>3. deployed[j] \in Earlier(deployed, i)
    BY <2>2, AwaitedEarlier
  <2> QED
    BY <2>1, <2>3, EarlierPlace
<1> QED
  BY <1>1, PlacedInvariant, PTL
=============================================================================
