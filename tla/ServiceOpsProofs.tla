-------------------------- MODULE ServiceOpsProofs --------------------------
(***************************************************************************)
(* For trees of any size and any configurations: the selection shown at a  *)
(* node is that of its children; and for any number of commands: what is   *)
(* cleaned up is no service of the configuration that the cleanup has       *)
(* loaded, and what is carried out and reported is what was shown.          *)
(***************************************************************************)
EXTENDS ServiceOps, FiniteSetTheorems, WellFoundedInduction, TLAPS

(* The tree.                                                                *)

Shows(m, n, c) == Children(n, c) # {} => (n \in m <=> Children(n, c) \subseteq m)

LEMMA ParentIs ==
  ASSUME NEW c \in Config, NEW n \in Nodes(c)
  PROVE  /\ n \in Zone => Parent(n) = None
         /\ n \in Server => Parent(n) \in Zone
         /\ n \in c => Parent(n) \in Server
         /\ Parent(n) # n /\ None \notin Nodes(c)
BY ServiceAssumption DEF Nodes, Parent

\* A node that follows its children shows them, and only its parent may differ.
LEMMA FollowsShows ==
  ASSUME NEW c \in Config, NEW m, NEW p \in Nodes(c)
  PROVE  /\ Shows(Follows(m, p, c), p, c)
         /\ \A k \in Nodes(c) : k # p /\ k # Parent(p) /\ Shows(m, k, c)
              => Shows(Follows(m, p, c), k, c)
<1>1. p \notin Children(p, c)
  BY ParentIs DEF Children
<1>2. Shows(Follows(m, p, c), p, c)
  BY <1>1 DEF Shows, Follows
<1>3. ASSUME NEW k \in Nodes(c), k # p, k # Parent(p), Shows(m, k, c)
      PROVE  Shows(Follows(m, p, c), k, c)
  <2>1. p \notin Children(k, c)
    BY <1>3 DEF Children
  <2> QED
    BY <1>3, <2>1 DEF Shows, Follows
<1> QED
  BY <1>2, <1>3

\* Once the ancestors of a node have followed, every node shows its children.
LEMMA ParentsFollow ==
  ASSUME NEW c \in Config, NEW m \in SUBSET Nodes(c), NEW n \in Nodes(c),
         \A k \in Nodes(c) : k # Parent(n) => Shows(m, k, c)
  PROVE  /\ UpdateParentSelection(m, n, c) \subseteq Nodes(c)
         /\ \A k \in Nodes(c) : Shows(UpdateParentSelection(m, n, c), k, c)
<1> DEFINE p == Parent(n)
           once == Follows(m, p, c)
           all == UpdateParentSelection(m, n, c)
<1>1. CASE p = None
  <2>1. all = m
    BY <1>1 DEF UpdateParentSelection
  <2>2. None \notin Nodes(c)
    BY ParentIs
  <2> QED
    BY <1>1, <2>1, <2>2
<1>2. CASE p \in Nodes(c) /\ Parent(p) = None
  <2>1. all = once
    BY <1>2, ParentIs DEF UpdateParentSelection
  <2>2. once \subseteq Nodes(c)
    BY <1>2 DEF Follows
  <2>3. None \notin Nodes(c)
    BY ParentIs
  <2> QED
    BY <1>2, <2>1, <2>2, <2>3, FollowsShows
<1>3. CASE p \in Nodes(c) /\ Parent(p) \in Zone
  <2> DEFINE z == Parent(p)
  <2>1. z \in Nodes(c) /\ z # None /\ p # None
    BY <1>3, ParentIs DEF Nodes
  <2>2. all = Follows(once, z, c)
    BY <2>1 DEF UpdateParentSelection
  <2>3. Parent(z) \notin Nodes(c)
    BY <1>3, <2>1, ParentIs
  <2>4. \A k \in Nodes(c) : k # z => Shows(once, k, c)
    BY <1>3, FollowsShows
  <2>5. all \subseteq Nodes(c)
    BY <1>3, <2>1, <2>2 DEF Follows
  <2> HIDE DEF once, all
  <2>6. \A k \in Nodes(c) : Shows(Follows(once, z, c), k, c)
    BY <2>1, <2>3, <2>4, FollowsShows
  <2> QED
    BY <2>2, <2>5, <2>6 DEF all
<1>4. \/ p = None
      \/ p \in Nodes(c) /\ (Parent(p) = None \/ Parent(p) \in Zone)
  <2>1. \A k \in Zone \cup Server : k \in Nodes(c)
    BY DEF Nodes
  <2>2. \A k \in Server : Parent(k) \in Zone
    BY <2>1, ParentIs
  <2>3. \A k \in Zone : Parent(k) = None
    BY <2>1, ParentIs
  <2>4. n \in Zone \/ n \in Server \/ n \in c
    BY DEF Nodes
  <2> QED
    BY <2>1, <2>2, <2>3, <2>4, ParentIs
<1> QED
  BY <1>1, <1>2, <1>3, <1>4

\* What is selected or not with everything below it differs for its parent only.
LEMMA BelowShows ==
  ASSUME NEW c \in Config, NEW m \in SUBSET Nodes(c), NEW n \in Nodes(c),
         NEW selected \in BOOLEAN, \A k \in Nodes(c) : Shows(m, k, c)
  PROVE  /\ SelectRecursive(m, n, selected, c) \subseteq Nodes(c)
         /\ \A k \in Nodes(c) : k # Parent(n) =>
              Shows(SelectRecursive(m, n, selected, c), k, c)
<1> DEFINE B == Below(n, c)
           r == SelectRecursive(m, n, selected, c)
<1>1. n \in B /\ B \subseteq Nodes(c)
  BY DEF Below, Children
<1>2. \A k \in B : Children(k, c) \subseteq B
  <2> SUFFICES ASSUME NEW k \in B, NEW x \in Children(k, c) PROVE x \in B
    OBVIOUS
  <2>1. CASE k = n
    BY <2>1 DEF Below
  <2>2. CASE k \in Children(n, c)
    BY <2>2 DEF Below
  <2>3. CASE k # n /\ k \notin Children(n, c)
    <3>1. PICK y \in Children(n, c) : k \in Children(y, c)
      BY <2>3 DEF Below
    <3>2. /\ x \in Nodes(c) /\ k \in Nodes(c) /\ y \in Nodes(c)
          /\ Parent(x) = k /\ Parent(k) = y /\ Parent(y) = n
      BY <3>1 DEF Children
    <3>3. \A u \in Nodes(c) : Parent(u) \in Nodes(c) => Parent(u) \in Zone \cup Server
      BY ParentIs DEF Nodes
    <3>4. k \in Server /\ y \in Zone
      BY <3>2, <3>3, ParentIs, ServiceAssumption
    <3> QED
      BY <1>1, <3>2, <3>4, ParentIs
  <2> QED
    BY <2>1, <2>2, <2>3
<1>3. \A k \in Nodes(c) \ B : k # Parent(n) => Children(k, c) \cap B = {}
  BY DEF Below, Children
<1>4. ASSUME NEW k \in Nodes(c), k # Parent(n) PROVE Shows(r, k, c)
  <2>1. CASE k \in B
    BY <1>2, <2>1 DEF SelectRecursive, Shows
  <2>2. CASE k \notin B
    BY <1>3, <1>4, <2>2 DEF SelectRecursive, Shows
  <2> QED
    BY <2>1, <2>2
<1> QED
  BY <1>1, <1>4 DEF SelectRecursive

TreeInv ==
  /\ config \in Config /\ loaded \in Config /\ marked \subseteq Nodes(loaded)
  /\ ParentsShowChildren

LEMMA ShownIs == ParentsShowChildren <=> \A n \in Nodes(loaded) : Shows(marked, n, loaded)
BY DEF ParentsShowChildren, Shows

LEMMA NothingMarked == ASSUME NEW c PROVE \A n \in Nodes(c) : Shows({}, n, c)
BY DEF Shows

LEMMA TreeInit == Init => TreeInv
BY DEF Init, TreeInv, ParentsShowChildren

LEMMA TreeStep == TreeInv /\ [Next]_vars => TreeInv'
<1> SUFFICES ASSUME TreeInv, [Next]_vars PROVE TreeInv'
  OBVIOUS
<1> USE DEF screen, hosts, plan, work
<1>t. /\ config \in Config /\ loaded \in Config /\ marked \subseteq Nodes(loaded)
      /\ \A n \in Nodes(loaded) : Shows(marked, n, loaded)
  BY ShownIs DEF TreeInv
<1>a. ASSUME UNCHANGED <<config, loaded>>,
             marked' \subseteq Nodes(loaded),
             \A n \in Nodes(loaded) : Shows(marked', n, loaded)
      PROVE  TreeInv'
  BY <1>t, <1>a DEF TreeInv, ParentsShowChildren, Shows
<1>b. ASSUME config' \in Config, loaded' \in Config, marked' = {} PROVE TreeInv'
  BY <1>b DEF TreeInv, ParentsShowChildren
<1>c. ASSUME config' \in Config, UNCHANGED <<loaded, marked>> PROVE TreeInv'
  BY <1>c DEF TreeInv, ParentsShowChildren, Children, Nodes
<1>1. ASSUME NEW n \in Nodes(loaded), Space(n) PROVE TreeInv'
  <2> DEFINE m == IF n \in marked THEN marked \ {n} ELSE marked \cup {n}
  <2>1. /\ UNCHANGED <<config, loaded>> /\ Children(n, loaded) = {}
        /\ marked' = UpdateParentSelection(m, n, loaded)
    BY <1>1 DEF Space, UnchangedButMarks
  <2>2. m \in SUBSET Nodes(loaded)
    BY <1>t
  <2>3. ASSUME NEW k \in Nodes(loaded), k # Parent(n) PROVE Shows(m, k, loaded)
    <3>1. n \notin Children(k, loaded)
      BY <2>3 DEF Children
    <3>2. Shows(marked, k, loaded)
      BY <1>t
    <3> QED
      BY <2>1, <3>1, <3>2 DEF Shows
  <2> HIDE DEF m
  <2> QED
    BY <1>a, <1>t, <2>1, <2>2, <2>3, ParentsFollow
<1>2. ASSUME NEW n \in Nodes(loaded), NEW selected \in BOOLEAN, SelectCurrent(n, selected)
      PROVE  TreeInv'
  <2> DEFINE m == SelectRecursive(marked, n, selected, loaded)
  <2>1. UNCHANGED <<config, loaded>> /\ marked' = UpdateParentSelection(m, n, loaded)
    BY <1>2 DEF SelectCurrent, UnchangedButMarks
  <2>2. /\ m \in SUBSET Nodes(loaded)
        /\ \A k \in Nodes(loaded) : k # Parent(n) => Shows(m, k, loaded)
    BY <1>t, BelowShows
  <2> HIDE DEF m
  <2> QED
    BY <1>a, <1>t, <2>1, <2>2, ParentsFollow
<1>3. ASSUME NEW selected \in BOOLEAN, SelectAll(selected) PROVE TreeInv'
  <2>1. UNCHANGED <<config, loaded>> /\ marked' \in {Nodes(loaded), {}}
    BY <1>3 DEF SelectAll, UnchangedButMarks
  <2>2. \A n \in Nodes(loaded) : Shows(Nodes(loaded), n, loaded)
    BY DEF Shows, Children
  <2> QED
    BY <1>a, <2>1, <2>2, NothingMarked
<1>4. CASE Refresh \/ \E o \in {"stop", "restart"} : OpenServices(o)
  BY <1>4, <1>t, <1>b DEF Refresh, OpenServices
<1>5. CASE \/ OpenCleanup \/ Ask \/ Confirm \/ Back
           \/ \E k \in {0} \cup 0..(CountItems(found[Tui]) - 1) : Tick(k)
  BY <1>5, <1>t, <1>c DEF OpenCleanup, Ask, Confirm, Back, Tick
<1>6. ASSUME NEW a \in Actor, Step(a) PROVE TreeInv'
  <2>1. UNCHANGED <<config, loaded, marked>>
    BY <1>6 DEF Step, RunService, RunCleanup, Approve, ScanServer, ScanFails, ScanDone,
                Connect, Run, Finish, Leave
  <2> QED
    BY <1>t, <1>c, <2>1
<1>7. CASE EditConfig \/ \E s \in Service : DeployElsewhere(s)
  BY <1>7, <1>t, <1>c DEF EditConfig, DeployElsewhere
<1>8. CASE UNCHANGED vars
  BY <1>8, <1>t, <1>c DEF vars
<1> QED
  BY <1>1, <1>2, <1>3, <1>4, <1>5, <1>6, <1>7, <1>8 DEF Next, Key, Mark

\* After any sequence of keys a node of the tree, with children, is selected
\* exactly when all its children are.
THEOREM SelectionIsShown == Spec => []ParentsShowChildren
<1>1. TreeInv => ParentsShowChildren
  BY DEF TreeInv
<1> QED
  BY <1>1, TreeInit, TreeStep, PTL DEF Spec
-----------------------------------------------------------------------------
(* The cleanup.                                                             *)

Cleans == {"cleanup", "clean"}
Orphan(c) == {r \in Resource : IsOrphan(r, c)}
OrphanTask(c) == Server \X {"container", "dir"} \X Orphan(c)
OrphanResult(c) == [server : Server, containers : Seq(Orphan(c)), dirs : Seq(Orphan(c))]
OrphanVisit(c) == [tasks : SUBSET OrphanTask(c), items : SUBSET OrphanTask(c)]

LEMMA HeadAndTail ==
  ASSUME NEW S, NEW q \in Seq(S), q # <<>> PROVE Head(q) \in S /\ Tail(q) \in Seq(S)
OBVIOUS

LEMMA ListOfSet ==
  ASSUME NEW S, NEW T \in SUBSET S, IsFiniteSet(S)
  PROVE  SetToSeq(T) \in Seq(S)
<1>1. Cardinality(T) \in Nat /\ ExistsBijection(1..Cardinality(T), T)
  BY FS_Subset, FS_CardinalityType
<1>2. \E f \in [1..Cardinality(T) -> T] : IsInjective(f)
  BY <1>1 DEF ExistsBijection, Bijection, Injection
<1>3. SetToSeq(T) \in [1..Cardinality(T) -> T]
  BY <1>2 DEF SetToSeq
<1>4. SetToSeq(T) \in [1..Cardinality(T) -> S]
  BY <1>3
<1> QED
  BY <1>1, <1>4

LEMMA ScanFindsOrphans ==
  ASSUME NEW v \in Server, NEW c PROVE OrphansAt(v, c) \in OrphanResult(c)
<1>1. IsFiniteSet(Orphan(c))
  BY ServiceAssumption, FS_Subset DEF Orphan
<1>2. /\ {r \in Resource : <<v, r>> \in containers /\ IsOrphan(r, c)} \in SUBSET Orphan(c)
      /\ {r \in Resource : <<v, r>> \in dirs /\ IsOrphan(r, c)} \in SUBSET Orphan(c)
  BY DEF Orphan
<1> QED
  BY <1>1, <1>2, ListOfSet DEF OrphansAt, OrphanResult

LEMMA InRange ==
  ASSUME NEW r, Len(r.containers) \in Nat, Len(r.dirs) \in Nat, NEW k \in 0..(Size(r) - 1)
  PROVE  k \in Nat /\ k <= Len(r.containers) + Len(r.dirs) - 1
<1> DEFINE x == Len(r.containers)
           y == Len(r.dirs)
<1>1. Size(r) = x + y
  BY DEF Size
<1> HIDE DEF x, y
<1>2. x \in Nat /\ y \in Nat
  BY DEF x, y
<1>3. k \in Nat /\ k <= x + y - 1
  BY <1>1, <1>2
<1> QED
  BY <1>3 DEF x, y

LEMMA ItemsAreOrphans ==
  ASSUME NEW c, NEW result \in OrphanResult(c)
  PROVE  /\ \A k \in 0..(Size(result) - 1) : ItemOf(result, k) \in OrphanTask(c)
         /\ Items(result) \subseteq OrphanTask(c)
<1>1. /\ result.server \in Server
      /\ result.containers \in Seq(Orphan(c)) /\ result.dirs \in Seq(Orphan(c))
  BY DEF OrphanResult
<1>2. ASSUME NEW k \in 0..(Size(result) - 1) PROVE ItemOf(result, k) \in OrphanTask(c)
  <2>1. CASE k < Len(result.containers)
    <3>1. k + 1 \in DOMAIN result.containers
      BY <1>1, <1>2, <2>1
    <3>2. result.containers[k + 1] \in Orphan(c)
      BY <1>1, <3>1
    <3> QED
      BY <1>1, <2>1, <3>2 DEF ItemOf, OrphanTask
  <2>2. CASE ~(k < Len(result.containers))
    <3> DEFINE j == k + 1 - Len(result.containers)
    <3>1. /\ Len(result.containers) \in Nat /\ Len(result.dirs) \in Nat
          /\ DOMAIN result.dirs = 1..Len(result.dirs)
      BY <1>1
    <3>2. j \in 1..Len(result.dirs)
      <4>1. \A x, y, l \in Nat : l <= x + y - 1 /\ ~(l < x) => l + 1 - x \in 1..y
        OBVIOUS
      <4>2. k \in Nat /\ k <= Len(result.containers) + Len(result.dirs) - 1
        BY <1>2, <3>1, InRange
      <4> QED
        BY <2>2, <3>1, <4>1, <4>2
    <3>3. ItemOf(result, k) = <<result.server, "dir", result.dirs[j]>>
      BY <2>2 DEF ItemOf
    <3> HIDE DEF j
    <3>4. result.dirs[j] \in Orphan(c)
      BY <1>1, <3>1, <3>2
    <3> QED
      BY <1>1, <3>3, <3>4 DEF OrphanTask
  <2> QED
    BY <2>1, <2>2
<1> QED
  BY <1>2 DEF Items

LEMMA VisitsToOrphans ==
  ASSUME NEW c, NEW results \in Seq(OrphanResult(c))
  PROVE  OrphanVisits(results) \in Seq(OrphanVisit(c))
<1>1. \A i \in DOMAIN results : results[i] \in OrphanResult(c)
  OBVIOUS
<1>2. \A i \in DOMAIN results :
        Visit(Items(results[i]), Items(results[i])) \in OrphanVisit(c)
  BY <1>1, ItemsAreOrphans DEF Visit, OrphanVisit
<1> QED
  BY <1>2 DEF OrphanVisits

-----------------------------------------------------------------------------
\* What holds of the operation o, phase, basis, orphans found, visits and tasks of
\* one actor.
Fine(o, ph, b, f, v, h) ==
  /\ ph # "work" => h = {}
  /\ ph \in {"idle", "scan"} => v = <<>>
  /\ ph = "idle" => f = <<>>
  /\ ph # "idle" => o \in Cleans \cup {"stop", "restart"}
  /\ f \in Seq(OrphanResult(b))
  /\ o \in Cleans => h \subseteq OrphanTask(b) /\ v \in Seq(OrphanVisit(b))

CleanInv ==
  /\ DOMAIN op = Actor /\ DOMAIN phase = Actor /\ DOMAIN basis = Actor
  /\ DOMAIN found = Actor /\ DOMAIN visits = Actor /\ DOMAIN here = Actor
  /\ op[Tui] = "clean" => phase[Tui] = "idle"
  /\ \A a \in Actor : Fine(op[a], phase[a], basis[a], found[a], visits[a], here[a])

\* The servers to be scanned are servers, and so are those that hold anything.
ScanInv ==
  /\ loads \in Nat
  /\ DOMAIN toScan = Actor /\ \A a \in Actor : toScan[a] \in Seq(Server)
  /\ containers \cup dirs \subseteq Server \X Resource

LEMMA FineEmpty ==
  ASSUME NEW o, NEW ph, NEW b, ph # "idle" => o \in Cleans \cup {"stop", "restart"}
  PROVE  Fine(o, ph, b, <<>>, <<>>, {})
<1>1. <<>> \in Seq(OrphanResult(b)) /\ <<>> \in Seq(OrphanVisit(b))
  OBVIOUS
<1> QED
  BY <1>1 DEF Fine

LEMMA CleanInit == Init => CleanInv
<1> SUFFICES ASSUME Init PROVE CleanInv
  OBVIOUS
<1>1. ASSUME NEW a \in Actor
      PROVE  /\ op[a] = None /\ phase[a] = "idle" /\ basis[a] = {}
             /\ found[a] = <<>> /\ visits[a] = <<>> /\ here[a] = {}
  BY DEF Init
<1>2. ASSUME NEW a \in Actor
      PROVE  Fine(op[a], phase[a], basis[a], found[a], visits[a], here[a])
  BY <1>1, FineEmpty
<1>3. Tui \in Actor
  BY DEF Actor
<1>4. /\ DOMAIN op = Actor /\ DOMAIN phase = Actor /\ DOMAIN basis = Actor
      /\ DOMAIN found = Actor /\ DOMAIN visits = Actor /\ DOMAIN here = Actor
  BY DEF Init
<1> QED
  BY <1>1, <1>2, <1>3, <1>4 DEF CleanInv

\* A step of one actor.
Only(a, f, g) == DOMAIN g = Actor /\ \A b \in Actor \ {a} : g[b] = f[b]
StepOf(a) ==
  /\ Only(a, op, op') /\ Only(a, phase, phase') /\ Only(a, basis, basis')
  /\ Only(a, found, found') /\ Only(a, visits, visits') /\ Only(a, here, here')

LEMMA Changed ==
  ASSUME NEW a \in Actor, NEW f, DOMAIN f = Actor
  PROVE  /\ Only(a, f, f)
         /\ \A x : Only(a, f, [f EXCEPT ![a] = x]) /\ [f EXCEPT ![a] = x][a] = x
BY DEF Only

LEMMA ActorStep ==
  ASSUME CleanInv, NEW a \in Actor, StepOf(a),
         a = Tui /\ op'[a] = "clean" => phase'[a] = "idle",
         Fine(op'[a], phase'[a], basis'[a], found'[a], visits'[a], here'[a])
  PROVE  CleanInv'
<1>1. ASSUME NEW b \in Actor
      PROVE  Fine(op'[b], phase'[b], basis'[b], found'[b], visits'[b], here'[b])
  <2>1. CASE b = a
    BY <2>1
  <2>2. CASE b # a
    BY <2>2 DEF CleanInv, Only, StepOf
  <2> QED
    BY <2>1, <2>2
<1>2. op'[Tui] = "clean" => phase'[Tui] = "idle"
  BY DEF CleanInv, Only, StepOf, Actor
<1> QED
  BY <1>1, <1>2 DEF CleanInv, Only, StepOf

\* Nothing that the invariant is about.
LEMMA NoStep ==
  ASSUME CleanInv, UNCHANGED <<op, phase, basis, found, visits, here>> PROVE CleanInv'
BY DEF CleanInv

LEMMA AtRest ==
  ASSUME CleanInv, NEW a \in Actor, phase[a] = "idle"
  PROVE  found[a] = <<>> /\ visits[a] = <<>> /\ here[a] = {}
BY DEF CleanInv, Fine

LEMMA NewJob ==
  ASSUME CleanInv, NEW a \in Actor, phase[a] = "idle", UNCHANGED <<found, here>>, StepOf(a),
         \/ op'[a] \in {"stop", "restart"} /\ phase'[a] \in {"select", "confirm"}
         \/ /\ op'[a] \in Cleans /\ (a = Tui => op'[a] = "cleanup")
            /\ phase'[a] = "scan" /\ UNCHANGED visits
  PROVE  CleanInv'
<1>1. found'[a] = <<>> /\ visits[a] = <<>> /\ here'[a] = {}
  BY AtRest
<1>2. Fine(op'[a], phase'[a], basis'[a], found'[a], visits'[a], here'[a])
  <2>1. CASE visits'[a] = <<>>
    BY <1>1, <2>1, FineEmpty
  <2>2. CASE op'[a] \in {"stop", "restart"} /\ phase'[a] \in {"select", "confirm"}
    <3>1. <<>> \in Seq(OrphanResult(basis'[a]))
      OBVIOUS
    <3> QED
      BY <1>1, <2>2, <3>1 DEF Fine, Cleans
  <2> QED
    BY <1>1, <2>1, <2>2
<1> QED
  BY <1>2, ActorStep DEF Cleans

\* A cleanup or "clean" begins: its orphans are asked for at some servers.
LEMMA CleanupBegins ==
  ASSUME NEW a, RunCleanup(a)
  PROVE  \E o \in Cleans, w \in SUBSET Server :
           /\ a \in Command /\ Starts(a)
           /\ o = "clean" => w = Server
           /\ op' = [op EXCEPT ![a] = o] /\ phase' = [phase EXCEPT ![a] = "scan"]
           /\ basis' = [basis EXCEPT ![a] = config]
           /\ asked' = [asked EXCEPT ![a] = Orphans(w, config)]
           /\ UNCHANGED <<config, containers, up, dirs, loads, found, visits, here, targets,
                         touched, answers, changes, failures>>
<1>1. PICK request \in {<<"clean", Server>>} \cup
                       {"cleanup"} \X ({Server} \cup {{v} : v \in Server}) :
        /\ op' = [op EXCEPT ![a] = request[1]]
        /\ asked' = [asked EXCEPT ![a] = Orphans(request[2], config)]
  BY DEF RunCleanup
<1>2. /\ a \in Command /\ Starts(a) /\ phase' = [phase EXCEPT ![a] = "scan"]
      /\ basis' = [basis EXCEPT ![a] = config]
      /\ UNCHANGED <<config, containers, up, dirs, loads, found, visits, here, targets,
                    touched, answers, changes, failures>>
  BY DEF RunCleanup, Goto, hosts, screen
<1>3. /\ request[1] \in Cleans /\ request[2] \in SUBSET Server
      /\ request[1] = "clean" => request[2] = Server
  BY DEF Cleans
<1> QED
  BY <1>1, <1>2, <1>3


LEMMA ToJob ==
  ASSUME CleanInv,
         \/ OpenCleanup \/ \E o \in {"stop", "restart"} : OpenServices(o)
         \/ \E a \in Actor : RunService(a) \/ RunCleanup(a)
  PROVE  CleanInv'
<1> USE DEF Starts, Goto, work
<1>t. Tui \in Actor /\ \A a \in Command : a \in Actor /\ a # Tui
  BY ServiceAssumption DEF Actor
<1>1. CASE OpenCleanup
  <2>1. /\ phase[Tui] = "idle" /\ UNCHANGED <<found, here, visits>>
        /\ op' = [op EXCEPT ![Tui] = "cleanup"] /\ phase' = [phase EXCEPT ![Tui] = "scan"]
        /\ basis' = [basis EXCEPT ![Tui] = loaded]
    BY <1>1 DEF OpenCleanup
  <2>2. StepOf(Tui) /\ op'[Tui] = "cleanup" /\ phase'[Tui] = "scan"
    BY <1>t, <2>1, Changed DEF CleanInv, StepOf
  <2> QED
    BY <1>t, <2>1, <2>2, NewJob DEF Cleans
<1>2. ASSUME NEW o \in {"stop", "restart"}, OpenServices(o) PROVE CleanInv'
  <2>1. /\ phase[Tui] = "idle" /\ UNCHANGED <<found, here, visits, basis>>
        /\ op' = [op EXCEPT ![Tui] = o] /\ phase' = [phase EXCEPT ![Tui] = "select"]
    BY <1>2 DEF OpenServices
  <2>2. StepOf(Tui) /\ op'[Tui] = o /\ phase'[Tui] = "select"
    BY <1>t, <2>1, Changed DEF CleanInv, StepOf
  <2> QED
    BY <1>t, <2>1, <2>2, NewJob
<1>3. ASSUME NEW a \in Actor, RunService(a) PROVE CleanInv'
  <2>1. PICK o \in {"stop", "restart"} :
          /\ phase[a] = "idle" /\ UNCHANGED <<found, here>>
          /\ op' = [op EXCEPT ![a] = o] /\ phase' = [phase EXCEPT ![a] = "confirm"]
          /\ basis' = [basis EXCEPT ![a] = config]
          /\ \E v : visits' = [visits EXCEPT ![a] = v]
    BY <1>3 DEF RunService
  <2>2. StepOf(a) /\ op'[a] = o /\ phase'[a] = "confirm"
    <3>1. Only(a, visits, visits')
      BY <2>1 DEF CleanInv, Only
    <3> QED
      BY <2>1, <3>1, Changed DEF CleanInv, StepOf
  <2> QED
    BY <2>1, <2>2, NewJob
<1>4. ASSUME NEW a \in Actor, RunCleanup(a) PROVE CleanInv'
  <2>1. PICK o \in Cleans :
          /\ phase[a] = "idle" /\ UNCHANGED <<found, here, visits>>
          /\ op' = [op EXCEPT ![a] = o] /\ phase' = [phase EXCEPT ![a] = "scan"]
          /\ basis' = [basis EXCEPT ![a] = config]
    BY <1>4, CleanupBegins
  <2>2. StepOf(a) /\ op'[a] = o /\ phase'[a] = "scan"
    BY <2>1, Changed DEF CleanInv, StepOf
  <2>3. a # Tui
    BY <1>4, <1>t DEF RunCleanup
  <2> QED
    BY <2>1, <2>2, <2>3, NewJob
<1> QED
  BY <1>1, <1>2, <1>3, <1>4

\* What is known of an actor that is not at rest, and how it comes to be again.
LEMMA OnTheWay ==
  ASSUME CleanInv, NEW a \in Actor, phase[a] # "idle", StepOf(a), UNCHANGED <<op, basis>>,
         Fine(op[a], phase'[a], basis[a], found'[a], visits'[a], here'[a])
  PROVE  CleanInv'
<1>1. ~(a = Tui /\ op'[a] = "clean")
  BY DEF CleanInv
<1>2. Fine(op'[a], phase'[a], basis'[a], found'[a], visits'[a], here'[a])
  OBVIOUS
<1> QED
  BY <1>1, <1>2, ActorStep

LEMMA FineNow ==
  ASSUME CleanInv, NEW a \in Actor
  PROVE  Fine(op[a], phase[a], basis[a], found[a], visits[a], here[a])
BY DEF CleanInv

LEMMA ToScan ==
  ASSUME CleanInv, ScanInv, NEW a \in Actor,
         ScanServer(a) \/ ScanFails(a) \/ ScanDone(a)
  PROVE  CleanInv'
<1> USE DEF Goto, work
<1>f. /\ found[a] \in Seq(OrphanResult(basis[a])) /\ visits[a] = <<>>
      /\ here[a] = {} /\ op[a] \in Cleans \cup {"stop", "restart"} /\ phase[a] = "scan"
  BY FineNow DEF Fine, ScanServer, ScanFails, ScanDone
<1>1. CASE ScanServer(a)
  <2> DEFINE result == OrphansAt(Head(toScan[a]), basis[a])
  <2>1. result \in OrphanResult(basis[a])
    BY <1>1, ScanFindsOrphans, HeadAndTail DEF ScanServer, ScanInv
  <2>2. UNCHANGED <<op, basis, here>>
    BY <1>1 DEF ScanServer
  <2>3. \/ UNCHANGED <<found, phase, visits>>
        \/ /\ found' = [found EXCEPT ![a] = Append(found[a], result)]
           /\ UNCHANGED <<phase, visits>>
        \/ /\ visits' = [visits EXCEPT ![a] = OrphanVisits(<<result>>)]
           /\ phase' = [phase EXCEPT ![a] = "work"] /\ UNCHANGED found
    BY <1>1 DEF ScanServer
  <2>4. OrphanVisits(<<result>>) \in Seq(OrphanVisit(basis[a]))
    <3>1. <<result>> \in Seq(OrphanResult(basis[a]))
      BY <2>1
    <3> HIDE DEF result
    <3> QED
      BY <3>1, VisitsToOrphans
  <2>5. Append(found[a], result) \in Seq(OrphanResult(basis[a]))
    BY <1>f, <2>1
  <2> HIDE DEF result
  <2>6. StepOf(a)
    <3>1. Only(a, op, op') /\ Only(a, basis, basis') /\ Only(a, here, here')
      BY <2>2, Changed DEF CleanInv
    <3>2. Only(a, found, found')
      BY <2>3 DEF CleanInv, Only
    <3>3. Only(a, phase, phase')
      BY <2>3 DEF CleanInv, Only
    <3>4. Only(a, visits, visits')
      BY <2>3, Changed DEF CleanInv
    <3> QED
      BY <3>1, <3>2, <3>3, <3>4 DEF StepOf
  <2>7. \/ found'[a] = found[a] /\ phase'[a] = "scan" /\ visits'[a] = <<>>
        \/ /\ found'[a] = Append(found[a], result)
           /\ phase'[a] = "scan" /\ visits'[a] = <<>>
        \/ /\ found'[a] = found[a] /\ phase'[a] = "work"
           /\ visits'[a] = OrphanVisits(<<result>>)
    BY <1>f, <2>3, Changed DEF CleanInv
  <2>8. Fine(op[a], phase'[a], basis[a], found'[a], visits'[a], here'[a])
    <3>1. here'[a] = {}
      BY <1>f, <2>2
    <3>2. CASE phase'[a] = "scan" /\ visits'[a] = <<>>
      <4>1. found'[a] \in Seq(OrphanResult(basis[a]))
        BY <1>f, <2>5, <2>7
      <4>2. <<>> \in Seq(OrphanVisit(basis[a]))
        OBVIOUS
      <4> QED
        BY <1>f, <3>1, <3>2, <4>1, <4>2 DEF Fine
    <3>3. CASE /\ phase'[a] = "work" /\ found'[a] = found[a]
               /\ visits'[a] = OrphanVisits(<<result>>)
      BY <1>f, <2>4, <3>1, <3>3 DEF Fine
    <3> QED
      BY <2>7, <3>2, <3>3
  <2> QED
    BY <1>f, <2>2, <2>6, <2>8, OnTheWay
<1>2. CASE ScanFails(a)
  <2>1. CASE op[a] = "clean"
    <3>1. UNCHANGED <<op, phase, basis, found, visits, here>>
      BY <1>2, <2>1 DEF ScanFails
    <3> QED
      BY <3>1, NoStep
  <2>2. CASE op[a] # "clean"
    <3>1. /\ found' = [found EXCEPT ![a] = <<>>] /\ phase' = [phase EXCEPT ![a] = "idle"]
          /\ op' = [op EXCEPT ![a] = None] /\ UNCHANGED <<basis, visits, here>>
      BY <1>2, <2>2 DEF ScanFails
    <3>2. StepOf(a) /\ found'[a] = <<>> /\ phase'[a] = "idle"
      BY <3>1, Changed DEF CleanInv, StepOf
    <3>3. Fine(op'[a], phase'[a], basis'[a], found'[a], visits'[a], here'[a])
      BY <1>f, <3>1, <3>2, FineEmpty
    <3> QED
      BY <3>2, <3>3, ActorStep
  <2> QED
    BY <2>1, <2>2
<1>3. CASE ScanDone(a)
  <2>1. UNCHANGED <<op, basis, found, here>>
    BY <1>3 DEF ScanDone
  <2>2. \E p \in {"list", "over", "confirm"} : phase' = [phase EXCEPT ![a] = p]
    BY <1>3 DEF ScanDone
  <2>3. \/ UNCHANGED visits
        \/ visits' = [visits EXCEPT ![a] = OrphanVisits(found[a])]
    BY <1>3 DEF ScanDone
  <2>4. OrphanVisits(found[a]) \in Seq(OrphanVisit(basis[a]))
    BY <1>f, VisitsToOrphans
  <2>5. /\ StepOf(a) /\ phase'[a] \in {"list", "over", "confirm"}
        /\ visits'[a] \in Seq(OrphanVisit(basis[a]))
    <3>1. StepOf(a)
      <4>1. /\ Only(a, op, op') /\ Only(a, basis, basis')
            /\ Only(a, found, found') /\ Only(a, here, here')
        BY <2>1, Changed DEF CleanInv
      <4>2. Only(a, phase, phase')
        BY <2>2 DEF CleanInv, Only
      <4>3. Only(a, visits, visits')
        BY <2>3, Changed DEF CleanInv
      <4> QED
        BY <4>1, <4>2, <4>3 DEF StepOf
    <3>2. phase'[a] \in {"list", "over", "confirm"}
      BY <2>2, Changed DEF CleanInv
    <3>3. visits'[a] \in {<<>>, OrphanVisits(found[a])}
      BY <1>f, <2>3, Changed DEF CleanInv
    <3>4. <<>> \in Seq(OrphanVisit(basis[a]))
      OBVIOUS
    <3> QED
      BY <2>4, <3>1, <3>2, <3>3, <3>4
  <2>6. Fine(op[a], phase'[a], basis[a], found'[a], visits'[a], here'[a])
    BY <1>f, <2>1, <2>5 DEF Fine
  <2> QED
    BY <1>f, <2>1, <2>5, <2>6, OnTheWay
<1> QED
  BY <1>1, <1>2, <1>3
LEMMA ToWork ==
  ASSUME CleanInv,
         \/ Ask \/ Confirm \/ Back
         \/ \E a \in Actor : Approve(a) \/ Connect(a) \/ Run(a) \/ Finish(a) \/ Leave(a)
  PROVE  CleanInv'
<1> USE DEF Goto, work, plan
<1>t. Tui \in Actor /\ \A a \in Command : a \in Actor
  BY DEF Actor
<1>1. ASSUME NEW a \in Actor, NEW p, p \notin {"idle", "scan", "work"},
             phase[a] \notin {"idle", "scan", "work"},
             phase' = [phase EXCEPT ![a] = p], UNCHANGED <<op, basis, found, visits, here>>
      PROVE  CleanInv'
  <2>1. StepOf(a) /\ phase'[a] = p
    BY <1>1, Changed DEF CleanInv, StepOf
  <2>2. Fine(op[a], p, basis[a], found[a], visits[a], here[a])
    BY <1>1, FineNow DEF Fine
  <2> QED
    BY <1>1, <2>1, <2>2, OnTheWay
<1>2. CASE Ask
  <2>1. /\ phase[Tui] \in {"select", "list"} /\ phase' = [phase EXCEPT ![Tui] = "confirm"]
        /\ UNCHANGED <<op, basis, found, visits, here>>
    BY <1>2 DEF Ask, Selecting
  <2> QED
    BY <1>t, <1>1, <2>1
<1>3. CASE Back
  <2>1. PICK p \in {"list", "select"} :
          /\ phase[Tui] = "confirm" /\ phase' = [phase EXCEPT ![Tui] = p]
          /\ UNCHANGED <<op, basis, found, visits, here>>
    BY <1>3 DEF Back
  <2> QED
    BY <1>t, <1>1, <2>1
<1>4. CASE Confirm
  <2>1. /\ phase[Tui] = "confirm" /\ phase' = [phase EXCEPT ![Tui] = "work"]
        /\ UNCHANGED <<op, basis, found, here>>
    BY <1>4 DEF Confirm
  <2>2. \/ op[Tui] = "cleanup" /\ visits' = [visits EXCEPT ![Tui] = TickedVisits]
        \/ op[Tui] # "cleanup" /\ visits' = [visits EXCEPT ![Tui] = MarkedVisits]
    BY <1>4 DEF Confirm
  <2>3. Fine(op[Tui], phase[Tui], basis[Tui], found[Tui], visits[Tui], here[Tui])
    BY <1>t, FineNow
  <2>4. found[Tui] \in Seq(OrphanResult(basis[Tui])) /\ here[Tui] = {}
    BY <2>1, <2>3 DEF Fine
  <2>5. TickedVisits \in Seq(OrphanVisit(basis[Tui]))
    <3>1. ASSUME NEW i \in DOMAIN found[Tui]
          PROVE  Visit(TickedItems(i), Items(found[Tui][i])) \in OrphanVisit(basis[Tui])
      <4>1. found[Tui][i] \in OrphanResult(basis[Tui])
        BY <2>4, <3>1
      <4>2. TickedItems(i) \subseteq OrphanTask(basis[Tui])
        BY <4>1, ItemsAreOrphans DEF TickedItems
      <4>3. Items(found[Tui][i]) \subseteq OrphanTask(basis[Tui])
        BY <4>1, ItemsAreOrphans
      <4> QED
        BY <4>2, <4>3 DEF Visit, OrphanVisit
    <3> QED
      BY <2>4, <3>1 DEF TickedVisits
  <2>6. op[Tui] # "clean"
    BY <2>1 DEF CleanInv
  <2>7. StepOf(Tui) /\ phase'[Tui] = "work" /\ here'[Tui] = {} /\ found'[Tui] = found[Tui]
    <3>1. Only(Tui, visits, visits')
      BY <1>t, <2>2 DEF CleanInv, Only
    <3> QED
      BY <1>t, <2>1, <2>4, <3>1, Changed DEF CleanInv, StepOf
  <2>8. op[Tui] \in Cleans => visits'[Tui] \in Seq(OrphanVisit(basis[Tui]))
    BY <1>t, <2>2, <2>5, <2>6 DEF Cleans, CleanInv
  <2>9. Fine(op[Tui], phase'[Tui], basis[Tui], found'[Tui], visits'[Tui], here'[Tui])
    BY <2>1, <2>3, <2>7, <2>8 DEF Fine
  <2> QED
    BY <1>t, <2>1, <2>7, <2>9, OnTheWay
<1>5. ASSUME NEW a \in Actor, Approve(a) PROVE CleanInv'
  <2>1. /\ phase[a] = "confirm" /\ phase' = [phase EXCEPT ![a] = "work"]
        /\ UNCHANGED <<op, basis, found, visits, here>>
    BY <1>5 DEF Approve
  <2>2. StepOf(a) /\ phase'[a] = "work"
    BY <2>1, Changed DEF CleanInv, StepOf
  <2>3. Fine(op[a], "work", basis[a], found[a], visits[a], here[a])
    BY <2>1, FineNow DEF Fine
  <2> QED
    BY <2>1, <2>2, <2>3, OnTheWay
<1>6. ASSUME NEW a \in Actor, Connect(a) PROVE CleanInv'
  <2>1. PICK h :
          /\ phase[a] = "work" /\ visits[a] # <<>>
          /\ visits' = [visits EXCEPT ![a] = Tail(visits[a])]
          /\ here' = [here EXCEPT ![a] = h]
          /\ h \in {Head(visits[a]).tasks, {}}
          /\ UNCHANGED <<op, basis, found, phase>>
    BY <1>6 DEF Connect
  <2>2. /\ StepOf(a) /\ here'[a] = h /\ visits'[a] = Tail(visits[a])
        /\ phase'[a] = "work" /\ found'[a] = found[a]
    BY <2>1, Changed DEF CleanInv, StepOf
  <2>3. ASSUME visits[a] \in Seq(OrphanVisit(basis[a]))
        PROVE  /\ Head(visits[a]) \in OrphanVisit(basis[a])
               /\ Tail(visits[a]) \in Seq(OrphanVisit(basis[a]))
    BY <2>1, <2>3, HeadAndTail
  <2>4. op[a] \in Cleans =>
          h \subseteq OrphanTask(basis[a]) /\ Tail(visits[a]) \in Seq(OrphanVisit(basis[a]))
    <3> SUFFICES ASSUME op[a] \in Cleans
                 PROVE  /\ h \subseteq OrphanTask(basis[a])
                        /\ Tail(visits[a]) \in Seq(OrphanVisit(basis[a]))
      OBVIOUS
    <3>1. visits[a] \in Seq(OrphanVisit(basis[a]))
      BY FineNow DEF Fine
    <3>2. Head(visits[a]).tasks \subseteq OrphanTask(basis[a])
      BY <2>3, <3>1 DEF OrphanVisit
    <3> QED
      BY <2>1, <2>3, <3>1, <3>2
  <2>5. Fine(op[a], "work", basis[a], found[a], Tail(visits[a]), h)
    BY <2>1, <2>4, FineNow DEF Fine
  <2> QED
    BY <2>1, <2>2, <2>5, OnTheWay
<1>7. ASSUME NEW a \in Actor, Run(a) PROVE CleanInv'
  <2>1. PICK t :
          /\ phase[a] = "work" /\ here' = [here EXCEPT ![a] = here[a] \ {t}]
          /\ UNCHANGED <<op, basis, found, visits, phase>>
    BY <1>7 DEF Run
  <2>2. StepOf(a) /\ here'[a] = here[a] \ {t}
    BY <2>1, Changed DEF CleanInv, StepOf
  <2>3. Fine(op[a], "work", basis[a], found[a], visits[a], here[a] \ {t})
    BY <2>1, FineNow DEF Fine
  <2> QED
    BY <2>1, <2>2, <2>3, OnTheWay
<1>8. ASSUME NEW a \in Actor, Finish(a) PROVE CleanInv'
  <2>1. PICK p \in {"scan", "over"} :
          /\ phase[a] = "work" /\ visits[a] = <<>> /\ here[a] = {}
          /\ phase' = [phase EXCEPT ![a] = p]
          /\ UNCHANGED <<op, basis, found, visits, here>>
    BY <1>8 DEF Finish
  <2>2. StepOf(a) /\ phase'[a] = p
    BY <2>1, Changed DEF CleanInv, StepOf
  <2>3. Fine(op[a], p, basis[a], found[a], visits[a], here[a])
    BY <2>1, FineNow DEF Fine
  <2> QED
    BY <2>1, <2>2, <2>3, OnTheWay
<1>9. ASSUME NEW a \in Actor, Leave(a) PROVE CleanInv'
  <2>1. /\ phase[a] \in {"over", "select", "list", "confirm"}
        /\ phase' = [phase EXCEPT ![a] = "idle"] /\ op' = [op EXCEPT ![a] = None]
        /\ found' = [found EXCEPT ![a] = <<>>] /\ visits' = [visits EXCEPT ![a] = <<>>]
        /\ basis' = [basis EXCEPT ![a] = {}] /\ UNCHANGED here
    BY <1>9 DEF Leave
  <2>2. StepOf(a)
    BY <2>1, Changed DEF CleanInv, StepOf
  <2>3. /\ phase'[a] = "idle" /\ found'[a] = <<>> /\ visits'[a] = <<>> /\ here'[a] = {}
    BY <2>1, Changed, FineNow DEF CleanInv, Fine
  <2>4. Fine(op'[a], phase'[a], basis'[a], found'[a], visits'[a], here'[a])
    BY <2>3, FineEmpty
  <2> QED
    BY <2>2, <2>3, <2>4, ActorStep
<1> QED
  BY <1>2, <1>3, <1>4, <1>5, <1>6, <1>7, <1>8, <1>9
-----------------------------------------------------------------------------
LEMMA ServerListIs == ASSUME NEW k \in Nat PROVE ServerList(k) \in Seq(Server)
<1> DEFINE list == SetToSeq(Server)
           n == Len(list)
<1>1. list \in Seq(Server)
  BY ServiceAssumption, ListOfSet
<1>2. n \in Nat /\ \A i \in 1..n : list[i] \in Server
  BY <1>1
<1> HIDE DEF list, n
<1>3. k * n \in Nat
  BY <1>2
<1>4. ASSUME NEW i \in 1..(k * n) PROVE ((i - 1) % n) + 1 \in 1..n
  <2>1. n # 0
    BY <1>2, <1>4
  <2>2. i - 1 \in Nat
    BY <1>3, <1>4
  <2>3. (i - 1) % n \in 0..(n - 1)
    BY <1>2, <2>1, <2>2
  <2> QED
    BY <1>2, <2>3
<1>5. [i \in 1..(k * n) |-> list[((i - 1) % n) + 1]] \in Seq(Server)
  BY <1>2, <1>3, <1>4
<1> QED
  BY <1>5 DEF ServerList, list, n

LEMMA ScanInit == Init => ScanInv
<1> SUFFICES ASSUME Init PROVE ScanInv
  OBVIOUS
<1>1. \A s \in Service : At(s) \in Server \X Resource
  BY ServiceAssumption DEF At
<1>2. config \subseteq Service
  BY ServiceAssumption DEF Init
<1>3. \A what : Foreign(what) \subseteq Server \X Resource
  BY ServiceAssumption DEF Foreign
<1>4. containers \cup dirs \subseteq Server \X Resource
  BY <1>1, <1>2, <1>3 DEF Init
<1>5. /\ loads \in Nat
      /\ DOMAIN toScan = Actor /\ \A a \in Actor : toScan[a] \in Seq(Server)
  BY DEF Init
<1> QED
  BY <1>4, <1>5 DEF ScanInv

\* Only a cleanup at work removes anything, and only what it holds for an orphan.
LEMMA RunRemoves ==
  ASSUME CleanInv, ScanInv, NEW a \in Actor, Run(a)
  PROVE  /\ containers' \subseteq containers /\ dirs' \subseteq dirs
         /\ \A x \in (containers \ containers') \cup (dirs \ dirs') :
              /\ op[a] \in Cleans /\ phase[a] = "work"
              /\ x[1] \in Server /\ x[2] \in Orphan(basis[a])
<1>1. PICK t \in here[a] :
        UNCHANGED hosts \/ Perform(op[a], t)
  BY DEF Run
<1>2. phase[a] = "work" /\ op[a] \in Cleans \cup {"stop", "restart"}
  BY FineNow DEF Run, Fine
<1>3. CASE UNCHANGED hosts
  BY <1>3 DEF hosts
<1>4. CASE Perform(op[a], t) /\ op[a] \in {"stop", "restart"}
  <2>1. UNCHANGED <<containers, dirs>>
    BY <1>4 DEF Perform
  <2> QED
    BY <2>1
<1>5. CASE Perform(op[a], t) /\ op[a] \in Cleans
  <2>1. t \in OrphanTask(basis[a])
    BY <1>1, <1>5, FineNow DEF Fine
  <2>2. t[2] \in {"container", "dir"} /\ t[1] \in Server /\ t[3] \in Orphan(basis[a])
    BY <2>1 DEF OrphanTask
  <2>3. op[a] # "stop" /\ op[a] # "restart"
    BY <1>5 DEF Cleans
  <2>4. CASE t[2] = "container"
    <3>1. containers' = containers \ {<<t[1], t[3]>>} /\ UNCHANGED dirs
      BY <1>5, <2>3, <2>4 DEF Perform, Cleans
    <3> QED
      BY <1>2, <1>5, <2>2, <3>1
  <2>5. CASE t[2] = "dir"
    <3>1. dirs' = dirs \ {<<t[1], t[3]>>} /\ UNCHANGED containers
      BY <1>5, <2>3, <2>5 DEF Perform, Cleans
    <3> QED
      BY <1>2, <1>5, <2>2, <3>1
  <2> QED
    BY <2>2, <2>4, <2>5
<1> QED
  BY <1>1, <1>2, <1>3, <1>4, <1>5

LEMMA OthersRemoveNothing ==
  ASSUME [Next]_vars
  PROVE  \/ \E a \in Actor : Run(a)
         \/ UNCHANGED <<containers, dirs>>
         \/ \E s \in config : /\ containers' = containers \cup {At(s)}
                              /\ dirs' = dirs \cup {At(s)}
<1> USE DEF hosts
<1>1. CASE Key
  BY <1>1 DEF Key, Mark, Space, SelectCurrent, SelectAll, UnchangedButMarks, Refresh,
              OpenServices, OpenCleanup, Tick, Ask, Confirm, Back
<1>2. ASSUME NEW a \in Actor, Step(a)
      PROVE  Run(a) \/ UNCHANGED <<containers, dirs>>
  BY <1>2 DEF Step, RunService, RunCleanup, Approve, ScanServer, ScanFails, ScanDone,
              Connect, Finish, Leave
<1>3. CASE EditConfig
  BY <1>3 DEF EditConfig
<1>4. ASSUME NEW s \in Service, DeployElsewhere(s)
      PROVE  \E r \in config : /\ containers' = containers \cup {At(r)}
                               /\ dirs' = dirs \cup {At(r)}
  BY <1>4 DEF DeployElsewhere
<1>5. CASE UNCHANGED vars
  BY <1>5 DEF vars
<1> QED
  BY <1>1, <1>2, <1>3, <1>4, <1>5 DEF Next

LEMMA ScanStep == TreeInv /\ CleanInv /\ ScanInv /\ [Next]_vars => ScanInv'
<1> SUFFICES ASSUME TreeInv, CleanInv, ScanInv, [Next]_vars PROVE ScanInv'
  OBVIOUS
<1>1. (containers \cup dirs)' \subseteq Server \X Resource
  <2>1. CASE UNCHANGED <<containers, dirs>>
    BY <2>1 DEF ScanInv
  <2>2. ASSUME NEW a \in Actor, Run(a) PROVE (containers \cup dirs)' \subseteq Server \X Resource
    BY <2>2, RunRemoves DEF ScanInv
  <2>3. ASSUME NEW s \in config, containers' = containers \cup {At(s)},
               dirs' = dirs \cup {At(s)}
        PROVE  (containers \cup dirs)' \subseteq Server \X Resource
    <3>1. At(s) \in Server \X Resource
      BY ServiceAssumption DEF At, TreeInv
    <3> QED
      BY <2>3, <3>1 DEF ScanInv
  <2> QED
    BY <2>1, <2>2, <2>3, OthersRemoveNothing
<1>2. loads' \in Nat
  <2>1. loads' \in {loads, loads + 1}
    BY DEF Next, Key, Mark, Space, SelectCurrent, SelectAll, UnchangedButMarks, Refresh,
           OpenServices, OpenCleanup, Tick, Ask, Confirm, Back, Step, RunService, RunCleanup,
           Approve, ScanServer, ScanFails, ScanDone, Connect, Run, Finish, Leave,
           EditConfig, DeployElsewhere, vars, screen
  <2> QED
    BY <2>1 DEF ScanInv
<1>3. DOMAIN toScan' = Actor /\ \A b \in Actor : toScan'[b] \in Seq(Server)
  <2>2. \/ toScan' = toScan
        \/ \E a \in Actor, k \in {1, loads} : toScan' = [toScan EXCEPT ![a] = ServerList(k)]
        \/ \E a \in Actor : /\ toScan[a] # <<>>
                            /\ \/ toScan' = [toScan EXCEPT ![a] = Tail(toScan[a])]
                               \/ toScan' = [toScan EXCEPT ![a] = <<>>]
    <3> USE DEF plan
    <3>1. CASE Key
      <4>1. CASE OpenCleanup
        BY <4>1 DEF OpenCleanup, Actor
      <4>2. CASE ~OpenCleanup
        BY <1>1, <3>1, <4>2 DEF Key, Mark, Space, SelectCurrent, SelectAll, UnchangedButMarks,
             Refresh, OpenServices, Tick, Ask, Confirm, Back
      <4> QED
        BY <4>1, <4>2
    <3>2. ASSUME NEW a \in Actor, Step(a)
          PROVE  \/ toScan' = toScan
                 \/ toScan' = [toScan EXCEPT ![a] = ServerList(1)]
                 \/ /\ toScan[a] # <<>>
                    /\ \/ toScan' = [toScan EXCEPT ![a] = Tail(toScan[a])]
                       \/ toScan' = [toScan EXCEPT ![a] = <<>>]
      BY <3>2 DEF Step, RunService, RunCleanup, Approve, ScanServer, ScanFails, ScanDone,
                  Connect, Run, Finish, Leave
    <3>3. CASE EditConfig \/ \E s \in Service : DeployElsewhere(s)
      BY <3>3 DEF EditConfig, DeployElsewhere
    <3>4. CASE UNCHANGED vars
      BY <3>4 DEF vars
    <3> QED
      BY <3>1, <3>2, <3>3, <3>4 DEF Next
  <2>3. \A k \in {1, loads} : ServerList(k) \in Seq(Server)
    BY ServerListIs DEF ScanInv
  <2>4. \A a \in Actor : toScan[a] # <<>> => Tail(toScan[a]) \in Seq(Server)
    BY HeadAndTail DEF ScanInv
  <2>5. <<>> \in Seq(Server)
    OBVIOUS
  <2>6. ASSUME NEW a \in Actor, NEW list \in Seq(Server),
               toScan' = [toScan EXCEPT ![a] = list]
        PROVE  DOMAIN toScan' = Actor /\ \A b \in Actor : toScan'[b] \in Seq(Server)
    BY <2>6 DEF ScanInv
  <2>7. CASE toScan' = toScan
    BY <2>7 DEF ScanInv
  <2> QED
    BY <2>2, <2>3, <2>4, <2>5, <2>6, <2>7
<1> QED
  BY <1>1, <1>2, <1>3 DEF ScanInv

LEMMA CleanStep == CleanInv /\ ScanInv /\ [Next]_vars => CleanInv'
<1> SUFFICES ASSUME CleanInv, ScanInv, [Next]_vars PROVE CleanInv'
  OBVIOUS
<1>1. CASE Mark \/ Refresh \/ EditConfig \/ (\E s \in Service : DeployElsewhere(s))
           \/ (\E k \in {0} \cup 0..(CountItems(found[Tui]) - 1) : Tick(k))
           \/ UNCHANGED vars
  <2>1. UNCHANGED <<op, phase, basis, found, visits, here>>
    BY <1>1 DEF Mark, Space, SelectCurrent, SelectAll, UnchangedButMarks, Refresh, EditConfig,
                DeployElsewhere, Tick, vars, plan, work
  <2> QED
    BY <2>1, NoStep
<1> QED
  BY <1>1, ToJob, ToScan, ToWork DEF Next, Key, Step

\* Whatever any number of commands and the terminal interface do, whatever fails
\* and whoever edits and deploys meanwhile: a step removes only what a cleanup at
\* work holds for an orphan, by the configuration that it has looked for orphans
\* with.
THEOREM ServicesAreSpared == Spec => CleanupSparesServices
<1> DEFINE Inv == TreeInv /\ CleanInv /\ ScanInv
<1>1. Init => Inv
  BY TreeInit, CleanInit, ScanInit
<1>2. Inv /\ [Next]_vars => Inv'
  BY TreeStep, CleanStep, ScanStep
<1>3. Inv /\ [Next]_vars => [SparesServices]_vars
  <2> SUFFICES ASSUME CleanInv, TreeInv, [Next]_vars, ScanInv PROVE SparesServices
    OBVIOUS
  <2> DEFINE removed == (containers \ containers') \cup (dirs \ dirs')
  <2>1. CASE UNCHANGED <<containers, dirs>> \/ \E s \in config : /\ containers' = containers \cup {At(s)}
                                                        /\ dirs' = dirs \cup {At(s)}
    <3>1. removed = {}
      BY <2>1
    <3> QED
      BY <3>1 DEF SparesServices
  <2>2. ASSUME NEW a \in Actor, Run(a) PROVE SparesServices
    <3>1. \A x \in removed : /\ op[a] \in Cleans /\ phase[a] = "work"
                             /\ x[1] \in Server /\ x[2] \in Orphan(basis[a])
      BY <2>2, RunRemoves
    <3> QED
      BY <3>1 DEF SparesServices, Cleans, Orphan
  <2> QED
    BY <2>1, <2>2, OthersRemoveNothing
<1> QED
  BY <1>1, <1>2, <1>3, PTL DEF Spec, CleanupSparesServices
-----------------------------------------------------------------------------
(* Induction over the numbers, as a fact about sets of them, and where        *)
(* FlattenSeq puts the elements of the sequences it joins.                    *)

LEMMA LeastNumber ==
  ASSUME NEW S \in SUBSET Nat, S # {}
  PROVE  \E m \in S : \A k \in S : ~(k < m)
<1>1. PICK m \in S : \A k \in S : ~(<<k, m>> \in OpToRel(<, Nat))
  BY NatLessThanWellFounded, WFMin
<1>2. ASSUME NEW k \in S, k < m PROVE <<k, m>> \in OpToRel(<, Nat)
  BY <1>2 DEF OpToRel
<1> QED
  BY <1>1, <1>2

LEMMA SetInduction ==
  ASSUME NEW S \in SUBSET Nat, 0 \in S, \A n \in S : n + 1 \in S
  PROVE  S = Nat
<1> SUFFICES ASSUME Nat \ S # {} PROVE FALSE
  OBVIOUS
<1>1. PICK m \in Nat \ S : \A k \in Nat \ S : ~(k < m)
  BY LeastNumber
<1>2. m # 0 /\ m - 1 \in Nat /\ m - 1 < m /\ (m - 1) + 1 = m
  BY <1>1
<1> QED
  BY <1>1, <1>2

\* The recursive function by which FlattenSeq is defined exists.
LEMMA FlattenExists ==
  ASSUME NEW s, NEW n \in Nat
  PROVE  \E g : g = [i \in 1..n |-> IF i = 1 THEN s[i] ELSE g[i-1] \o s[i]]
<1> DEFINE Is(g, k) == g = [i \in 1..k |-> IF i = 1 THEN s[i] ELSE g[i-1] \o s[i]]
           K == {k \in Nat : \E g : Is(g, k)}
<1>1. 0 \in K
  <2>1. Is([i \in 1..0 |-> s], 0)
    OBVIOUS
  <2> QED
    BY <2>1
<1>2. ASSUME NEW k \in K PROVE k + 1 \in K
  <2>1. PICK g : Is(g, k)
    OBVIOUS
  <2> DEFINE h == [i \in 1..(k + 1) |-> IF i \in 1..k THEN g[i]
                                        ELSE IF i = 1 THEN s[i] ELSE g[i-1] \o s[i]]
  <2>2. k \in Nat
    OBVIOUS
  <2>3. \A i \in 1..k : g[i] = IF i = 1 THEN s[i] ELSE g[i-1] \o s[i]
    BY <2>1
  <2>4. \A i \in 1..(k + 1) : i # 1 => i - 1 \in 1..k /\ i - 1 \in 1..(k + 1)
    BY <2>2
  <2>5. \A i \in 1..(k + 1) : h[i] = IF i = 1 THEN s[i] ELSE h[i-1] \o s[i]
    <3> SUFFICES ASSUME NEW i \in 1..(k + 1)
                 PROVE  h[i] = IF i = 1 THEN s[i] ELSE h[i-1] \o s[i]
      OBVIOUS
    <3>1. i # 1 => h[i-1] = g[i-1]
      BY <2>4
    <3>2. h[i] = IF i = 1 THEN s[i] ELSE g[i-1] \o s[i]
      BY <2>3
    <3> QED
      BY <3>1, <3>2
  <2>6. h = [i \in 1..(k + 1) |-> h[i]]
    OBVIOUS
  <2> HIDE DEF h
  <2>7. Is(h, k + 1)
    BY <2>5, <2>6
  <2> HIDE DEF Is
  <2>8. \E f : Is(f, k + 1)
    BY <2>7
  <2> QED
    BY <2>2, <2>8
<1>3. n \in K
  <2> HIDE DEF K
  <2>1. K \in SUBSET Nat
    BY DEF K
  <2> QED
    BY <1>1, <1>2, <2>1, SetInduction
<1> QED
  BY <1>3

LEMMA FlattenByParts ==
  ASSUME NEW T, NEW s \in Seq(Seq(T)), Len(s) # 0
  PROVE  \E g \in [1..Len(s) -> Seq(T)] :
           /\ g[1] = s[1]
           /\ \A i \in 1..Len(s) : i # 1 => g[i] = g[i-1] \o s[i]
           /\ FlattenSeq(s) = g[Len(s)]
<1> DEFINE n == Len(s)
           g == CHOOSE g : g = [i \in 1..n |-> IF i = 1 THEN s[i] ELSE g[i-1] \o s[i]]
<1>1. n \in Nat /\ 1 \in 1..n
  OBVIOUS
<1>2. g = [i \in 1..n |-> IF i = 1 THEN s[i] ELSE g[i-1] \o s[i]]
  BY <1>1, FlattenExists
<1>3. FlattenSeq(s) = g[n]
  BY DEF FlattenSeq
<1>4. \A i \in 1..n : s[i] \in Seq(T)
  OBVIOUS
<1> HIDE DEF g, n
<1>5. g[1] = s[1] /\ \A i \in 1..n : i # 1 => g[i] = g[i-1] \o s[i]
  BY <1>1, <1>2
<1> DEFINE K == {k \in Nat : k \in 1..n => g[k] \in Seq(T)}
<1>6. 0 \in K
  BY <1>1
<1>7. ASSUME NEW k \in K PROVE k + 1 \in K
  <2> SUFFICES ASSUME k + 1 \in 1..n PROVE g[k + 1] \in Seq(T)
    OBVIOUS
  <2>1. CASE k = 0
    BY <1>4, <1>5, <2>1
  <2>2. CASE k # 0
    <3>1. k \in 1..n /\ k + 1 # 1 /\ (k + 1) - 1 = k
      BY <1>1, <2>2
    <3>2. g[k] \in Seq(T) /\ s[k + 1] \in Seq(T)
      BY <1>4, <3>1
    <3>3. g[k + 1] = g[k] \o s[k + 1]
      BY <1>5, <3>1
    <3> QED
      BY <3>2, <3>3
  <2> QED
    BY <2>1, <2>2
<1>8. K = Nat
  <2>1. K \in SUBSET Nat
    OBVIOUS
  <2> HIDE DEF K
  <2> QED
    BY <1>6, <1>7, <2>1, SetInduction
<1>9. ASSUME NEW i \in 1..n PROVE g[i] \in Seq(T)
  <2>1. i \in K
    BY <1>1, <1>8
  <2> QED
    BY <2>1
<1>10. g \in [1..n -> Seq(T)]
  BY <1>2, <1>9
<1> QED
  BY <1>3, <1>5, <1>10 DEF n

\* The recursive function by which StartIndex is defined exists.
LEMMA StartExists ==
  ASSUME NEW r, NEW n \in Nat
  PROVE  \E g : g = [j \in 1..n |-> IF j = 1 THEN 0 ELSE g[j-1] + Size(r[j-1])]
<1> DEFINE Is(g, k) == g = [j \in 1..k |-> IF j = 1 THEN 0 ELSE g[j-1] + Size(r[j-1])]
           K == {k \in Nat : \E g : Is(g, k)}
<1>1. 0 \in K
  <2>1. Is([i \in 1..0 |-> r], 0)
    OBVIOUS
  <2> QED
    BY <2>1
<1>2. ASSUME NEW k \in K PROVE k + 1 \in K
  <2>1. PICK g : Is(g, k)
    OBVIOUS
  <2> DEFINE h == [i \in 1..(k + 1) |-> IF i \in 1..k THEN g[i]
                                        ELSE IF i = 1 THEN 0 ELSE g[i-1] + Size(r[i-1])]
  <2>2. k \in Nat
    OBVIOUS
  <2>3. \A i \in 1..k : g[i] = IF i = 1 THEN 0 ELSE g[i-1] + Size(r[i-1])
    BY <2>1
  <2>4. \A i \in 1..(k + 1) : i # 1 => i - 1 \in 1..k /\ i - 1 \in 1..(k + 1)
    BY <2>2
  <2>5. \A i \in 1..(k + 1) : h[i] = IF i = 1 THEN 0 ELSE h[i-1] + Size(r[i-1])
    <3> SUFFICES ASSUME NEW i \in 1..(k + 1)
                 PROVE  h[i] = IF i = 1 THEN 0 ELSE h[i-1] + Size(r[i-1])
      OBVIOUS
    <3>1. i # 1 => h[i-1] = g[i-1]
      BY <2>4
    <3>2. h[i] = IF i = 1 THEN 0 ELSE g[i-1] + Size(r[i-1])
      BY <2>3
    <3> QED
      BY <3>1, <3>2
  <2>6. h = [i \in 1..(k + 1) |-> h[i]]
    OBVIOUS
  <2> HIDE DEF h
  <2>7. Is(h, k + 1)
    BY <2>5, <2>6
  <2> HIDE DEF Is
  <2>8. \E f : Is(f, k + 1)
    BY <2>7
  <2> QED
    BY <2>2, <2>8
<1>3. n \in K
  <2> HIDE DEF K
  <2>1. K \in SUBSET Nat
    BY DEF K
  <2> QED
    BY <1>1, <1>2, <2>1, SetInduction
<1> QED
  BY <1>3

\* Each server's items begin where those of the server before it end.
LEMMA StartIndexIs ==
  ASSUME NEW r, Len(r) \in Nat
  PROVE  /\ StartIndex(r, 1) = 0
         /\ \A i \in 1..Len(r) : StartIndex(r, i + 1) = StartIndex(r, i) + Size(r[i])
<1> DEFINE n == Len(r) + 1
           g == CHOOSE g : g = [j \in 1..n |-> IF j = 1 THEN 0 ELSE g[j-1] + Size(r[j-1])]
<1>1. n \in Nat /\ 1 \in 1..n
  OBVIOUS
<1>2. g = [j \in 1..n |-> IF j = 1 THEN 0 ELSE g[j-1] + Size(r[j-1])]
  BY <1>1, StartExists
<1>3. \A i : StartIndex(r, i) = g[i]
  BY DEF StartIndex
<1>4. \A i \in 1..Len(r) : i + 1 \in 1..n /\ i + 1 # 1 /\ (i + 1) - 1 = i
  OBVIOUS
<1> HIDE DEF g, n
<1>5. g[1] = 0
  BY <1>1, <1>2
<1>6. ASSUME NEW i \in 1..Len(r) PROVE g[i + 1] = g[i] + Size(r[i])
  <2>1. g[i + 1] = g[(i + 1) - 1] + Size(r[(i + 1) - 1])
    BY <1>2, <1>4
  <2> QED
    BY <1>4, <2>1
<1> QED
  BY <1>3, <1>5, <1>6

\* q has the elements of the first n sequences of s, those of the i-th after
\* position start[i].
Joined(s, start, q, n) ==
  /\ Len(q) = start[n + 1]
  /\ \A i \in 1..n : \A k \in 1..Len(s[i]) :
       start[i] + k \in 1..Len(q) /\ q[start[i] + k] = s[i][k]
  /\ \A p \in 1..Len(q) : \E i \in 1..n : \E k \in 1..Len(s[i]) : p = start[i] + k

LEMMA JoinOne ==
  ASSUME NEW T, NEW s \in Seq(Seq(T)), NEW start, NEW n \in Nat, n + 1 \in 1..Len(s),
         NEW q \in Seq(T), Joined(s, start, q, n),
         \A i \in 1..Len(s) : start[i] \in Nat /\ start[i + 1] = start[i] + Len(s[i])
  PROVE  Joined(s, start, q \o s[n + 1], n + 1)
<1> DEFINE b == s[n + 1]
           x == Len(q)
           y == Len(b)
           j == q \o b
<1>1. b \in Seq(T)
  OBVIOUS
<1>2. /\ x \in Nat /\ y \in Nat /\ Len(j) = x + y
      /\ \A p \in 1..(x + y) : j[p] = IF p <= x THEN q[p] ELSE b[p - x]
  BY <1>1
<1>3. x = start[n + 1]
  BY DEF Joined
<1>4. start[(n + 1) + 1] = x + y
  BY <1>3
<1>5. ASSUME NEW i \in 1..(n + 1), NEW k \in 1..Len(s[i])
      PROVE  start[i] + k \in 1..Len(j) /\ j[start[i] + k] = s[i][k]
  <2>1. CASE i = n + 1
    <3>1. k \in 1..y
      BY <1>5, <2>1
    <3>n. x \in Nat /\ y \in Nat
      BY <1>2
    <3> HIDE DEF x, y, j, b
    <3>2. x + k \in 1..(x + y) /\ ~(x + k <= x) /\ (x + k) - x = k
      BY <3>n, <3>1
    <3>3. j[x + k] = b[k]
      BY <1>2, <3>2
    <3> QED
      BY <1>2, <1>3, <2>1, <3>2, <3>3 DEF b
  <2>2. CASE i # n + 1
    <3>1. i \in 1..n
      BY <2>2
    <3>2. start[i] + k \in 1..x /\ q[start[i] + k] = s[i][k]
      BY <1>5, <3>1 DEF Joined
    <3> HIDE DEF x, y, j, b
    <3>3. start[i] + k \in 1..(x + y) /\ start[i] + k <= x
      BY <1>2, <3>2
    <3> QED
      BY <1>2, <3>2, <3>3
  <2> QED
    BY <2>1, <2>2
<1>6. ASSUME NEW p \in 1..Len(j)
      PROVE  \E i \in 1..(n + 1) : \E k \in 1..Len(s[i]) : p = start[i] + k
  <2>1. CASE p <= x
    <3>1. p \in 1..Len(q)
      BY <2>1, <1>2, <1>6
    <3>2. PICK i \in 1..n : \E k \in 1..Len(s[i]) : p = start[i] + k
      BY <3>1 DEF Joined
    <3>3. i \in 1..(n + 1)
      OBVIOUS
    <3> QED
      BY <3>2, <3>3
  <2>2. CASE ~(p <= x)
    <3>1. p - x \in 1..y /\ p = x + (p - x)
      BY <1>2, <1>6, <2>2
    <3>2. n + 1 \in 1..(n + 1)
      OBVIOUS
    <3> QED
      BY <1>3, <3>1, <3>2
  <2> QED
    BY <2>1, <2>2
<1> HIDE DEF x, y, j
<1>7. Len(j) = start[(n + 1) + 1]
  BY <1>2, <1>4
<1>8. Joined(s, start, j, n + 1)
  BY <1>5, <1>6, <1>7 DEF Joined
<1> QED
  BY <1>8 DEF j

LEMMA Flattened ==
  ASSUME NEW T, NEW s \in Seq(Seq(T)), NEW start, start[1] = 0,
         \A i \in 1..Len(s) : start[i] \in Nat /\ start[i + 1] = start[i] + Len(s[i])
  PROVE  FlattenSeq(s) \in Seq(T) /\ Joined(s, start, FlattenSeq(s), Len(s))
<1> DEFINE n == Len(s)
<1>1. n \in Nat
  OBVIOUS
<1>2. Joined(s, start, <<>>, 0)
  BY DEF Joined
<1>3. CASE n = 0
  <2>1. s = <<>> /\ FlattenSeq(s) = s
    BY <1>3 DEF FlattenSeq
  <2>2. FlattenSeq(s) = <<>> /\ Len(s) = 0 /\ <<>> \in Seq(T)
    BY <1>3, <2>1
  <2> QED
    BY ONLY <1>2, <2>2
<1>4. CASE n # 0
  <2>1. PICK g \in [1..n -> Seq(T)] :
          /\ g[1] = s[1]
          /\ \A i \in 1..n : i # 1 => g[i] = g[i-1] \o s[i]
          /\ FlattenSeq(s) = g[n]
    BY <1>4, FlattenByParts
  <2> HIDE DEF n
  <2> DEFINE K == {k \in Nat : k \in 1..n => Joined(s, start, g[k], k)}
  <2>2. 0 \in K
    BY <1>1
  <2>3. ASSUME NEW k \in K PROVE k + 1 \in K
    <3> SUFFICES ASSUME k + 1 \in 1..n PROVE Joined(s, start, g[k + 1], k + 1)
      OBVIOUS
    <3>1. CASE k = 0
      <4>1. <<>> \in Seq(T) /\ 0 + 1 \in 1..Len(s)
        BY <3>1 DEF n
      <4>2. Joined(s, start, <<>> \o s[0 + 1], 0 + 1)
        BY <1>2, <4>1, JoinOne
      <4>3. s[1] \in Seq(T) /\ 0 + 1 = 1
        BY <4>1
      <4>4. <<>> \o s[0 + 1] = g[1]
        BY <2>1, <4>3
      <4> QED
        BY <3>1, <4>2, <4>3, <4>4
    <3>2. CASE k # 0
      <4>1. k \in 1..n /\ k + 1 # 1 /\ (k + 1) - 1 = k
        BY <1>1, <3>2
      <4>2. g[k] \in Seq(T) /\ Joined(s, start, g[k], k)
        BY <4>1
      <4>3. Joined(s, start, g[k] \o s[k + 1], k + 1)
        BY <4>2, JoinOne DEF n
      <4>4. g[k + 1] = g[k] \o s[k + 1]
        BY <2>1, <4>1
      <4> QED
        BY <4>3, <4>4
    <3> QED
      BY <3>1, <3>2
  <2>4. K = Nat
    <3>1. K \in SUBSET Nat
      OBVIOUS
    <3> HIDE DEF K
    <3> QED
      BY <2>2, <2>3, <3>1, SetInduction
  <2>5. n \in 1..n
    BY <1>1, <1>4
  <2>6. Joined(s, start, g[n], n)
    <3>1. n \in K
      BY <1>1, <2>4
    <3> QED
      BY <2>5, <3>1
  <2> QED
    BY <2>1, <2>5, <2>6 DEF n
<1> QED
  BY <1>3, <1>4

-----------------------------------------------------------------------------
(* The lists of servers and of orphans, and the visits made of them.         *)

LEMMA SetAsList ==
  ASSUME NEW S, IsFiniteSet(S)
  PROVE  SetToSeq(S) \in Seq(S) /\ Range(SetToSeq(S)) = S
<1> DEFINE n == Cardinality(S)
           D == 1..n
           q == SetToSeq(S)
<1>1. n \in Nat /\ ExistsBijection(D, S)
  BY FS_CardinalityType
<1>2. \E f \in [D -> S] : IsInjective(f)
  BY <1>1 DEF ExistsBijection, Bijection, Injection
<1>3. q \in [D -> S] /\ IsInjective(q)
  BY <1>2 DEF SetToSeq
<1>4. Cardinality(D) = n
  BY <1>1, FS_Interval
<1> HIDE DEF D, q
<1>5. q \in Injection(D, S)
  BY <1>3 DEF Injection
<1>6. q \in Surjection(D, S)
  BY <1>4, <1>5, FS_Injection
<1>7. \A x \in S : \E i \in D : q[i] = x
  BY <1>6 DEF Surjection
<1>8. Range(q) = S
  BY <1>3, <1>7 DEF Range
<1>9. q \in Seq(S)
  BY <1>1, <1>3 DEF D
<1> QED
  BY <1>8, <1>9 DEF q

\* Every server is in the list, however often it is.
LEMMA ServerListHas ==
  ASSUME NEW k \in Nat \ {0}, NEW v \in Server
  PROVE  \E i \in DOMAIN ServerList(k) : ServerList(k)[i] = v
<1> DEFINE list == SetToSeq(Server)
           n == Len(list)
<1>1. list \in Seq(Server) /\ Range(list) = Server
  BY ServiceAssumption, SetAsList
<1>2. PICK i \in 1..n : list[i] = v
  BY <1>1 DEF Range
<1>3. n \in Nat
  BY <1>1
<1> HIDE DEF list, n
<1>4. (i - 1) % n = i - 1
  BY <1>3
<1>5. k * n >= n /\ k * n \in Nat
  <2>1. PICK l \in Nat : k = l + 1
    <3>1. k - 1 \in Nat /\ k = (k - 1) + 1
      OBVIOUS
    <3> QED
      BY <3>1
  <2>2. \A x, y \in Nat : x * y \in Nat /\ (x + 1) * y = x * y + y
    OBVIOUS
  <2>3. l * n \in Nat /\ k * n = l * n + n
    BY <1>3, <2>1, <2>2
  <2> QED
    BY <1>3, <2>3
<1>6. i \in 1..(k * n)
  BY <1>3, <1>5
<1>7. ServerList(k) = [j \in 1..(k * n) |-> list[((j - 1) % n) + 1]]
  BY DEF ServerList, list, n
<1>8. (i - 1) + 1 = i
  OBVIOUS
<1> QED
  BY <1>2, <1>4, <1>6, <1>7, <1>8

LEMMA StartIndexType ==
  ASSUME NEW r, Len(r) \in Nat, \A i \in 1..Len(r) : Size(r[i]) \in Nat
  PROVE  \A i \in 1..(Len(r) + 1) : StartIndex(r, i) \in Nat
<1> DEFINE K == {k \in Nat : k + 1 \in 1..(Len(r) + 1) => StartIndex(r, k + 1) \in Nat}
<1>1. 0 \in K
  <2>1. 0 + 1 = 1
    OBVIOUS
  <2> QED
    BY <2>1, StartIndexIs
<1>2. ASSUME NEW k \in K PROVE k + 1 \in K
  <2> SUFFICES ASSUME (k + 1) + 1 \in 1..(Len(r) + 1)
               PROVE  StartIndex(r, (k + 1) + 1) \in Nat
    OBVIOUS
  <2>1. k + 1 \in 1..Len(r) /\ k + 1 \in 1..(Len(r) + 1)
    OBVIOUS
  <2>2. StartIndex(r, k + 1) \in Nat
    BY <2>1
  <2>3. StartIndex(r, (k + 1) + 1) = StartIndex(r, k + 1) + Size(r[k + 1])
    BY <2>1, StartIndexIs
  <2> QED
    BY <2>1, <2>2, <2>3
<1>3. K = Nat
  <2>1. K \in SUBSET Nat
    OBVIOUS
  <2> HIDE DEF K
  <2> QED
    BY <1>1, <1>2, <2>1, SetInduction
<1>4. ASSUME NEW i \in 1..(Len(r) + 1) PROVE StartIndex(r, i) \in Nat
  <2>1. i - 1 \in Nat /\ (i - 1) + 1 = i
    OBVIOUS
  <2>2. i - 1 \in K
    <3> HIDE DEF K
    <3> QED
      BY <1>3, <2>1
  <2>3. StartIndex(r, (i - 1) + 1) \in Nat
    BY <2>1, <2>2
  <2> QED
    BY <2>1, <2>3
<1> QED
  BY <1>4

LEMMA OrphanTasksAreTasks == ASSUME NEW c PROVE OrphanTask(c) \subseteq Task
BY DEF OrphanTask, Task, Orphan

\* The list shown is where the ticks look for it.
LEMMA ListedIs ==
  ASSUME NEW c, NEW r \in Seq(OrphanResult(c))
  PROVE  /\ Listed(r) \in Seq(OrphanTask(c)) /\ Len(Listed(r)) = CountItems(r)
         /\ \A i \in 1..Len(r) : \A k \in 0..(Size(r[i]) - 1) :
              /\ StartIndex(r, i) + k \in 0..(Len(Listed(r)) - 1)
              /\ Listed(r)[(StartIndex(r, i) + k) + 1] = ItemOf(r[i], k)
         /\ \A p \in 0..(Len(Listed(r)) - 1) :
              \E i \in 1..Len(r) : \E k \in 0..(Size(r[i]) - 1) : p = StartIndex(r, i) + k
<1> DEFINE n == Len(r)
           s == [i \in DOMAIN r |-> [k \in 1..Size(r[i]) |-> ItemOf(r[i], k - 1)]]
           start == [i \in 1..(n + 1) |-> StartIndex(r, i)]
           T == OrphanTask(c)
           q == Listed(r)
<1>1. n \in Nat /\ DOMAIN r = 1..n /\ \A i \in 1..n : r[i] \in OrphanResult(c)
  OBVIOUS
<1>2. \A i \in 1..n : Size(r[i]) \in Nat
  <2> SUFFICES ASSUME NEW i \in 1..n PROVE Size(r[i]) \in Nat
    OBVIOUS
  <2>1. r[i].containers \in Seq(Orphan(c)) /\ r[i].dirs \in Seq(Orphan(c))
    BY <1>1 DEF OrphanResult
  <2>2. Len(r[i].containers) \in Nat /\ Len(r[i].dirs) \in Nat
    BY <2>1
  <2>3. \A x, y \in Nat : x + y \in Nat
    OBVIOUS
  <2> QED
    BY ONLY <2>2, <2>3 DEF Size
<1>3. \A i \in 1..n : s[i] \in Seq(T) /\ Len(s[i]) = Size(r[i])
  <2> SUFFICES ASSUME NEW i \in 1..n PROVE s[i] \in Seq(T) /\ Len(s[i]) = Size(r[i])
    OBVIOUS
  <2>1. s[i] = [k \in 1..Size(r[i]) |-> ItemOf(r[i], k - 1)]
    BY <1>1
  <2>2. ASSUME NEW k \in 1..Size(r[i]) PROVE ItemOf(r[i], k - 1) \in T
    <3>1. k - 1 \in 0..(Size(r[i]) - 1)
      BY <1>2
    <3> QED
      BY <1>1, <3>1, ItemsAreOrphans
  <2> HIDE DEF s, T
  <2> QED
    BY <1>2, <2>1, <2>2
<1>4. s \in Seq(Seq(T)) /\ Len(s) = n
  BY <1>1, <1>3
<1>5. q = FlattenSeq(s)
  BY DEF Listed
<1>6. start[1] = 0
  BY <1>1, StartIndexIs
<1>7. \A i \in 1..Len(s) : start[i] \in Nat /\ start[i + 1] = start[i] + Len(s[i])
  <2> SUFFICES ASSUME NEW i \in 1..n
               PROVE  start[i] \in Nat /\ start[i + 1] = start[i] + Len(s[i])
    BY <1>4
  <2>1. i \in 1..(n + 1) /\ i + 1 \in 1..(n + 1)
    BY <1>1
  <2>2. start[i] = StartIndex(r, i) /\ start[i + 1] = StartIndex(r, i + 1)
    BY <2>1
  <2> QED
    BY <1>1, <1>2, <1>3, <2>1, <2>2, StartIndexIs, StartIndexType
<1>8. \A i \in 1..(n + 1) : start[i] = StartIndex(r, i)
  OBVIOUS
<1>9. \A i \in 1..n : \A k \in 1..Size(r[i]) : s[i][k] = ItemOf(r[i], k - 1)
  BY <1>1
<1>s. \A i \in 1..n : start[i] \in Nat
  BY <1>4, <1>7
<1> HIDE DEF s, start, q, T, n
<1>10. q \in Seq(T) /\ Joined(s, start, q, n)
  BY <1>4, <1>5, <1>6, <1>7, Flattened
<1>11. Len(q) = CountItems(r)
  <2>1. Len(q) = start[n + 1] /\ n + 1 \in 1..(n + 1)
    BY <1>1, <1>10 DEF Joined
  <2> QED
    BY <1>8, <2>1 DEF CountItems, n
<1>12. ASSUME NEW i \in 1..n, NEW k \in 0..(Size(r[i]) - 1)
       PROVE  /\ StartIndex(r, i) + k \in 0..(Len(q) - 1)
              /\ q[(StartIndex(r, i) + k) + 1] = ItemOf(r[i], k)
  <2> DEFINE a == start[i]
  <2>1. a = StartIndex(r, i) /\ a \in Nat /\ Size(r[i]) \in Nat /\ Len(q) \in Nat
    BY <1>1, <1>2, <1>8, <1>s, <1>10
  <2> HIDE DEF a
  <2>2. k + 1 \in 1..Size(r[i]) /\ (k + 1) - 1 = k
    BY <2>1
  <2>3. a + (k + 1) \in 1..Len(q) /\ q[a + (k + 1)] = s[i][k + 1]
    BY <1>3, <1>10, <2>2 DEF Joined, a
  <2>4. a + (k + 1) = (a + k) + 1 /\ a + k \in 0..(Len(q) - 1)
    BY <2>1, <2>2, <2>3
  <2>5. s[i][k + 1] = ItemOf(r[i], k)
    BY <1>9, <2>2
  <2> QED
    BY <2>1, <2>3, <2>4, <2>5
<1>13. ASSUME NEW p \in 0..(Len(q) - 1)
       PROVE  \E i \in 1..n : \E k \in 0..(Size(r[i]) - 1) : p = StartIndex(r, i) + k
  <2>1. Len(q) \in Nat
    BY <1>10
  <2>2. p + 1 \in 1..Len(q)
    BY <2>1
  <2>3. PICK i \in 1..n : \E k \in 1..Len(s[i]) : p + 1 = start[i] + k
    BY <1>10, <2>2 DEF Joined
  <2>4. PICK k \in 1..Size(r[i]) : p + 1 = start[i] + k
    BY <1>3, <2>3
  <2>5. start[i] = StartIndex(r, i) /\ start[i] \in Nat /\ Size(r[i]) \in Nat
    BY <1>1, <1>2, <1>8, <1>s
  <2>6. k - 1 \in 0..(Size(r[i]) - 1) /\ p = start[i] + (k - 1)
    BY <2>1, <2>4, <2>5
  <2> QED
    BY <2>5, <2>6
<1> QED
  BY <1>10, <1>11, <1>12, <1>13 DEF n, q, T

\* The tasks of visits.
TaskVisit == {v \in [tasks : SUBSET Task, items : SUBSET Task] : v.tasks \subseteq v.items}
Tasks(q) == UNION {v.tasks : v \in Range(q)}

LEMMA VisitIs ==
  ASSUME NEW A \in SUBSET Task, NEW B \in SUBSET Task, A \subseteq B
  PROVE  Visit(A, B) \in TaskVisit /\ Visit(A, B).tasks = A /\ Visit(A, B).items = B
BY DEF Visit, TaskVisit

LEMMA TaskOfVisit ==
  ASSUME NEW q, NEW x PROVE x \in Tasks(q) <=> \E i \in DOMAIN q : x \in q[i].tasks
BY DEF Tasks, Range

LEMMA NoVisits == Tasks(<<>>) = {} /\ <<>> \in Seq(TaskVisit)
BY TaskOfVisit

\* The first visit and the others.
LEMMA VisitsLeft ==
  ASSUME NEW q \in Seq(TaskVisit), q # <<>>
  PROVE  /\ Head(q) \in TaskVisit /\ Tail(q) \in Seq(TaskVisit)
         /\ Tasks(q) = Head(q).tasks \cup Tasks(Tail(q))
<1> DEFINE n == Len(q)
           r == Tail(q)
<1>1. /\ n \in Nat /\ n # 0 /\ DOMAIN q = 1..n
      /\ DOMAIN r = 1..(n - 1) /\ \A i \in 1..(n - 1) : r[i] = q[i + 1]
      /\ Head(q) = q[1] /\ r \in Seq(TaskVisit) /\ Head(q) \in TaskVisit
  OBVIOUS
<1> HIDE DEF n, r
<1>2. ASSUME NEW x \in Tasks(q) PROVE x \in Head(q).tasks \cup Tasks(r)
  <2>1. PICK i \in 1..n : x \in q[i].tasks
    BY <1>1, <1>2, TaskOfVisit
  <2>2. CASE i = 1
    BY <1>1, <2>1, <2>2
  <2>3. CASE i # 1
    <3>1. i - 1 \in 1..(n - 1) /\ (i - 1) + 1 = i
      BY <1>1, <2>3
    <3>2. x \in r[i - 1].tasks
      BY <1>1, <2>1, <3>1
    <3> QED
      BY <1>1, <3>1, <3>2, TaskOfVisit
  <2> QED
    BY <2>2, <2>3
<1>3. ASSUME NEW x \in Head(q).tasks PROVE x \in Tasks(q)
  <2>1. 1 \in 1..n
    BY <1>1
  <2> QED
    BY <1>1, <1>3, <2>1, TaskOfVisit
<1>4. ASSUME NEW x \in Tasks(r) PROVE x \in Tasks(q)
  <2>1. PICK i \in 1..(n - 1) : x \in r[i].tasks
    BY <1>1, <1>4, TaskOfVisit
  <2>2. i + 1 \in 1..n
    BY <1>1
  <2> QED
    BY <1>1, <2>1, <2>2, TaskOfVisit
<1>5. Tasks(q) = Head(q).tasks \cup Tasks(r)
  BY <1>2, <1>3, <1>4
<1> QED
  BY <1>1, <1>5 DEF r

\* A command that cleans up visits what it has listed, and nothing else.
LEMMA OrphanVisitsAre ==
  ASSUME NEW c, NEW r \in Seq(OrphanResult(c))
  PROVE  /\ OrphanVisits(r) \in Seq(TaskVisit)
         /\ Tasks(OrphanVisits(r)) = Range(Listed(r))
<1> DEFINE q == OrphanVisits(r)
           l == Listed(r)
<1>1. \A i \in 1..Len(r) : Items(r[i]) \subseteq Task
  BY ItemsAreOrphans, OrphanTasksAreTasks
<1>2. /\ Len(r) \in Nat /\ DOMAIN r = 1..Len(r)
      /\ q = [i \in 1..Len(r) |-> Visit(Items(r[i]), Items(r[i]))]
  BY DEF OrphanVisits
<1>3. \A i \in 1..Len(r) : q[i] \in TaskVisit /\ q[i].tasks = Items(r[i])
  BY <1>1, <1>2, VisitIs
<1>4. l \in Seq(OrphanTask(c))
  BY ListedIs
<1>5. Len(l) \in Nat /\ DOMAIN l = 1..Len(l)
  BY <1>4
<1> HIDE DEF q, l
<1>6. q \in Seq(TaskVisit)
  BY <1>2, <1>3
<1>7. ASSUME NEW x \in Tasks(q) PROVE x \in Range(l)
  <2>1. PICK i \in 1..Len(r) : x \in Items(r[i])
    BY <1>2, <1>3, <1>7, TaskOfVisit
  <2>2. PICK k \in 0..(Size(r[i]) - 1) : x = ItemOf(r[i], k)
    BY <2>1 DEF Items
  <2>3. /\ StartIndex(r, i) + k \in 0..(Len(l) - 1)
        /\ l[(StartIndex(r, i) + k) + 1] = x
    BY <2>2, ListedIs DEF l
  <2>4. (StartIndex(r, i) + k) + 1 \in 1..Len(l)
    <3> DEFINE p == StartIndex(r, i) + k
    <3>1. p \in 0..(Len(l) - 1)
      BY <2>3
    <3> HIDE DEF p
    <3>2. p + 1 \in 1..Len(l)
      BY <1>5, <3>1
    <3> QED
      BY <3>2 DEF p
  <2> QED
    BY <1>5, <2>3, <2>4 DEF Range
<1>8. ASSUME NEW x \in Range(l) PROVE x \in Tasks(q)
  <2>1. PICK j \in 1..Len(l) : x = l[j]
    BY <1>5, <1>8 DEF Range
  <2>2. j - 1 \in 0..(Len(l) - 1) /\ (j - 1) + 1 = j
    BY <1>5
  <2>3. PICK i \in 1..Len(r) : \E k \in 0..(Size(r[i]) - 1) : j - 1 = StartIndex(r, i) + k
    BY <2>2, ListedIs DEF l
  <2>4. PICK k \in 0..(Size(r[i]) - 1) : j - 1 = StartIndex(r, i) + k
    BY <2>3
  <2>5. l[(StartIndex(r, i) + k) + 1] = ItemOf(r[i], k)
    BY ListedIs DEF l
  <2>6. x = ItemOf(r[i], k)
    BY <2>1, <2>2, <2>4, <2>5
  <2>7. x \in Items(r[i])
    BY <2>6 DEF Items
  <2> QED
    BY <1>2, <1>3, <2>7, TaskOfVisit
<1>9. Tasks(q) = Range(l)
  BY <1>7, <1>8
<1> QED
  BY <1>6, <1>9 DEF q, l

\* What the terminal interface is asked to remove is what it visits: the ticks
\* are of the same items in the list shown and server by server.
LEMMA TickedVisitsAre ==
  ASSUME NEW c, found[Tui] \in Seq(OrphanResult(c))
  PROVE  /\ TickedVisits \in Seq(TaskVisit)
         /\ Tasks(TickedVisits) =
              {Listed(found[Tui])[k + 1] :
                 k \in ticked \cap 0..(Len(Listed(found[Tui])) - 1)}
<1> DEFINE r == found[Tui]
           q == TickedVisits
           l == Listed(r)
           A == {l[k + 1] : k \in ticked \cap 0..(Len(l) - 1)}
<1>1. \A i \in 1..Len(r) : Items(r[i]) \subseteq Task /\ TickedItems(i) \subseteq Items(r[i])
  <2> SUFFICES ASSUME NEW i \in 1..Len(r)
               PROVE  Items(r[i]) \subseteq Task /\ TickedItems(i) \subseteq Items(r[i])
    OBVIOUS
  <2>1. Items(r[i]) \subseteq Task
    BY ItemsAreOrphans, OrphanTasksAreTasks
  <2>2. TickedItems(i) \subseteq Items(r[i])
    BY DEF TickedItems, Items
  <2> QED
    BY <2>1, <2>2
<1>2. /\ Len(r) \in Nat /\ DOMAIN r = 1..Len(r)
      /\ q = [i \in 1..Len(r) |-> Visit(TickedItems(i), Items(r[i]))]
  BY DEF TickedVisits
<1>3. \A i \in 1..Len(r) : q[i] \in TaskVisit /\ q[i].tasks = TickedItems(i)
  BY <1>1, <1>2, VisitIs
<1> HIDE DEF q, l, r
<1>4. q \in Seq(TaskVisit)
  BY <1>2, <1>3
<1>5. ASSUME NEW x \in Tasks(q) PROVE x \in A
  <2>1. PICK i \in 1..Len(r) : x \in TickedItems(i)
    BY <1>2, <1>3, <1>5, TaskOfVisit
  <2>2. PICK k \in 0..(Size(r[i]) - 1) : x = ItemOf(r[i], k) /\ StartIndex(r, i) + k \in ticked
    BY <2>1 DEF TickedItems, r
  <2>3. /\ StartIndex(r, i) + k \in 0..(Len(l) - 1)
        /\ l[(StartIndex(r, i) + k) + 1] = x
    BY <2>2, ListedIs DEF l, r
  <2> QED
    BY <2>2, <2>3
<1>6. ASSUME NEW x \in A PROVE x \in Tasks(q)
  <2>1. PICK p \in ticked \cap 0..(Len(l) - 1) : x = l[p + 1]
    BY <1>6
  <2>2. PICK i \in 1..Len(r) : \E k \in 0..(Size(r[i]) - 1) : p = StartIndex(r, i) + k
    BY <2>1, ListedIs DEF l, r
  <2>3. PICK k \in 0..(Size(r[i]) - 1) : p = StartIndex(r, i) + k
    BY <2>2
  <2>4. l[(StartIndex(r, i) + k) + 1] = ItemOf(r[i], k)
    BY ListedIs DEF l, r
  <2>5. x = ItemOf(r[i], k) /\ StartIndex(r, i) + k \in ticked
    BY <2>1, <2>3, <2>4
  <2>6. x \in TickedItems(i)
    BY <2>5 DEF TickedItems, r
  <2> QED
    BY <1>2, <1>3, <2>6, TaskOfVisit
<1>7. Tasks(q) = A
  BY <1>5, <1>6
<1> QED
  BY <1>4, <1>7 DEF q, l, r

\* What is in the sequences joined is in what they are joined to. (The numbers at
\* which they begin are those of orphans of as many containers.)
LEMMA JoinedHas ==
  ASSUME NEW T, NEW s \in Seq(Seq(T))
  PROVE  /\ FlattenSeq(s) \in Seq(T)
         /\ \A x : x \in Range(FlattenSeq(s)) <=>
                     \E i \in 1..Len(s) : \E k \in 1..Len(s[i]) : x = s[i][k]
<1> DEFINE n == Len(s)
           r == [i \in 1..n |-> [containers |-> s[i], dirs |-> <<>>]]
           start == [i \in 1..(n + 1) |-> StartIndex(r, i)]
           q == FlattenSeq(s)
<1>1. n \in Nat /\ \A i \in 1..n : s[i] \in Seq(T) /\ Len(s[i]) \in Nat
  OBVIOUS
<1>2. \A i \in 1..n : Size(r[i]) = Len(s[i])
  <2> SUFFICES ASSUME NEW i \in 1..n PROVE Size(r[i]) = Len(s[i])
    OBVIOUS
  <2>1. r[i].containers = s[i] /\ r[i].dirs = <<>>
    OBVIOUS
  <2>2. Len(s[i]) + 0 = Len(s[i])
    BY <1>1
  <2> QED
    BY <2>1, <2>2 DEF Size
<1>3. Len(r) = n
  <2>1. r \in Seq([containers : Seq(T), dirs : {<<>>}])
    BY <1>1
  <2>2. DOMAIN r = 1..n
    OBVIOUS
  <2> HIDE DEF r, n
  <2> QED
    BY <1>1, <2>1, <2>2
<1> HIDE DEF r, n
<1>4. \A i \in 1..(n + 1) : StartIndex(r, i) \in Nat
  BY <1>1, <1>2, <1>3, StartIndexType
<1>5. start[1] = 0
  BY <1>1, <1>3, StartIndexIs
<1>6. \A i \in 1..n : start[i] \in Nat /\ start[i + 1] = start[i] + Len(s[i])
  <2> SUFFICES ASSUME NEW i \in 1..n
               PROVE  start[i] \in Nat /\ start[i + 1] = start[i] + Len(s[i])
    OBVIOUS
  <2>1. i \in 1..(n + 1) /\ i + 1 \in 1..(n + 1)
    BY <1>1
  <2> QED
    BY <1>1, <1>2, <1>3, <1>4, <2>1, StartIndexIs
<1> HIDE DEF start, q
<1>7. q \in Seq(T) /\ Joined(s, start, q, n)
  BY <1>5, <1>6, Flattened DEF n, q
<1>8. DOMAIN q = 1..Len(q)
  BY <1>7
<1>9. ASSUME NEW x, x \in Range(q)
      PROVE  \E i \in 1..n : \E k \in 1..Len(s[i]) : x = s[i][k]
  <2>1. PICK p \in 1..Len(q) : x = q[p]
    BY <1>8, <1>9 DEF Range
  <2>2. PICK i \in 1..n : \E k \in 1..Len(s[i]) : p = start[i] + k
    BY <1>7 DEF Joined
  <2> QED
    BY <1>7, <2>1, <2>2 DEF Joined
<1>10. ASSUME NEW i \in 1..n, NEW k \in 1..Len(s[i]) PROVE s[i][k] \in Range(q)
  <2>1. start[i] + k \in 1..Len(q) /\ q[start[i] + k] = s[i][k]
    BY <1>7 DEF Joined
  <2> QED
    BY <1>8, <2>1 DEF Range
<1> QED
  BY <1>7, <1>9, <1>10 DEF n, q

LEMMA ServiceTasksAreTasks == \A s \in Service : ServiceTask(s) \in Task
BY ServiceAssumption DEF ServiceTask, Task

\* The marked services are those of the visits, on whatever servers they are.
LEMMA MarkedVisitsAre ==
  ASSUME loads \in Nat \ {0}
  PROVE  /\ MarkedVisits \in Seq(TaskVisit)
         /\ Tasks(MarkedVisits) = {ServiceTask(s) : s \in MarkedServices}
<1> DEFINE marks(v) == {ServiceTask(s) : s \in {t \in MarkedServices : server[t] = v}}
           visit(v) == IF marks(v) = {} THEN <<>> ELSE <<Visit(marks(v), marks(v))>>
           list == ServerList(loads)
           s == [i \in DOMAIN list |-> visit(list[i])]
           q == MarkedVisits
           n == Len(list)
<1>1. MarkedServices \subseteq Service
  BY DEF MarkedServices
<1>2. \A v : marks(v) \subseteq Task
  BY <1>1, ServiceTasksAreTasks
<1>3. \A v : Visit(marks(v), marks(v)) \in TaskVisit /\ Visit(marks(v), marks(v)).tasks = marks(v)
  BY <1>2, VisitIs
<1>4. list \in Seq(Server)
  BY ServerListIs
<1>5. n \in Nat /\ DOMAIN list = 1..n
  BY <1>4
<1>6. q = FlattenSeq(s)
  BY DEF MarkedVisits
<1>7. \A v : marks(v) = {} => visit(v) = <<>>
  OBVIOUS
<1>8. \A v : marks(v) # {} => visit(v) = <<Visit(marks(v), marks(v))>>
  OBVIOUS
<1> HIDE DEF marks, visit, list, n, q
<1>9. \A v : /\ visit(v) \in Seq(TaskVisit)
             /\ \A k \in 1..Len(visit(v)) : visit(v)[k].tasks = marks(v)
             /\ marks(v) # {} => 1 \in 1..Len(visit(v))
  <2> SUFFICES ASSUME NEW v
               PROVE  /\ visit(v) \in Seq(TaskVisit)
                      /\ \A k \in 1..Len(visit(v)) : visit(v)[k].tasks = marks(v)
                      /\ marks(v) # {} => 1 \in 1..Len(visit(v))
    OBVIOUS
  <2>1. CASE marks(v) = {}
    <3>1. visit(v) = <<>>
      BY <1>7, <2>1
    <3> QED
      BY <2>1, <3>1
  <2>2. CASE marks(v) # {}
    <3> DEFINE x == Visit(marks(v), marks(v))
    <3>1. visit(v) = <<x>> /\ x \in TaskVisit /\ x.tasks = marks(v)
      BY <1>3, <1>8, <2>2
    <3> HIDE DEF x
    <3> QED
      BY <3>1
  <2> QED
    BY <2>1, <2>2
<1>10. s \in Seq(Seq(TaskVisit)) /\ Len(s) = n /\ \A i \in 1..n : s[i] = visit(list[i])
  BY <1>5, <1>9
<1> HIDE DEF s
<1>11. /\ q \in Seq(TaskVisit)
       /\ \A x : x \in Range(q) <=> \E i \in 1..n : \E k \in 1..Len(s[i]) : x = s[i][k]
  <2>1. s \in Seq(Seq(TaskVisit)) /\ Len(s) = n
    BY <1>10
  <2>2. /\ FlattenSeq(s) \in Seq(TaskVisit)
        /\ \A x : x \in Range(FlattenSeq(s)) <=>
                    \E i \in 1..Len(s) : \E k \in 1..Len(s[i]) : x = s[i][k]
    BY <2>1, JoinedHas
  <2> QED
    BY <1>6, <2>1, <2>2
<1>12. ASSUME NEW x \in Tasks(q) PROVE x \in {ServiceTask(t) : t \in MarkedServices}
  <2>1. PICK w \in Range(q) : x \in w.tasks
    BY <1>12 DEF Tasks
  <2>2. PICK i \in 1..n : \E k \in 1..Len(s[i]) : w = s[i][k]
    BY <1>11, <2>1
  <2>3. x \in marks(list[i])
    BY <1>9, <1>10, <2>1, <2>2
  <2> QED
    BY <2>3 DEF marks
<1>13. ASSUME NEW t \in MarkedServices PROVE ServiceTask(t) \in Tasks(q)
  <2>1. server[t] \in Server
    BY <1>1, ServiceAssumption
  <2>2. PICK i \in 1..n : list[i] = server[t]
    BY <1>5, <2>1, ServerListHas DEF list
  <2>3. ServiceTask(t) \in marks(list[i])
    BY <2>2 DEF marks
  <2>4. 1 \in 1..Len(s[i]) /\ s[i][1].tasks = marks(list[i])
    BY <1>9, <1>10, <2>3
  <2>5. s[i][1] \in Range(q)
    BY <1>11, <2>4
  <2> QED
    BY <2>3, <2>4, <2>5 DEF Tasks
<1> QED
  BY <1>11, <1>12, <1>13 DEF q

\* A configuration has as many services as they have names.
LEMMA ConfigIsFinite == ASSUME NEW c \in Config PROVE IsFiniteSet(c)
<1> DEFINE f == [s \in c |-> name[s]]
<1>1. IsFiniteSet(Resource) /\ c \subseteq Service
  BY ServiceAssumption
<1>2. f \in [c -> Resource]
  BY <1>1, ServiceAssumption
<1>3. \A s, t \in c : f[s] = f[t] => s = t
  BY ServiceAssumption
<1>4. f \in Injection(c, Resource)
  BY <1>2, <1>3 DEF Injection, IsInjective
<1> QED
  BY <1>1, <1>4, FS_Injection

\* A command for services visits each.
LEMMA TargetVisitsAre ==
  ASSUME NEW c \in Config, NEW S \in SUBSET c, NEW A, A = {ServiceTask(s) : s \in S}
  PROVE  A \subseteq Task /\ TargetVisits(A) \in Seq(TaskVisit) /\ Tasks(TargetVisits(A)) = A
<1> DEFINE V == {Visit({t}, {t}) : t \in A}
           f == [s \in S |-> Visit({ServiceTask(s)}, {ServiceTask(s)})]
<1>1. A \subseteq Task
  BY ServiceAssumption, ServiceTasksAreTasks
<1>2. \A t \in A : Visit({t}, {t}) \in TaskVisit /\ Visit({t}, {t}).tasks = {t}
  BY <1>1, VisitIs
<1>3. IsFiniteSet(S)
  BY ConfigIsFinite, FS_Subset
<1>4. f \in Surjection(S, V)
  <2>1. f \in [S -> V]
    OBVIOUS
  <2>2. \A v \in V : \E s \in S : f[s] = v
    OBVIOUS
  <2> QED
    BY <2>1, <2>2 DEF Surjection
<1>5. IsFiniteSet(V)
  BY <1>3, <1>4, FS_Surjection
<1>6. V \subseteq TaskVisit
  BY <1>2
<1>7. TargetVisits(A) = SetToSeq(V)
  BY DEF TargetVisits
<1>8. ASSUME NEW x PROVE x \in UNION {v.tasks : v \in V} <=> x \in A
  <2>1. ASSUME NEW v \in V, x \in v.tasks PROVE x \in A
    BY <1>2, <2>1
  <2>2. ASSUME x \in A PROVE \E v \in V : x \in v.tasks
    <3>1. Visit({x}, {x}) \in V /\ x \in Visit({x}, {x}).tasks
      BY <1>2, <2>2
    <3> QED
      BY <3>1
  <2> QED
    BY <2>1, <2>2
<1> HIDE DEF V
<1>9. SetToSeq(V) \in Seq(V) /\ Range(SetToSeq(V)) = V
  BY <1>5, SetAsList
<1>10. SetToSeq(V) \in Seq(TaskVisit)
  BY <1>6, <1>9
<1>11. Tasks(SetToSeq(V)) = A
  BY <1>8, <1>9 DEF Tasks
<1> QED
  BY <1>1, <1>7, <1>10, <1>11

-----------------------------------------------------------------------------
(* What is asked, done and reported.                                          *)

\* Of one actor with visits v to make and tasks h at hand: the tasks A it was asked
\* to carry out are at hand, to be visited or in its answers w; it has touched t.
Account(v, h, A, t, w) ==
  /\ v \in Seq(TaskVisit) /\ A \subseteq Task /\ w \subseteq Task \X {"ok", "failed"}
  /\ h \subseteq A /\ t \subseteq A /\ Tasks(v) \subseteq A
  /\ \A x \in A : x \in h \/ x \in Tasks(v) \/ \E y \in w : y[1] = x
  /\ \A y \in w : y[2] = "ok" => y[1] \in t

\* Nothing has been confirmed yet in phase p of operation o.
Clear(a, p, o) ==
  \/ p \in {"idle", "select", "list"}
  \/ p = "scan" /\ o # "clean"
  \/ p = "confirm" /\ a = Tui

Stage(a, p, o, v, f, A, t, w) ==
  /\ Clear(a, p, o) => A = {} /\ t = {} /\ w = {}
  /\ Clear(a, p, o) \/ p \in {"scan", "over"} => v = <<>>
  /\ o # "cleanup" => f = <<>>
  /\ \A i \in DOMAIN f : Size(f[i]) > 0
  /\ p = "list" \/ (p = "scan" /\ a = Tui) => o = "cleanup"
  /\ p \in {"select", "list"} => a = Tui

Booked(a) ==
  /\ Account(visits[a], here[a], targets[a], touched[a], answers[a])
  /\ Stage(a, phase[a], op[a], visits[a], found[a], targets[a], touched[a], answers[a])

BookInv ==
  /\ DOMAIN targets = Actor /\ DOMAIN touched = Actor /\ DOMAIN answers = Actor
  /\ \A a \in Actor : Booked(a)

LEMMA NothingAsked == Account(<<>>, {}, {}, {}, {})
BY NoVisits DEF Account

\* Visits are added together with their tasks.
LEMMA MoreAsked ==
  ASSUME NEW A, NEW t, NEW w, Account(<<>>, {}, A, t, w), NEW q \in Seq(TaskVisit)
  PROVE  Account(q, {}, A \cup Tasks(q), t, w)
<1>1. Tasks(q) \subseteq Task
  BY DEF Tasks, TaskVisit, Range
<1>2. \A x \in A : \E y \in w : y[1] = x
  BY NoVisits DEF Account
<1> QED
  BY <1>1, <1>2 DEF Account

\* A connection is made, or is not.
LEMMA Connected ==
  ASSUME NEW v, NEW A, NEW t, NEW w, Account(v, {}, A, t, w), v # <<>>
  PROVE  /\ Account(Tail(v), Head(v).tasks, A, t, w)
         /\ Account(Tail(v), {}, A, t, w \cup (Head(v).items \X {"failed"}))
<1>1. /\ Head(v) \in TaskVisit /\ Tail(v) \in Seq(TaskVisit)
      /\ Tasks(v) = Head(v).tasks \cup Tasks(Tail(v))
  BY VisitsLeft DEF Account
<1>2. Head(v).tasks \subseteq Head(v).items /\ Head(v).items \subseteq Task
  BY <1>1 DEF TaskVisit
<1> DEFINE T == Head(v).tasks
           I == Head(v).items
           r == Tail(v)
           z == w \cup (I \X {"failed"})
<1> HIDE DEF T, I, r
<1>3. Account(r, T, A, t, w)
  BY <1>1 DEF Account, T, r
<1>4. z \subseteq Task \X {"ok", "failed"}
  BY <1>2 DEF Account, I
<1>5. \A y \in z : y[2] = "ok" => y[1] \in t
  BY DEF Account
<1>6. ASSUME NEW x \in A PROVE x \in Tasks(r) \/ \E y \in z : y[1] = x
  <2>1. CASE x \in T
    <3>1. <<x, "failed">> \in z
      BY <1>2, <2>1 DEF T, I
    <3> QED
      BY <3>1
  <2>2. CASE x \notin T
    BY <1>1, <2>2 DEF Account, T, r
  <2> QED
    BY <2>1, <2>2
<1>7. Account(r, {}, A, t, z)
  BY <1>1, <1>4, <1>5, <1>6 DEF Account, r
<1> QED
  BY <1>3, <1>7 DEF T, I, r

\* A task x is carried out or not, by which what is touched goes from t to u, and
\* reported on with s.
Tells(s, x, t, u) == s \in {"ok", "failed"} /\ u \in {t, t \cup {x}} /\ (s = "ok" => x \in u)

LEMMA Reported ==
  ASSUME NEW v, NEW h, NEW A, NEW t, NEW w, Account(v, h, A, t, w), NEW x \in h,
         NEW s, NEW u, Tells(s, x, t, u)
  PROVE  Account(v, h \ {x}, A, u, w \cup {<<x, s>>})
<1> USE DEF Tells
<1>1. x \in A /\ x \in Task
  BY DEF Account
<1>2. u \subseteq A /\ t \subseteq u
  BY <1>1 DEF Account
<1> DEFINE z == w \cup {<<x, s>>}
<1>3. z \subseteq Task \X {"ok", "failed"}
  BY <1>1 DEF Account
<1>4. \A y \in z : y[2] = "ok" => y[1] \in u
  BY <1>2 DEF Account
<1>5. ASSUME NEW b \in A PROVE b \in h \ {x} \/ b \in Tasks(v) \/ \E y \in z : y[1] = b
  <2>1. <<x, s>> \in z /\ <<x, s>>[1] = x
    OBVIOUS
  <2>2. CASE b = x
    BY <2>1, <2>2
  <2>3. CASE b # x
    BY <2>3 DEF Account
  <2> QED
    BY <2>2, <2>3
<1> QED
  BY <1>2, <1>3, <1>4, <1>5 DEF Account

LEMMA BookInit == Init => BookInv
<1> SUFFICES ASSUME Init PROVE BookInv
  OBVIOUS
<1>1. ASSUME NEW a \in Actor PROVE Booked(a)
  <2>1. /\ visits[a] = <<>> /\ here[a] = {} /\ targets[a] = {} /\ touched[a] = {}
        /\ answers[a] = {} /\ phase[a] = "idle" /\ found[a] = <<>>
    BY DEF Init
  <2> QED
    BY <2>1, NothingAsked DEF Booked, Stage, Clear
<1> QED
  BY <1>1 DEF Init, BookInv

\* A step of one actor, and what it leaves to be shown.
BooksOf(a) ==
  StepOf(a) /\ Only(a, targets, targets') /\ Only(a, touched, touched') /\ Only(a, answers, answers')

LEMMA BookStep ==
  ASSUME BookInv, NEW a \in Actor, BooksOf(a), Booked(a)' PROVE BookInv'
<1>1. ASSUME NEW b \in Actor, b # a PROVE Booked(b)'
  <2>1. /\ visits'[b] = visits[b] /\ here'[b] = here[b] /\ targets'[b] = targets[b]
        /\ touched'[b] = touched[b] /\ answers'[b] = answers[b] /\ phase'[b] = phase[b]
        /\ op'[b] = op[b] /\ found'[b] = found[b]
    BY <1>1 DEF BooksOf, StepOf, Only
  <2> QED
    BY <2>1 DEF BookInv, Booked
<1> QED
  BY <1>1 DEF BookInv, BooksOf, Only

LEMMA NoBooks ==
  ASSUME BookInv, UNCHANGED <<op, phase, found, visits, here, targets, touched, answers>>
  PROVE  BookInv'
BY DEF BookInv, Booked

LEMMA BooksNow ==
  ASSUME BookInv, NEW a \in Actor
  PROVE  /\ Account(visits[a], here[a], targets[a], touched[a], answers[a])
         /\ Stage(a, phase[a], op[a], visits[a], found[a], targets[a], touched[a], answers[a])
BY DEF BookInv, Booked

LEMMA BookJob ==
  ASSUME CleanInv, BookInv, TreeInv,
         \/ OpenCleanup \/ \E o \in {"stop", "restart"} : OpenServices(o)
         \/ \E a \in Actor : RunService(a) \/ RunCleanup(a)
  PROVE  BookInv'
<1> USE DEF Starts, Goto, work
<1>t. Tui \in Actor /\ \A a \in Command : a \in Actor /\ a # Tui
  BY ServiceAssumption DEF Actor
<1>i. ASSUME NEW a \in Actor, phase[a] = "idle"
      PROVE  /\ found[a] = <<>> /\ visits[a] = <<>> /\ here[a] = {}
             /\ targets[a] = {} /\ touched[a] = {} /\ answers[a] = {}
  BY <1>i, AtRest, BooksNow DEF Stage, Clear
\* A scan or a tree begins, with nothing asked.
<1>s. ASSUME NEW a \in Actor, phase[a] = "idle", StepOf(a),
             UNCHANGED <<found, visits, here, targets, touched, answers>>,
             \/ phase'[a] = "scan" /\ op'[a] \in Cleans /\ (a = Tui => op'[a] = "cleanup")
             \/ phase'[a] = "select" /\ a = Tui
      PROVE  BookInv'
  <2>1. BooksOf(a)
    BY <1>s, Changed DEF BooksOf, BookInv
  <2>2. Account(visits'[a], here'[a], targets'[a], touched'[a], answers'[a])
    BY <1>s, BooksNow
  <2>3. Stage(a, phase'[a], op'[a], visits'[a], found'[a], targets'[a], touched'[a], answers'[a])
    BY <1>s, <1>i DEF Stage
  <2> QED
    BY <2>1, <2>2, <2>3, BookStep DEF Booked
<1>1. CASE OpenCleanup
  <2>1. /\ phase[Tui] = "idle" /\ UNCHANGED <<found, here, visits, targets, touched, answers>>
        /\ op' = [op EXCEPT ![Tui] = "cleanup"] /\ phase' = [phase EXCEPT ![Tui] = "scan"]
        /\ basis' = [basis EXCEPT ![Tui] = loaded]
    BY <1>1 DEF OpenCleanup
  <2>2. StepOf(Tui) /\ op'[Tui] = "cleanup" /\ phase'[Tui] = "scan"
    BY <1>t, <2>1, Changed DEF CleanInv, StepOf
  <2> QED
    BY <1>t, <1>s, <2>1, <2>2 DEF Cleans
<1>2. ASSUME NEW o \in {"stop", "restart"}, OpenServices(o) PROVE BookInv'
  <2>1. /\ phase[Tui] = "idle" /\ UNCHANGED <<found, here, visits, basis, targets, touched, answers>>
        /\ op' = [op EXCEPT ![Tui] = o] /\ phase' = [phase EXCEPT ![Tui] = "select"]
    BY <1>2 DEF OpenServices
  <2>2. StepOf(Tui) /\ op'[Tui] = o /\ phase'[Tui] = "select"
    BY <1>t, <2>1, Changed DEF CleanInv, StepOf
  <2> QED
    BY <1>t, <1>s, <2>1, <2>2
<1>3. ASSUME NEW a \in Actor, RunCleanup(a) PROVE BookInv'
  <2>1. PICK o \in Cleans :
          /\ phase[a] = "idle" /\ UNCHANGED <<found, here, visits, targets, touched, answers>>
          /\ op' = [op EXCEPT ![a] = o] /\ phase' = [phase EXCEPT ![a] = "scan"]
          /\ basis' = [basis EXCEPT ![a] = config]
    BY <1>3, CleanupBegins
  <2>2. StepOf(a) /\ op'[a] = o /\ phase'[a] = "scan"
    BY <2>1, Changed DEF CleanInv, StepOf
  <2>3. a # Tui
    BY <1>3, <1>t DEF RunCleanup
  <2> QED
    BY <1>s, <2>1, <2>2, <2>3
<1>4. ASSUME NEW a \in Actor, RunService(a) PROVE BookInv'
  <2>1. PICK o \in {"stop", "restart"} : \E filters \in Filters :
          LET tasks == {ServiceTask(s) : s \in CollectTargetServices(config, filters)} IN
          /\ phase[a] = "idle" /\ UNCHANGED <<found, here, touched, answers>>
          /\ op' = [op EXCEPT ![a] = o] /\ phase' = [phase EXCEPT ![a] = "confirm"]
          /\ basis' = [basis EXCEPT ![a] = config]
          /\ targets' = [targets EXCEPT ![a] = tasks]
          /\ visits' = [visits EXCEPT ![a] = TargetVisits(tasks)]
    BY <1>4 DEF RunService
  <2>2. PICK filters \in Filters :
          LET tasks == {ServiceTask(s) : s \in CollectTargetServices(config, filters)} IN
          /\ phase[a] = "idle" /\ UNCHANGED <<found, here, touched, answers>>
          /\ op' = [op EXCEPT ![a] = o] /\ phase' = [phase EXCEPT ![a] = "confirm"]
          /\ basis' = [basis EXCEPT ![a] = config]
          /\ targets' = [targets EXCEPT ![a] = tasks]
          /\ visits' = [visits EXCEPT ![a] = TargetVisits(tasks)]
    BY <2>1
  <2> DEFINE S == CollectTargetServices(config, filters)
             T == {ServiceTask(s) : s \in S}
             q == TargetVisits(T)
  <2>3. config \in Config /\ S \in SUBSET config
    BY DEF TreeInv, CollectTargetServices
  <2>4. /\ phase[a] = "idle" /\ UNCHANGED <<found, here, touched, answers>>
        /\ op' = [op EXCEPT ![a] = o] /\ phase' = [phase EXCEPT ![a] = "confirm"]
        /\ basis' = [basis EXCEPT ![a] = config]
        /\ targets' = [targets EXCEPT ![a] = T] /\ visits' = [visits EXCEPT ![a] = q]
    BY <2>2
  <2> HIDE DEF S
  <2>5. T \subseteq Task /\ q \in Seq(TaskVisit) /\ Tasks(q) = T
    BY <2>3, TargetVisitsAre
  <2> HIDE DEF T, q
  <2>6. BooksOf(a)
    BY <2>4, Changed DEF BooksOf, StepOf, CleanInv, BookInv
  <2>7. /\ visits'[a] = q /\ here'[a] = {} /\ targets'[a] = {} \cup Tasks(q)
        /\ touched'[a] = {} /\ answers'[a] = {} /\ found'[a] = <<>>
        /\ op'[a] = o /\ phase'[a] = "confirm"
    BY <1>i, <2>4, <2>5, Changed DEF CleanInv, BookInv
  <2>8. Account(q, {}, {} \cup Tasks(q), {}, {})
    BY <2>5, NothingAsked, MoreAsked
  <2>9. a # Tui
    BY <1>4, <1>t DEF RunService
  <2>10. Booked(a)'
    <3>1. Stage(a, "confirm", o, q, <<>>, {} \cup Tasks(q), {}, {})
      BY <2>9 DEF Stage, Clear
    <3> QED
      BY <2>7, <2>8, <3>1 DEF Booked
  <2> QED
    BY <2>6, <2>10, BookStep
<1> QED
  BY <1>1, <1>2, <1>3, <1>4

LEMMA BookScan ==
  ASSUME CleanInv, ScanInv, BookInv, NEW a \in Actor,
         ScanServer(a) \/ ScanFails(a) \/ ScanDone(a)
  PROVE  BookInv'
<1> USE DEF Goto, work
<1> DEFINE A == targets[a]
           t == touched[a]
           w == answers[a]
<1>f. /\ found[a] \in Seq(OrphanResult(basis[a])) /\ visits[a] = <<>>
      /\ here[a] = {} /\ phase[a] = "scan"
  BY FineNow DEF Fine, ScanServer, ScanFails, ScanDone
<1>b. /\ Account(<<>>, {}, A, t, w)
      /\ Stage(a, "scan", op[a], <<>>, found[a], A, t, w)
  BY <1>f, BooksNow
<1>o. a = Tui => op[a] = "cleanup"
  BY <1>b DEF Stage
<1>1. CASE ScanServer(a)
  <2> DEFINE result == OrphansAt(Head(toScan[a]), basis[a])
             q == OrphanVisits(<<result>>)
  <2>1. result \in OrphanResult(basis[a])
    BY <1>1, ScanFindsOrphans, HeadAndTail DEF ScanServer, ScanInv
  <2>2. UNCHANGED <<op, basis, here, touched, answers>>
    BY <1>1 DEF ScanServer
  <2>3. \/ UNCHANGED <<found, phase, targets, visits>>
        \/ /\ found' = [found EXCEPT ![a] = Append(found[a], result)] /\ Size(result) # 0
           /\ op[a] = "cleanup" /\ UNCHANGED <<phase, targets, visits>>
        \/ /\ visits' = [visits EXCEPT ![a] = q] /\ op[a] # "cleanup"
           /\ targets' = [targets EXCEPT ![a] = A \cup Items(result)]
           /\ phase' = [phase EXCEPT ![a] = "work"] /\ UNCHANGED found
    BY <1>1 DEF ScanServer
  <2>4. q \in Seq(TaskVisit) /\ Tasks(q) = Items(result)
    <3> HIDE DEF result
    <3>1. <<result>> \in Seq(OrphanResult(basis[a]))
      BY <2>1
    <3>2. q \in Seq(TaskVisit)
      BY <3>1, OrphanVisitsAre
    <3>3. DOMAIN q = {1} /\ q[1] = Visit(Items(result), Items(result))
      BY DEF OrphanVisits
    <3>4. q[1].tasks = Items(result)
      BY <3>3 DEF Visit
    <3>5. \A x : x \in Tasks(q) <=> x \in Items(result)
      BY <3>3, <3>4, TaskOfVisit
    <3> QED
      BY <3>2, <3>5
  <2>5. Size(result) # 0 => Size(result) > 0
    <3>1. result.containers \in Seq(Orphan(basis[a])) /\ result.dirs \in Seq(Orphan(basis[a]))
      BY <2>1 DEF OrphanResult
    <3> DEFINE x == Len(result.containers)
               y == Len(result.dirs)
    <3>2. x \in Nat /\ y \in Nat
      BY <3>1
    <3>3. Size(result) = x + y
      BY DEF Size
    <3> HIDE DEF x, y, result
    <3> QED
      BY <3>2, <3>3
  <2> HIDE DEF result, q, A, t, w
  <2>6. BooksOf(a)
    <3>1. /\ Only(a, op, op') /\ Only(a, basis, basis') /\ Only(a, here, here')
          /\ Only(a, touched, touched') /\ Only(a, answers, answers')
      BY <2>2, Changed DEF CleanInv, BookInv
    <3>2. Only(a, found, found')
      BY <2>3 DEF CleanInv, Only
    <3>3. Only(a, phase, phase')
      BY <2>3 DEF CleanInv, Only
    <3>4. Only(a, visits, visits')
      BY <2>3 DEF CleanInv, Only
    <3>5. Only(a, targets, targets')
      BY <2>3 DEF BookInv, Only
    <3> QED
      BY <3>1, <3>2, <3>3, <3>4, <3>5 DEF StepOf, BooksOf
  <2>7. /\ op'[a] = op[a] /\ here'[a] = {} /\ touched'[a] = t /\ answers'[a] = w
        /\ \/ /\ found'[a] = found[a] /\ phase'[a] = "scan" /\ visits'[a] = <<>>
              /\ targets'[a] = A
           \/ /\ found'[a] = Append(found[a], result) /\ Size(result) > 0
              /\ op[a] = "cleanup" /\ phase'[a] = "scan" /\ visits'[a] = <<>>
              /\ targets'[a] = A
           \/ /\ found'[a] = found[a] /\ op[a] # "cleanup" /\ phase'[a] = "work"
              /\ visits'[a] = q /\ targets'[a] = A \cup Tasks(q)
    BY <1>f, <2>2, <2>3, <2>4, <2>5 DEF CleanInv, BookInv, A, t, w
  <2>8. CASE found'[a] = found[a] /\ phase'[a] = "scan" /\ visits'[a] = <<>> /\ targets'[a] = A
    BY <1>b, <2>6, <2>7, <2>8, BookStep DEF Booked
  <2>9. CASE /\ found'[a] = Append(found[a], result) /\ Size(result) > 0
             /\ op[a] = "cleanup" /\ phase'[a] = "scan" /\ visits'[a] = <<>>
             /\ targets'[a] = A
    <3> DEFINE f == found[a]
               g == Append(f, result)
    <3>1. \A i \in DOMAIN f : Size(f[i]) > 0
      BY <1>b DEF Stage
    <3>2. /\ DOMAIN g = 1..(Len(f) + 1) /\ DOMAIN f = 1..Len(f) /\ Len(f) \in Nat
          /\ \A i \in 1..Len(f) : g[i] = f[i] /\ g[Len(f) + 1] = result
      BY <1>f
    <3>3. g[Len(f) + 1] = result
      BY <1>f
    <3> HIDE DEF f, g
    <3>4. \A i \in DOMAIN g : Size(g[i]) > 0
      BY <2>9, <3>1, <3>2, <3>3
    <3>5. Stage(a, "scan", op[a], <<>>, g, A, t, w)
      BY <1>b, <2>9, <3>4 DEF Stage
    <3> QED
      BY <1>b, <2>6, <2>7, <2>9, <3>5, BookStep DEF Booked, f, g
  <2>10. CASE /\ found'[a] = found[a] /\ op[a] # "cleanup" /\ phase'[a] = "work"
              /\ visits'[a] = q /\ targets'[a] = A \cup Tasks(q)
    <3>1. Account(q, {}, A \cup Tasks(q), t, w)
      BY <1>b, <2>4, MoreAsked
    <3>2. Stage(a, "work", op[a], q, found[a], A \cup Tasks(q), t, w)
      BY <1>b DEF Stage, Clear
    <3> QED
      BY <2>6, <2>7, <2>10, <3>1, <3>2, BookStep DEF Booked
  <2> QED
    BY <2>7, <2>8, <2>9, <2>10
<1>2. CASE ScanFails(a)
  <2>1. CASE op[a] = "clean"
    <3>1. UNCHANGED <<op, phase, found, visits, here, targets, touched, answers>>
      BY <1>2, <2>1 DEF ScanFails
    <3> QED
      BY <3>1, NoBooks
  <2>2. CASE op[a] # "clean"
    <3>1. /\ found' = [found EXCEPT ![a] = <<>>] /\ phase' = [phase EXCEPT ![a] = "idle"]
          /\ op' = [op EXCEPT ![a] = None]
          /\ UNCHANGED <<basis, visits, here, targets, touched, answers>>
      BY <1>2, <2>2 DEF ScanFails
    <3>2. BooksOf(a) /\ found'[a] = <<>> /\ phase'[a] = "idle"
      BY <3>1, Changed DEF CleanInv, StepOf, BookInv, BooksOf
    <3>3. A = {} /\ t = {} /\ w = {}
      BY <1>b, <2>2 DEF Stage, Clear
    <3> HIDE DEF A, t, w
    <3>4. Stage(a, "idle", op'[a], <<>>, <<>>, A, t, w)
      BY <3>3 DEF Stage, Clear
    <3> QED
      BY <1>b, <1>f, <3>1, <3>2, <3>4, BookStep DEF Booked, A, t, w
  <2> QED
    BY <2>1, <2>2
<1>3. CASE ScanDone(a)
  <2>1. UNCHANGED <<op, basis, found, here, touched, answers>>
    BY <1>3 DEF ScanDone
  <2>2. CASE a = Tui
    <3>1. phase' = [phase EXCEPT ![a] = "list"] /\ UNCHANGED <<targets, visits>>
      BY <1>3, <2>2 DEF ScanDone
    <3>2. BooksOf(a) /\ phase'[a] = "list"
      BY <2>1, <3>1, Changed DEF CleanInv, StepOf, BookInv, BooksOf
    <3>3. Stage(a, "list", op[a], <<>>, found[a], A, t, w)
      BY <1>b, <1>o, <2>2 DEF Stage, Clear
    <3> QED
      BY <1>b, <1>f, <2>1, <3>1, <3>2, <3>3, BookStep DEF Booked
  <2>3. CASE a # Tui
    <3> DEFINE q == OrphanVisits(found[a])
    <3>1. q \in Seq(TaskVisit) /\ Tasks(q) = Range(Listed(found[a]))
      BY <1>f, OrphanVisitsAre
    <3>2. PICK p : /\ phase' = [phase EXCEPT ![a] = p]
                   /\ p = IF found[a] = <<>> THEN "over" ELSE "confirm"
                   /\ targets' = [targets EXCEPT ![a] = A \cup Tasks(q)]
                   /\ visits' = [visits EXCEPT ![a] = q]
      BY <1>3, <2>3, <3>1 DEF ScanDone
    <3>3. found[a] = <<>> => q = <<>>
      BY DEF OrphanVisits
    <3> HIDE DEF q, A, t, w
    <3>4. BooksOf(a)
      BY <2>1, <3>2, Changed DEF CleanInv, StepOf, BookInv, BooksOf
    <3>5. phase'[a] = p /\ targets'[a] = A \cup Tasks(q) /\ visits'[a] = q
      BY <3>2, Changed DEF CleanInv, BookInv
    <3>6. Account(q, {}, A \cup Tasks(q), t, w)
      BY <1>b, <3>1, MoreAsked
    <3>7. Stage(a, p, op[a], q, found[a], A \cup Tasks(q), t, w)
      BY <1>b, <2>3, <3>2, <3>3 DEF Stage, Clear
    <3> QED
      BY <1>f, <2>1, <3>4, <3>5, <3>6, <3>7, BookStep DEF Booked, t, w
  <2> QED
    BY <2>2, <2>3
<1> QED
  BY <1>1, <1>2, <1>3

LEMMA BookWork ==
  ASSUME CleanInv, BookInv, loads \in Nat \ {0},
         \/ Ask \/ Confirm \/ Back
         \/ \E a \in Actor : Approve(a) \/ Connect(a) \/ Run(a) \/ Finish(a) \/ Leave(a)
  PROVE  BookInv'
<1> USE DEF Goto, work, plan
<1>t. Tui \in Actor /\ \A a \in Command : a \in Actor /\ a # Tui
  BY ServiceAssumption DEF Actor
\* Where only the phase changes.
<1>p. ASSUME NEW a \in Actor, NEW p, phase' = [phase EXCEPT ![a] = p],
             UNCHANGED <<op, basis, found, visits, here, targets, touched, answers>>,
             Stage(a, p, op[a], visits[a], found[a], targets[a], touched[a], answers[a])
      PROVE  BookInv'
  <2>1. BooksOf(a) /\ phase'[a] = p
    BY <1>p, Changed DEF CleanInv, StepOf, BookInv, BooksOf
  <2>2. Booked(a)'
    BY <1>p, <2>1, BooksNow DEF Booked
  <2> QED
    BY <2>1, <2>2, BookStep
<1>1. CASE Ask
  <2>1. /\ phase[Tui] \in {"select", "list"} /\ phase' = [phase EXCEPT ![Tui] = "confirm"]
        /\ UNCHANGED <<op, basis, found, visits, here, targets, touched, answers>>
    BY <1>1 DEF Ask, Selecting
  <2>2. Stage(Tui, "confirm", op[Tui], visits[Tui], found[Tui], targets[Tui], touched[Tui],
              answers[Tui])
    BY <1>t, <2>1, BooksNow DEF Stage, Clear
  <2> QED
    BY <1>t, <1>p, <2>1, <2>2
<1>2. CASE Back
  <2>1. PICK p : /\ phase[Tui] = "confirm" /\ phase' = [phase EXCEPT ![Tui] = p]
                 /\ p = IF op[Tui] = "cleanup" THEN "list" ELSE "select"
                 /\ UNCHANGED <<op, basis, found, visits, here, targets, touched, answers>>
    BY <1>2 DEF Back
  <2>2. Stage(Tui, p, op[Tui], visits[Tui], found[Tui], targets[Tui], touched[Tui],
              answers[Tui])
    BY <1>t, <2>1, BooksNow DEF Stage, Clear
  <2> QED
    BY <1>t, <1>p, <2>1, <2>2
<1>3. CASE Confirm
  <2>1. /\ phase[Tui] = "confirm" /\ phase' = [phase EXCEPT ![Tui] = "work"]
        /\ UNCHANGED <<op, basis, found, here, touched, answers>>
    BY <1>3 DEF Confirm
  <2>2. found[Tui] \in Seq(OrphanResult(basis[Tui])) /\ here[Tui] = {}
    BY <1>t, <2>1, FineNow DEF Fine
  <2>3. targets[Tui] = {} /\ touched[Tui] = {} /\ answers[Tui] = {}
    BY <1>t, <2>1, BooksNow DEF Stage, Clear
  <2>4. PICK q : /\ q \in Seq(TaskVisit)
                 /\ visits' = [visits EXCEPT ![Tui] = q]
                 /\ targets' = [targets EXCEPT ![Tui] = Tasks(q)]
    <3>1. CASE op[Tui] = "cleanup"
      <4> DEFINE l == Listed(found[Tui])
      <4>1. /\ targets' = [targets EXCEPT ![Tui] = {l[k + 1] : k \in ticked \cap 0..(Len(l) - 1)}]
            /\ visits' = [visits EXCEPT ![Tui] = TickedVisits]
        BY <1>3, <3>1 DEF Confirm
      <4>2. /\ TickedVisits \in Seq(TaskVisit)
            /\ Tasks(TickedVisits) = {l[k + 1] : k \in ticked \cap 0..(Len(l) - 1)}
        BY <2>2, TickedVisitsAre
      <4> QED
        BY <4>1, <4>2
    <3>2. CASE op[Tui] # "cleanup"
      <4>1. /\ targets' = [targets EXCEPT ![Tui] = {ServiceTask(s) : s \in MarkedServices}]
            /\ visits' = [visits EXCEPT ![Tui] = MarkedVisits]
        BY <1>3, <3>2 DEF Confirm
      <4> QED
        BY <4>1, MarkedVisitsAre
    <3> QED
      BY <3>1, <3>2
  <2>5. /\ BooksOf(Tui) /\ phase'[Tui] = "work" /\ visits'[Tui] = q
        /\ targets'[Tui] = {} \cup Tasks(q)
    BY <1>t, <2>1, <2>4, Changed DEF CleanInv, StepOf, BookInv, BooksOf
  <2>6. Account(q, {}, {} \cup Tasks(q), {}, {})
    BY <2>4, NothingAsked, MoreAsked
  <2>7. Stage(Tui, "work", op[Tui], q, found[Tui], {} \cup Tasks(q), {}, {})
    BY <1>t, BooksNow DEF Stage, Clear
  <2>8. Booked(Tui)'
    BY <2>1, <2>2, <2>3, <2>5, <2>6, <2>7 DEF Booked
  <2> QED
    BY <1>t, <2>5, <2>8, BookStep
<1>4. ASSUME NEW a \in Actor, Approve(a) PROVE BookInv'
  <2>1. /\ phase' = [phase EXCEPT ![a] = "work"]
        /\ UNCHANGED <<op, basis, found, visits, here, targets, touched, answers>>
    BY <1>4 DEF Approve
  <2>2. Stage(a, "work", op[a], visits[a], found[a], targets[a], touched[a], answers[a])
    BY BooksNow DEF Stage, Clear
  <2> QED
    BY <1>p, <2>1, <2>2
<1>5. ASSUME NEW a \in Actor, Finish(a) PROVE BookInv'
  <2>1. PICK p : /\ phase[a] = "work" /\ visits[a] = <<>>
                 /\ phase' = [phase EXCEPT ![a] = p]
                 /\ p = IF op[a] = "clean" THEN "scan" ELSE "over"
                 /\ UNCHANGED <<op, basis, found, visits, here, targets, touched, answers>>
    BY <1>5 DEF Finish
  <2>2. ~(a = Tui /\ op[a] = "clean")
    BY <2>1 DEF CleanInv
  <2>3. Stage(a, p, op[a], visits[a], found[a], targets[a], touched[a], answers[a])
    BY <2>1, <2>2, BooksNow DEF Stage, Clear
  <2> QED
    BY <1>p, <2>1, <2>3
<1>6. ASSUME NEW a \in Actor, Connect(a) PROVE BookInv'
  <2> DEFINE v == visits[a]
  <2>1. PICK o \in {"done", "refused"} :
          /\ phase[a] = "work" /\ here[a] = {} /\ v # <<>>
          /\ visits' = [visits EXCEPT ![a] = Tail(v)]
          /\ here' = [here EXCEPT ![a] = IF o = "done" THEN Head(v).tasks ELSE {}]
          /\ answers' = [answers EXCEPT ![a] = answers[a] \cup
               IF o = "done" THEN {} ELSE Head(v).items \X {"failed"}]
          /\ UNCHANGED <<op, basis, found, phase, targets, touched>>
    BY <1>6 DEF Connect
  <2> DEFINE h == IF o = "done" THEN Head(v).tasks ELSE {}
             w == answers[a] \cup IF o = "done" THEN {} ELSE Head(v).items \X {"failed"}
  <2>2. Account(v, {}, targets[a], touched[a], answers[a])
    BY <2>1, BooksNow
  <2>3. Account(Tail(v), h, targets[a], touched[a], w)
    <3>1. CASE o = "done"
      <4>1. h = Head(v).tasks /\ w = answers[a]
        BY <3>1
      <4> HIDE DEF h, w, v
      <4> QED
        BY <2>1, <2>2, <4>1, Connected
    <3>2. CASE o = "refused"
      <4>1. h = {} /\ w = answers[a] \cup (Head(v).items \X {"failed"})
        BY <3>2
      <4> HIDE DEF h, w, v
      <4> QED
        BY <2>1, <2>2, <4>1, Connected
    <3> QED
      BY <3>1, <3>2
  <2>4. /\ visits' = [visits EXCEPT ![a] = Tail(v)] /\ here' = [here EXCEPT ![a] = h]
        /\ answers' = [answers EXCEPT ![a] = w]
    BY <2>1
  <2> HIDE DEF h, w, v
  <2>5. /\ BooksOf(a) /\ visits'[a] = Tail(v) /\ here'[a] = h /\ answers'[a] = w
    <3> DEFINE r == Tail(v)
    <3>u. UNCHANGED <<op, basis, found, phase>> /\ visits' = [visits EXCEPT ![a] = r]
      BY <2>1, <2>4
    <3> HIDE DEF r
    <3>c. /\ DOMAIN op = Actor /\ DOMAIN phase = Actor /\ DOMAIN basis = Actor
          /\ DOMAIN found = Actor /\ DOMAIN visits = Actor /\ DOMAIN here = Actor
      BY DEF CleanInv
    <3>v. Only(a, visits, visits') /\ visits'[a] = r
      BY <3>u, <3>c, Changed
    <3>h. Only(a, here, here') /\ here'[a] = h
      BY <2>4, <3>c, Changed
    <3>1. StepOf(a) /\ visits'[a] = Tail(v) /\ here'[a] = h
      BY <3>u, <3>c, <3>v, <3>h, Changed DEF StepOf, r
    <3>2. Only(a, answers, answers') /\ answers'[a] = w
      BY <2>4, Changed DEF BookInv
    <3>3. Only(a, targets, targets') /\ Only(a, touched, touched')
      BY <2>1, Changed DEF BookInv
    <3> QED
      BY <3>1, <3>2, <3>3 DEF BooksOf
  <2>6. Stage(a, "work", op[a], Tail(v), found[a], targets[a], touched[a], w)
    BY <2>1, BooksNow DEF Stage, Clear
  <2>7. Booked(a)'
    BY <2>1, <2>3, <2>5, <2>6 DEF Booked
  <2> QED
    BY <2>5, <2>7, BookStep
<1>7. ASSUME NEW a \in Actor, Run(a) PROVE BookInv'
  <2>1. PICK x \in here[a], s \in {"ok", "failed"} :
          /\ phase[a] = "work" /\ here' = [here EXCEPT ![a] = here[a] \ {x}]
          /\ answers' = [answers EXCEPT ![a] = answers[a] \cup {<<x, s>>}]
          /\ \/ s = "failed" /\ UNCHANGED touched
             \/ touched' = [touched EXCEPT ![a] = touched[a] \cup {x}]
          /\ UNCHANGED <<op, basis, found, visits, phase, targets>>
    <3>1. PICK x \in here[a] : \E o \in {"done", "refused", "lost"} :
            /\ here' = [here EXCEPT ![a] = here[a] \ {x}]
            /\ answers' = [answers EXCEPT ![a] =
                 answers[a] \cup {<<x, IF o = "done" THEN "ok" ELSE "failed">>}]
            /\ IF o = "refused" THEN UNCHANGED touched
               ELSE touched' = [touched EXCEPT ![a] = touched[a] \cup {x}]
      BY <1>7 DEF Run
    <3>2. PICK o \in {"done", "refused", "lost"} :
            /\ here' = [here EXCEPT ![a] = here[a] \ {x}]
            /\ answers' = [answers EXCEPT ![a] =
                 answers[a] \cup {<<x, IF o = "done" THEN "ok" ELSE "failed">>}]
            /\ IF o = "refused" THEN UNCHANGED touched
               ELSE touched' = [touched EXCEPT ![a] = touched[a] \cup {x}]
      BY <3>1
    <3>3. phase[a] = "work" /\ UNCHANGED <<op, basis, found, visits, phase, targets>>
      BY <1>7 DEF Run
    <3>4. CASE o = "done"
      BY <3>2, <3>3, <3>4
    <3>5. CASE o # "done"
      BY <3>2, <3>3, <3>5
    <3> QED
      BY <3>4, <3>5
  <2> DEFINE u == touched'[a]
  <2>2. /\ BooksOf(a) /\ here'[a] = here[a] \ {x} /\ answers'[a] = answers[a] \cup {<<x, s>>}
        /\ u \in {touched[a], touched[a] \cup {x}} /\ (s = "ok" => x \in u)
    <3>1. /\ StepOf(a) /\ Only(a, targets, targets') /\ Only(a, answers, answers')
          /\ here'[a] = here[a] \ {x} /\ answers'[a] = answers[a] \cup {<<x, s>>}
      BY <2>1, Changed DEF CleanInv, StepOf, BookInv
    <3>2. CASE s = "failed" /\ UNCHANGED touched
      BY <3>1, <3>2, Changed DEF BookInv, BooksOf
    <3>3. CASE touched' = [touched EXCEPT ![a] = touched[a] \cup {x}]
      <4>1. Only(a, touched, touched') /\ u = touched[a] \cup {x}
        BY <3>3, Changed DEF BookInv
      <4> QED
        BY <3>1, <4>1 DEF BooksOf
    <3> QED
      BY <2>1, <3>2, <3>3
  <2> HIDE DEF u
  <2>3. Account(visits[a], here[a] \ {x}, targets[a], u, answers[a] \cup {<<x, s>>})
    <3>1. Account(visits[a], here[a], targets[a], touched[a], answers[a])
      BY BooksNow
    <3>2. x \in here[a] /\ Tells(s, x, touched[a], u)
      BY <2>2 DEF Tells
    <3> QED
      BY <3>1, <3>2, Reported
  <2>4. Stage(a, "work", op[a], visits[a], found[a], targets[a], u, answers[a] \cup {<<x, s>>})
    BY <2>1, BooksNow DEF Stage, Clear
  <2>5. Booked(a)'
    BY <2>1, <2>2, <2>3, <2>4 DEF Booked, u
  <2> QED
    BY <2>2, <2>5, BookStep
<1>8. ASSUME NEW a \in Actor, Leave(a) PROVE BookInv'
  <2>1. /\ phase[a] \in {"over", "select", "list", "confirm"}
        /\ phase' = [phase EXCEPT ![a] = "idle"] /\ op' = [op EXCEPT ![a] = None]
        /\ found' = [found EXCEPT ![a] = <<>>] /\ visits' = [visits EXCEPT ![a] = <<>>]
        /\ basis' = [basis EXCEPT ![a] = {}] /\ UNCHANGED here
        /\ targets' = [targets EXCEPT ![a] = {}] /\ touched' = [touched EXCEPT ![a] = {}]
        /\ answers' = [answers EXCEPT ![a] = {}]
    BY <1>8 DEF Leave
  <2>2. BooksOf(a)
    BY <2>1, Changed DEF CleanInv, StepOf, BookInv, BooksOf
  <2>3. /\ phase'[a] = "idle" /\ found'[a] = <<>> /\ visits'[a] = <<>> /\ here'[a] = {}
        /\ targets'[a] = {} /\ touched'[a] = {} /\ answers'[a] = {}
    BY <2>1, Changed, FineNow DEF CleanInv, Fine, BookInv
  <2>4. Stage(a, "idle", op'[a], <<>>, <<>>, {}, {}, {})
    BY DEF Stage
  <2>5. Booked(a)'
    BY <2>3, <2>4, NothingAsked DEF Booked
  <2> QED
    BY <2>2, <2>5, BookStep
<1> QED
  BY <1>1, <1>2, <1>3, <1>4, <1>5, <1>6, <1>7, <1>8

-----------------------------------------------------------------------------
(* The ticks, and the types of the rest.                                      *)

\* The ticks are of the list, and there are none before it is shown.
TickInv ==
  /\ ticked \subseteq {0} \cup 0..(CountItems(found[Tui]) - 1)
  /\ phase[Tui] \in {"idle", "scan"} \/ op[Tui] # "cleanup" => ticked = {}

LEMMA TickInit == Init => TickInv
BY DEF Init, TickInv

LEMMA TickStep == CleanInv /\ BookInv /\ TickInv /\ [Next]_vars => TickInv'
<1> SUFFICES ASSUME CleanInv, BookInv, TickInv, [Next]_vars PROVE TickInv'
  OBVIOUS
<1> USE DEF Goto, work, plan, Starts
<1>t. Tui \in Actor /\ Tui \notin Command
  BY ServiceAssumption DEF Actor
<1>d. DOMAIN op = Actor /\ DOMAIN phase = Actor /\ DOMAIN found = Actor
  BY DEF CleanInv
<1>s. /\ phase[Tui] \in {"scan", "list"} => op[Tui] = "cleanup"
      /\ phase[Tui] = "work" => op[Tui] # "clean"
  BY <1>t, BooksNow DEF Stage, CleanInv
<1>1. CASE UNCHANGED <<ticked, found, phase, op>>
  BY <1>1 DEF TickInv
<1>2. CASE Mark \/ Refresh \/ EditConfig \/ (\E s \in Service : DeployElsewhere(s))
           \/ UNCHANGED vars
  <2>1. UNCHANGED <<ticked, found, phase, op>>
    BY <1>2 DEF Mark, Space, SelectCurrent, SelectAll, UnchangedButMarks, Refresh, EditConfig,
                DeployElsewhere, vars
  <2> QED
    BY <1>1, <2>1
<1>3. CASE ticked = {} /\ UNCHANGED ticked
  BY <1>3 DEF TickInv
<1>4. CASE OpenCleanup \/ \E o \in {"stop", "restart"} : OpenServices(o)
  <2>1. phase[Tui] = "idle" /\ UNCHANGED ticked
    BY <1>4 DEF OpenCleanup, OpenServices
  <2> QED
    BY <1>3, <2>1 DEF TickInv
<1>5. ASSUME NEW k \in {0} \cup 0..(CountItems(found[Tui]) - 1), Tick(k) PROVE TickInv'
  <2>1. phase[Tui] = "list" /\ UNCHANGED <<found, phase, op>>
    BY <1>5 DEF Tick
  <2>2. ticked' \subseteq ticked \cup {k}
    BY <1>5 DEF Tick
  <2> QED
    BY <1>5, <1>s, <2>1, <2>2 DEF TickInv
\* The operation goes on with its list.
<1>6. CASE UNCHANGED <<ticked, found, op>> /\ phase'[Tui] \notin {"idle", "scan"}
  BY <1>6 DEF TickInv
<1>7. CASE Ask \/ Confirm \/ Back
  <2>1. UNCHANGED <<ticked, found, op>>
    BY <1>7 DEF Ask, Confirm, Back
  <2>2. \E p \in {"confirm", "work", "list", "select"} : phase' = [phase EXCEPT ![Tui] = p]
    BY <1>7 DEF Ask, Confirm, Back
  <2> QED
    BY <1>t, <1>d, <1>6, <2>1, <2>2
<1>8. ASSUME NEW a \in Command, Step(a) PROVE TickInv'
  <2>1. a # Tui
    BY <1>t
  <2>2. UNCHANGED ticked
    BY <1>8, <2>1 DEF Step, RunService, RunCleanup, Approve, ScanServer, ScanFails, ScanDone,
                      Connect, Run, Finish, Leave
  <2>3. op'[Tui] = op[Tui]
    BY <1>8, <1>d, <1>t, <2>1
       DEF Step, RunService, RunCleanup, Approve, ScanServer, ScanFails, ScanDone,
           Connect, Run, Finish, Leave
  <2>4. phase'[Tui] = phase[Tui]
    BY <1>8, <1>d, <1>t, <2>1
       DEF Step, RunService, RunCleanup, Approve, ScanServer, ScanFails, ScanDone,
           Connect, Run, Finish, Leave
  <2>5. found'[Tui] = found[Tui]
    BY <1>8, <1>d, <1>t, <2>1
       DEF Step, RunService, RunCleanup, Approve, ScanServer, ScanFails, ScanDone,
           Connect, Run, Finish, Leave
  <2> QED
    BY <2>2, <2>3, <2>4, <2>5 DEF TickInv
<1>9. CASE ScanServer(Tui) \/ ScanFails(Tui)
  <2>1. phase[Tui] = "scan" /\ UNCHANGED ticked
    BY <1>9 DEF ScanServer, ScanFails
  <2> QED
    BY <1>3, <2>1 DEF TickInv
<1>10. CASE ScanDone(Tui)
  <2>1. /\ phase[Tui] = "scan" /\ phase' = [phase EXCEPT ![Tui] = "list"]
        /\ ticked' = AllTicked(found[Tui]) /\ UNCHANGED <<op, found>>
    BY <1>10 DEF ScanDone
  <2>2. phase'[Tui] = "list" /\ op'[Tui] = "cleanup"
    BY <1>d, <1>s, <1>t, <2>1
  <2> QED
    BY <2>1, <2>2 DEF TickInv, AllTicked
<1>11. CASE Connect(Tui) \/ Run(Tui)
  <2>1. UNCHANGED <<ticked, found, phase, op>>
    BY <1>11 DEF Connect, Run
  <2> QED
    BY <1>1, <2>1
<1>12. CASE Finish(Tui)
  <2>1. UNCHANGED <<ticked, found, op>> /\ phase' = [phase EXCEPT ![Tui] = "over"]
    BY <1>12, <1>s DEF Finish
  <2> QED
    BY <1>d, <1>t, <1>6, <2>1
<1>13. CASE Leave(Tui)
  <2>1. ticked' = {}
    BY <1>13 DEF Leave
  <2> QED
    BY <2>1 DEF TickInv
<1>14. ASSUME Step(Tui) PROVE TickInv'
  <2>1. ~(RunService(Tui) \/ RunCleanup(Tui) \/ Approve(Tui))
    BY <1>t DEF RunService, RunCleanup, Approve
  <2> QED
    BY <1>9, <1>10, <1>11, <1>12, <1>13, <1>14, <2>1 DEF Step
<1>15. CASE Key
  BY <1>2, <1>4, <1>5, <1>7, <1>15 DEF Key
<1> QED
  BY <1>2, <1>8, <1>14, <1>15 DEF Next, Actor

Ops == {None, "stop", "restart", "cleanup", "clean"}
Phases == {"idle", "select", "scan", "list", "confirm", "work", "over"}

RestInv ==
  /\ loads \in 1..MaxLoads /\ up \subseteq containers
  /\ op \in [Actor -> Ops] /\ phase \in [Actor -> Phases]
  /\ basis \in [Actor -> Config \cup {{}}]
  /\ jobs \in 0..MaxJobs /\ changes \in 0..MaxChanges /\ failures \in 0..MaxFailures

LEMMA RestInit == Init => RestInv
BY ServiceAssumption DEF Init, RestInv, Ops, Phases

\* A command on a server.
LEMMA PerformKeeps ==
  ASSUME up \subseteq containers, NEW o \in {"stop", "restart", "cleanup", "clean"}, NEW t,
         o \in Cleans => t[2] \in {"container", "dir"}, Perform(o, t)
  PROVE  up' \subseteq containers'
<1>1. CASE o = "stop"
  BY <1>1 DEF Perform
<1>2. CASE o = "restart"
  BY <1>2 DEF Perform
<1>3. CASE o \in {"cleanup", "clean"} /\ t[2] = "container"
  BY <1>3 DEF Perform
<1>4. CASE o \in {"cleanup", "clean"} /\ t[2] = "dir"
  BY <1>4 DEF Perform
<1> QED
  BY <1>1, <1>2, <1>3, <1>4 DEF Cleans

LEMMA RestStep == TreeInv /\ CleanInv /\ RestInv /\ [Next]_vars => RestInv'
<1> SUFFICES ASSUME TreeInv, CleanInv, RestInv, [Next]_vars PROVE RestInv'
  OBVIOUS
<1>t. Tui \in Actor /\ Command \subseteq Actor
  BY DEF Actor
<1>n. MaxLoads \in Nat /\ MaxJobs \in Nat /\ MaxChanges \in Nat /\ MaxFailures \in Nat
  BY ServiceAssumption
<1>1. CASE UNCHANGED vars
  BY <1>1 DEF RestInv, vars, hosts, screen, plan
<1>2. CASE Mark
  BY <1>2 DEF RestInv, Mark, Space, SelectCurrent, SelectAll, UnchangedButMarks, hosts, plan
<1>3. CASE Refresh
  <2>1. UNCHANGED <<up, containers, op, phase, basis, jobs, changes, failures>>
    BY <1>3 DEF Refresh, hosts, plan
  <2>2. loads' \in 1..MaxLoads
    BY <1>3, <1>n DEF Refresh, RestInv
  <2> QED
    BY <2>1, <2>2 DEF RestInv
<1>4. CASE EditConfig
  <2>1. UNCHANGED <<up, containers, op, phase, basis, jobs, loads, failures>>
    BY <1>4 DEF EditConfig, hosts, plan, screen
  <2>2. changes' \in 0..MaxChanges
    BY <1>4, <1>n DEF EditConfig, RestInv
  <2> QED
    BY <2>1, <2>2 DEF RestInv
<1>5. ASSUME NEW s \in Service, DeployElsewhere(s) PROVE RestInv'
  <2>1. UNCHANGED <<op, phase, basis, jobs, loads, failures>>
    BY <1>5 DEF DeployElsewhere, plan, screen
  <2>2. changes' \in 0..MaxChanges
    BY <1>5, <1>n DEF DeployElsewhere, RestInv
  <2>3. up' \subseteq containers'
    BY <1>5 DEF DeployElsewhere, RestInv
  <2> QED
    BY <2>1, <2>2, <2>3 DEF RestInv
\* A step of an actor that starts no operation and carries nothing out.
<1>6. ASSUME NEW a \in Actor, NEW p \in Phases, NEW o \in Ops, NEW c \in Config \cup {{}},
             op' \in {op, [op EXCEPT ![a] = o]}, phase' \in {phase, [phase EXCEPT ![a] = p]},
             basis' \in {basis, [basis EXCEPT ![a] = c]}
      PROVE  /\ op' \in [Actor -> Ops] /\ phase' \in [Actor -> Phases]
             /\ basis' \in [Actor -> Config \cup {{}}]
  <2>1. op' \in [Actor -> Ops]
    BY <1>6 DEF RestInv
  <2>2. phase' \in [Actor -> Phases]
    BY <1>6 DEF RestInv
  <2>3. basis' \in [Actor -> Config \cup {{}}]
    BY <1>6 DEF RestInv
  <2> QED
    BY <2>1, <2>2, <2>3
<1>7. ASSUME NEW a \in Actor, Starts(a)
      PROVE  jobs' \in 0..MaxJobs
  BY <1>7, <1>n DEF Starts, RestInv
<1>8. ASSUME NEW o, Fails(o) PROVE failures' \in 0..MaxFailures
  <2>1. failures' \in {failures, failures + 1} /\ failures' <= MaxFailures
    BY <1>8, <1>n DEF Fails, RestInv
  <2> QED
    BY <1>n, <2>1 DEF RestInv
<1>9. ASSUME NEW o \in {"stop", "restart"}, OpenServices(o) PROVE RestInv'
  <2>1. /\ UNCHANGED <<up, containers, basis, changes, loads, failures>>
        /\ op' = [op EXCEPT ![Tui] = o] /\ phase' = [phase EXCEPT ![Tui] = "select"]
        /\ Starts(Tui)
    BY <1>9 DEF OpenServices, hosts, Goto
  <2>2. o \in Ops /\ "select" \in Phases
    BY DEF Ops, Phases
  <2> QED
    BY <1>t, <1>6, <1>7, <2>1, <2>2 DEF RestInv
<1>10. CASE OpenCleanup
  <2>1. /\ UNCHANGED <<up, containers, changes, loads, failures>>
        /\ op' = [op EXCEPT ![Tui] = "cleanup"] /\ phase' = [phase EXCEPT ![Tui] = "scan"]
        /\ basis' = [basis EXCEPT ![Tui] = loaded] /\ Starts(Tui)
    BY <1>10 DEF OpenCleanup, hosts, Goto, screen
  <2>2. "cleanup" \in Ops /\ "scan" \in Phases /\ loaded \in Config \cup {{}}
    BY DEF Ops, Phases, TreeInv
  <2> QED
    BY <1>t, <1>6, <1>7, <2>1, <2>2 DEF RestInv
<1>11. ASSUME NEW a \in Command, RunService(a) \/ RunCleanup(a) PROVE RestInv'
  <2>1. PICK o \in Ops, p \in Phases :
          /\ UNCHANGED <<up, containers, changes, loads, failures>>
          /\ op' = [op EXCEPT ![a] = o] /\ phase' = [phase EXCEPT ![a] = p]
          /\ basis' = [basis EXCEPT ![a] = config] /\ Starts(a)
    <3>1. CASE RunService(a)
      BY <3>1 DEF RunService, hosts, Goto, screen, Ops, Phases
    <3>2. CASE RunCleanup(a)
      <4>1. Cleans \subseteq Ops /\ "scan" \in Phases
        BY DEF Cleans, Ops, Phases
      <4> QED
        BY <3>2, <4>1, CleanupBegins
    <3> QED
      BY <1>11, <3>1, <3>2
  <2>2. config \in Config \cup {{}}
    BY DEF TreeInv
  <2> QED
    BY <1>t, <1>6, <1>7, <2>1, <2>2 DEF RestInv
\* Only the phase changes, or not even that.
<1>12. ASSUME NEW a \in Actor, NEW p \in Phases, phase' \in {phase, [phase EXCEPT ![a] = p]},
              UNCHANGED <<up, containers, op, basis, jobs, changes, loads>>,
              failures' \in 0..MaxFailures
       PROVE  RestInv'
  BY <1>12 DEF RestInv
<1>13. CASE Ask \/ Confirm \/ Back
  <2>1. PICK p \in Phases : phase' = [phase EXCEPT ![Tui] = p]
    BY <1>13 DEF Ask, Confirm, Back, Goto, Phases
  <2>2. UNCHANGED <<up, containers, op, basis, jobs, changes, loads, failures>>
    BY <1>13 DEF Ask, Confirm, Back, hosts, plan, screen
  <2> QED
    BY <1>t, <1>12, <2>1, <2>2 DEF RestInv
<1>14. ASSUME NEW k, Tick(k) PROVE RestInv'
  BY <1>14 DEF Tick, RestInv, hosts, screen
<1>15. ASSUME NEW a \in Actor, ScanServer(a) \/ ScanDone(a) \/ Approve(a) \/ Finish(a)
       PROVE  RestInv'
  <2>1. PICK p \in Phases : phase' \in {phase, [phase EXCEPT ![a] = p]}
    <3>1. CASE ScanServer(a)
      BY <3>1 DEF ScanServer, Goto, Phases
    <3>2. CASE ScanDone(a) \/ Approve(a) \/ Finish(a)
      BY <3>2 DEF ScanDone, Approve, Finish, Goto, Phases
    <3> QED
      BY <1>15, <3>1, <3>2
  <2>2. UNCHANGED <<up, containers, op, basis, jobs, changes, loads, failures>>
    BY <1>15 DEF ScanServer, ScanDone, Approve, Finish, hosts, plan, screen
  <2> QED
    BY <1>12, <2>1, <2>2 DEF RestInv
<1>16. ASSUME NEW a \in Actor, ScanFails(a) PROVE RestInv'
  <2>1. /\ phase' \in {phase, [phase EXCEPT ![a] = "idle"]} /\ op' \in {op, [op EXCEPT ![a] = None]}
        /\ UNCHANGED <<up, containers, basis, jobs, changes, loads>> /\ Fails("refused")
    BY <1>16 DEF ScanFails, Goto, hosts, screen
  <2>2. "idle" \in Phases /\ None \in Ops /\ {} \in Config \cup {{}}
    BY DEF Phases, Ops
  <2> QED
    BY <1>6, <1>8, <2>1, <2>2 DEF RestInv
<1>17. ASSUME NEW a \in Actor, Connect(a) PROVE RestInv'
  <2>1. /\ UNCHANGED <<up, containers, op, basis, jobs, changes, loads, phase>>
        /\ \E o : Fails(o)
    BY <1>17 DEF Connect, hosts, plan, screen
  <2>2. failures' \in 0..MaxFailures
    BY <1>8, <2>1
  <2> QED
    BY <2>1, <2>2 DEF RestInv
<1>18. ASSUME NEW a \in Actor, Run(a) PROVE RestInv'
  <2>1. /\ UNCHANGED <<op, basis, jobs, changes, loads, phase>> /\ phase[a] = "work"
        /\ UNCHANGED failures \/ \E o : Fails(o)
    BY <1>18 DEF Run, plan, screen
  <2>2. failures' \in 0..MaxFailures
    BY <1>8, <2>1 DEF RestInv
  <2>3. up' \subseteq containers'
    <3>1. PICK t \in here[a] : UNCHANGED hosts \/ Perform(op[a], t)
      BY <1>18 DEF Run
    <3>2. /\ op[a] \in {"stop", "restart", "cleanup", "clean"}
          /\ op[a] \in Cleans => here[a] \subseteq OrphanTask(basis[a])
      BY <2>1, FineNow DEF Fine, Cleans
    <3>3. op[a] \in Cleans => t[2] \in {"container", "dir"}
      BY <3>2 DEF OrphanTask
    <3>4. CASE UNCHANGED hosts
      BY <3>4 DEF hosts, RestInv
    <3>5. CASE Perform(op[a], t)
      BY <3>2, <3>3, <3>5, PerformKeeps DEF RestInv
    <3> QED
      BY <3>1, <3>4, <3>5
  <2> QED
    BY <2>1, <2>2, <2>3 DEF RestInv
<1>19. ASSUME NEW a \in Actor, Leave(a) PROVE RestInv'
  <2>1. /\ phase' = [phase EXCEPT ![a] = "idle"] /\ op' = [op EXCEPT ![a] = None]
        /\ basis' = [basis EXCEPT ![a] = {}]
        /\ UNCHANGED <<up, containers, jobs, changes, loads, failures>>
    BY <1>19 DEF Leave, Goto, hosts, screen
  <2>2. "idle" \in Phases /\ None \in Ops /\ {} \in Config \cup {{}}
    BY DEF Phases, Ops
  <2> QED
    BY <1>6, <2>1, <2>2 DEF RestInv
<1>20. CASE Key
  BY <1>2, <1>3, <1>9, <1>10, <1>13, <1>14, <1>20 DEF Key
<1>21. ASSUME NEW a \in Actor, Step(a) PROVE RestInv'
  <2>1. RunService(a) \/ RunCleanup(a) => a \in Command
    BY DEF RunService, RunCleanup
  <2> QED
    BY <1>11, <1>15, <1>16, <1>17, <1>18, <1>19, <1>21, <2>1 DEF Step
<1> QED
  BY <1>1, <1>4, <1>5, <1>20, <1>21 DEF Next

LEMMA BookNext == TreeInv /\ CleanInv /\ ScanInv /\ BookInv /\ RestInv /\ [Next]_vars => BookInv'
<1> SUFFICES ASSUME TreeInv, CleanInv, ScanInv, BookInv, RestInv, [Next]_vars PROVE BookInv'
  OBVIOUS
<1>1. CASE Mark \/ Refresh \/ EditConfig \/ (\E s \in Service : DeployElsewhere(s))
           \/ (\E k \in {0} \cup 0..(CountItems(found[Tui]) - 1) : Tick(k))
           \/ UNCHANGED vars
  <2>1. UNCHANGED <<op, phase, found, visits, here, targets, touched, answers>>
    BY <1>1 DEF Mark, Space, SelectCurrent, SelectAll, UnchangedButMarks, Refresh, EditConfig,
                DeployElsewhere, Tick, vars, plan, work
  <2> QED
    BY <2>1, NoBooks
<1>2. loads \in Nat \ {0}
  BY ServiceAssumption DEF RestInv
<1> QED
  BY <1>1, <1>2, BookJob, BookScan, BookWork DEF Next, Key, Step

-----------------------------------------------------------------------------
(* What the marks, ticks and flags name, and what the program selects.      *)

\* Of an actor a with operation o and configuration b: A is asked for, T selected.
Asks(a, A, T, o, b) ==
  /\ A \subseteq Task
  /\ a = Tui => A = T
  /\ a # Tui /\ o \in {"stop", "restart"} => A \subseteq T
  /\ a # Tui /\ o = "clean" => A = OrphanTask(b) /\ T \subseteq A

AskedInv ==
  DOMAIN asked = Actor /\ \A a \in Actor : Asks(a, asked[a], targets[a], op[a], basis[a])

LEMMA OrphansAre == ASSUME NEW c PROVE Orphans(Server, c) = OrphanTask(c)
BY DEF Orphans, OrphanTask, Orphan

LEMMA AskedInit == Init => AskedInv
<1> SUFFICES ASSUME Init PROVE AskedInv
  OBVIOUS
<1>1. ASSUME NEW a \in Actor PROVE Asks(a, asked[a], targets[a], op[a], basis[a])
  <2>1. asked[a] = {} /\ targets[a] = {} /\ op[a] # "clean"
    BY ServiceAssumption DEF Init
  <2> QED
    BY <2>1 DEF Asks
<1> QED
  BY <1>1 DEF Init, AskedInv

LEMMA AskedStepOf ==
  ASSUME AskedInv, NEW a \in Actor, Only(a, op, op'), Only(a, basis, basis'),
         Only(a, asked, asked'), Only(a, targets, targets'),
         Asks(a, asked'[a], targets'[a], op'[a], basis'[a])
  PROVE  AskedInv'
<1>1. ASSUME NEW b \in Actor PROVE Asks(b, asked'[b], targets'[b], op'[b], basis'[b])
  <2>1. CASE b = a
    BY <2>1
  <2>2. CASE b # a
    <3>1. /\ asked'[b] = asked[b] /\ targets'[b] = targets[b]
          /\ op'[b] = op[b] /\ basis'[b] = basis[b]
      BY <2>2 DEF Only
    <3> QED
      BY <3>1 DEF AskedInv
  <2> QED
    BY <2>1, <2>2
<1> QED
  BY <1>1 DEF AskedInv, Only

LEMMA AskedStep ==
  TreeInv /\ CleanInv /\ ScanInv /\ BookInv /\ AskedInv /\ BookInv' /\ [Next]_vars => AskedInv'
<1> SUFFICES ASSUME TreeInv, CleanInv, ScanInv, BookInv, AskedInv, BookInv', [Next]_vars
             PROVE  AskedInv'
  OBVIOUS
<1> USE DEF Goto, work, plan
<1>t. Tui \in Actor /\ \A a \in Command : a \in Actor /\ a # Tui
  BY ServiceAssumption DEF Actor
<1>d. DOMAIN op = Actor /\ DOMAIN basis = Actor /\ DOMAIN asked = Actor /\ DOMAIN targets = Actor
  BY DEF CleanInv, AskedInv, BookInv
<1>n. \A a \in Actor : Asks(a, asked[a], targets[a], op[a], basis[a])
  BY DEF AskedInv
\* Nothing that it is about.
<1>u. ASSUME UNCHANGED <<op, basis, asked, targets>> PROVE AskedInv'
  BY <1>u DEF AskedInv
\* The terminal interface opens a view.
<1>v. ASSUME NEW o, NEW b, op' = [op EXCEPT ![Tui] = o], basis' \in {basis, [basis EXCEPT ![Tui] = b]},
             UNCHANGED <<asked, targets>>
      PROVE  AskedInv'
  <2>1. /\ Only(Tui, op, op') /\ Only(Tui, basis, basis')
        /\ Only(Tui, asked, asked') /\ Only(Tui, targets, targets')
    <3>1. Only(Tui, op, op') /\ Only(Tui, asked, asked') /\ Only(Tui, targets, targets')
      BY <1>t, <1>d, <1>v, Changed
    <3>2. Only(Tui, basis, basis')
      BY <1>t, <1>d, <1>v DEF Only
    <3> QED
      BY <3>1, <3>2
  <2>2. Asks(Tui, asked'[Tui], targets'[Tui], op'[Tui], basis'[Tui])
    BY <1>t, <1>n, <1>v DEF Asks
  <2> QED
    BY <1>t, <2>1, <2>2, AskedStepOf
<1>1. CASE Mark \/ Refresh \/ EditConfig \/ (\E s \in Service : DeployElsewhere(s))
           \/ (\E k \in {0} \cup 0..(CountItems(found[Tui]) - 1) : Tick(k))
           \/ Ask \/ Back \/ UNCHANGED vars
  <2>1. UNCHANGED <<op, basis, asked, targets>>
    BY <1>1 DEF Mark, Space, SelectCurrent, SelectAll, UnchangedButMarks, Refresh, EditConfig,
                DeployElsewhere, Tick, Ask, Back, vars
  <2> QED
    BY <1>u, <2>1
<1>2. CASE OpenCleanup
  BY <1>2, <1>v DEF OpenCleanup
<1>3. ASSUME NEW o, OpenServices(o) PROVE AskedInv'
  BY <1>3, <1>v DEF OpenServices
<1>4. CASE Confirm
  <2>1. asked' = [asked EXCEPT ![Tui] = targets'[Tui]] /\ UNCHANGED <<op, basis>>
    BY <1>4 DEF Confirm
  <2>5. PICK A : targets' = [targets EXCEPT ![Tui] = A]
    BY <1>4 DEF Confirm
  <2>6. Only(Tui, asked, asked') /\ asked'[Tui] = targets'[Tui]
    BY <1>t, <1>d, <2>1, Changed
  <2>2. /\ Only(Tui, op, op') /\ Only(Tui, basis, basis') /\ Only(Tui, targets, targets')
        /\ Only(Tui, asked, asked') /\ asked'[Tui] = targets'[Tui]
    BY <1>t, <1>d, <2>1, <2>5, <2>6, Changed
  <2>3. targets'[Tui] \subseteq Task
    BY <1>t DEF BookInv, Booked, Account
  <2>4. Asks(Tui, asked'[Tui], targets'[Tui], op'[Tui], basis'[Tui])
    BY <2>2, <2>3 DEF Asks
  <2> QED
    BY <1>t, <2>2, <2>4, AskedStepOf
<1>5. ASSUME NEW a \in Actor, RunService(a) PROVE AskedInv'
  <2>1. PICK o \in {"stop", "restart"}, filters \in Filters :
          /\ op' = [op EXCEPT ![a] = o]
          /\ asked' = [asked EXCEPT ![a] = {ServiceTask(s) : s \in Named(config, filters)}]
          /\ targets' = [targets EXCEPT ![a] =
                           {ServiceTask(s) : s \in CollectTargetServices(config, filters)}]
          /\ basis' = [basis EXCEPT ![a] = config]
    BY <1>5 DEF RunService
  <2> DEFINE N == Named(config, filters)
             C == CollectTargetServices(config, filters)
  <2>2. N \subseteq C /\ N \subseteq config
    BY DEF Named, CollectTargetServices
  <2>3. config \subseteq Service
    BY ServiceAssumption DEF TreeInv
  <2> HIDE DEF N, C
  <2>4. {ServiceTask(s) : s \in N} \subseteq Task
    BY <2>2, <2>3, ServiceTasksAreTasks
  <2>5. {ServiceTask(s) : s \in N} \subseteq {ServiceTask(s) : s \in C}
    BY <2>2
  <2>6. /\ Only(a, op, op') /\ Only(a, basis, basis')
        /\ Only(a, asked, asked') /\ Only(a, targets, targets')
        /\ op'[a] = o /\ asked'[a] = {ServiceTask(s) : s \in N}
        /\ targets'[a] = {ServiceTask(s) : s \in C}
    BY <1>d, <2>1, Changed DEF N, C
  <2>7. a # Tui /\ o # "clean"
    BY <1>5, <1>t DEF RunService
  <2>8. Asks(a, asked'[a], targets'[a], op'[a], basis'[a])
    BY <2>4, <2>5, <2>6, <2>7 DEF Asks
  <2> QED
    BY <2>6, <2>8, AskedStepOf
<1>6. ASSUME NEW a \in Actor, RunCleanup(a) PROVE AskedInv'
  <2>1. PICK o \in Cleans, w \in SUBSET Server :
           /\ a \in Command /\ Starts(a)
           /\ o = "clean" => w = Server
           /\ op' = [op EXCEPT ![a] = o] /\ basis' = [basis EXCEPT ![a] = config]
           /\ asked' = [asked EXCEPT ![a] = Orphans(w, config)] /\ UNCHANGED targets
    BY <1>6, CleanupBegins
  <2>2. /\ Only(a, op, op') /\ Only(a, basis, basis')
        /\ Only(a, asked, asked') /\ Only(a, targets, targets')
        /\ op'[a] = o /\ basis'[a] = config /\ asked'[a] = Orphans(w, config)
    BY <1>d, <2>1, Changed
  <2>3. targets'[a] = {}
    BY <2>1, BooksNow DEF Starts, Stage, Clear
  <2>4. Orphans(w, config) \subseteq Task
    BY DEF Orphans, Task
  <2>5. a # Tui /\ o \notin {"stop", "restart"}
    BY <1>t, <2>1 DEF Cleans
  <2>6. Asks(a, asked'[a], targets'[a], op'[a], basis'[a])
    BY <2>1, <2>2, <2>3, <2>4, <2>5, OrphansAre DEF Asks
  <2> QED
    BY <2>2, <2>6, AskedStepOf
\* Only more targets, of a scan.
<1>m. ASSUME NEW a \in Actor, a # Tui, UNCHANGED <<op, basis, asked>>, NEW T,
             targets' = [targets EXCEPT ![a] = targets[a] \cup T],
             op[a] = "clean" => T \subseteq OrphanTask(basis[a])
      PROVE  AskedInv'
  <2>1. /\ Only(a, op, op') /\ Only(a, basis, basis')
        /\ Only(a, asked, asked') /\ Only(a, targets, targets')
        /\ targets'[a] = targets[a] \cup T
    BY <1>d, <1>m, Changed
  <2>2. Asks(a, asked'[a], targets'[a], op'[a], basis'[a])
    BY <1>m, <1>n, <2>1 DEF Asks
  <2> QED
    BY <2>1, <2>2, AskedStepOf
<1>7. ASSUME NEW a \in Actor, ScanServer(a) PROVE AskedInv'
  <2> DEFINE result == OrphansAt(Head(toScan[a]), basis[a])
  <2>1. UNCHANGED <<op, basis, asked>>
    BY <1>7 DEF ScanServer
  <2>2. \/ UNCHANGED targets
        \/ op[a] # "cleanup" /\ targets' = [targets EXCEPT ![a] = targets[a] \cup Items(result)]
    BY <1>7 DEF ScanServer
  <2>3. result \in OrphanResult(basis[a])
    BY <1>7, ScanFindsOrphans, HeadAndTail DEF ScanServer, ScanInv
  <2> HIDE DEF result
  <2>4. Items(result) \subseteq OrphanTask(basis[a])
    BY <2>3, ItemsAreOrphans
  <2>5. a = Tui => op[a] = "cleanup"
    BY <1>7, BooksNow DEF Stage, ScanServer
  <2> QED
    BY <1>m, <1>u, <2>1, <2>2, <2>4, <2>5
<1>8. ASSUME NEW a \in Actor, ScanFails(a) PROVE AskedInv'
  <2>1. op' \in {op, [op EXCEPT ![a] = None]} /\ UNCHANGED <<basis, asked, targets>>
    BY <1>8 DEF ScanFails
  <2>2. CASE op' = op
    BY <1>u, <2>1, <2>2
  <2>3. CASE op' = [op EXCEPT ![a] = None]
    <3>1. /\ Only(a, op, op') /\ Only(a, basis, basis')
          /\ Only(a, asked, asked') /\ Only(a, targets, targets') /\ op'[a] = None
      BY <1>d, <2>1, <2>3, Changed
    <3>2. Asks(a, asked'[a], targets'[a], op'[a], basis'[a])
      BY <1>n, <2>1, <3>1, ServiceAssumption DEF Asks
    <3> QED
      BY <3>1, <3>2, AskedStepOf
  <2> QED
    BY <2>1, <2>2, <2>3
<1>9. ASSUME NEW a \in Actor, ScanDone(a) PROVE AskedInv'
  <2>1. UNCHANGED <<op, basis, asked>>
    BY <1>9 DEF ScanDone
  <2>2. CASE a = Tui
    BY <1>9, <1>u, <2>1, <2>2 DEF ScanDone
  <2>3. CASE a # Tui
    <3> DEFINE T == Range(Listed(found[a]))
    <3>1. targets' = [targets EXCEPT ![a] = targets[a] \cup T]
      BY <1>9, <2>3 DEF ScanDone
    <3>2. found[a] \in Seq(OrphanResult(basis[a]))
      BY FineNow DEF Fine
    <3>3. Listed(found[a]) \in Seq(OrphanTask(basis[a]))
      BY <3>2, ListedIs
    <3>4. T \subseteq OrphanTask(basis[a])
      BY <3>3 DEF Range
    <3> HIDE DEF T
    <3> QED
      BY <1>m, <2>1, <2>3, <3>1, <3>4
  <2> QED
    BY <2>2, <2>3
<1>10. ASSUME NEW a \in Actor, Approve(a) \/ Connect(a) \/ Run(a) \/ Finish(a) PROVE AskedInv'
  <2>1. UNCHANGED <<op, basis, asked, targets>>
    BY <1>10 DEF Approve, Connect, Run, Finish
  <2> QED
    BY <1>u, <2>1
<1>11. ASSUME NEW a \in Actor, Leave(a) PROVE AskedInv'
  <2>1. /\ op' = [op EXCEPT ![a] = None] /\ basis' = [basis EXCEPT ![a] = {}]
        /\ asked' = [asked EXCEPT ![a] = {}] /\ targets' = [targets EXCEPT ![a] = {}]
    BY <1>11 DEF Leave
  <2>2. /\ Only(a, op, op') /\ Only(a, basis, basis')
        /\ Only(a, asked, asked') /\ Only(a, targets, targets')
        /\ op'[a] = None /\ asked'[a] = {} /\ targets'[a] = {}
    BY <1>d, <2>1, Changed
  <2>3. Asks(a, asked'[a], targets'[a], op'[a], basis'[a])
    BY <2>2, ServiceAssumption DEF Asks
  <2> QED
    BY <2>2, <2>3, AskedStepOf
<1> QED
  BY <1>1, <1>2, <1>3, <1>4, <1>5, <1>6, <1>7, <1>8, <1>9, <1>10, <1>11 DEF Next, Key, Step
-----------------------------------------------------------------------------
AllInv ==
  TreeInv /\ CleanInv /\ ScanInv /\ BookInv /\ AskedInv /\ TickInv /\ RestInv

LEMMA AllAlways == Spec => []AllInv
<1>1. Init => AllInv
  BY TreeInit, CleanInit, ScanInit, BookInit, AskedInit, TickInit, RestInit DEF AllInv
<1>2. AllInv /\ [Next]_vars => AllInv'
  BY TreeStep, CleanStep, ScanStep, BookNext, AskedStep, TickStep, RestStep DEF AllInv
<1> QED
  BY <1>1, <1>2, PTL DEF Spec

\* The variables have their types: what is ticked is in the list, and what is to
\* be done of a visit is among what it reports.
THEOREM TypeCorrect == Spec => []TypeOK
<1>1. AllInv => TypeOK
  <2> SUFFICES ASSUME AllInv PROVE TypeOK
    OBVIOUS
  <2>1. /\ config \in Config /\ loaded \in Config /\ loads \in 1..MaxLoads
        /\ up \subseteq containers /\ containers \cup dirs \subseteq Server \X Resource
        /\ marked \subseteq Nodes(loaded)
    BY DEF AllInv, TreeInv, RestInv, ScanInv
  <2>2. ticked \subseteq {0} \cup 0..(CountItems(found[Tui]) - 1)
    BY DEF AllInv, TickInv
  <2>3. /\ op \in [Actor -> {None, "stop", "restart", "cleanup", "clean"}]
        /\ phase \in [Actor -> {"idle", "select", "scan", "list", "confirm", "work", "over"}]
        /\ jobs \in 0..MaxJobs /\ changes \in 0..MaxChanges /\ failures \in 0..MaxFailures
    BY DEF AllInv, RestInv, Ops, Phases
  <2>4. ASSUME NEW a \in Actor
        PROVE  /\ basis[a] \in Config \cup {{}}
               /\ Range(toScan[a]) \subseteq Server
               /\ \A i \in DOMAIN found[a] : Size(found[a][i]) > 0
               /\ \A v \in Range(visits[a]) : v.tasks \subseteq v.items /\ v.items \subseteq Task
               /\ here[a] \cup asked[a] \cup targets[a] \cup touched[a] \subseteq Task
               /\ answers[a] \subseteq Task \X {"ok", "failed"}
    <3>1. basis[a] \in Config \cup {{}}
      BY DEF AllInv, RestInv
    <3>2. toScan[a] \in Seq(Server)
      BY DEF AllInv, ScanInv
    <3>3. Range(toScan[a]) \subseteq Server
      BY <3>2 DEF Range
    <3>4. \A i \in DOMAIN found[a] : Size(found[a][i]) > 0
      BY BooksNow DEF AllInv, Stage
    <3>5. Account(visits[a], here[a], targets[a], touched[a], answers[a])
      BY BooksNow DEF AllInv
    <3>6. \A v \in Range(visits[a]) : v \in TaskVisit
      BY <3>5 DEF Account, Range
    <3>7. /\ here[a] \cup targets[a] \cup touched[a] \subseteq Task
          /\ answers[a] \subseteq Task \X {"ok", "failed"}
      BY <3>5 DEF Account
    <3>8. asked[a] \subseteq Task
      BY DEF AllInv, AskedInv, Asks
    <3> QED
      BY <3>1, <3>3, <3>4, <3>6, <3>7, <3>8 DEF TaskVisit
  <2> QED
    BY <2>1, <2>2, <2>3, <2>4 DEF TypeOK
<1> QED
  BY <1>1, AllAlways, PTL

\* Whatever fails and whoever else is at work: only what was shown and confirmed is
\* carried out, each of it has been reported on when the operation is over, and what
\* was reported as a success has been carried out.  What was shown is what the marks
\* and ticks name; of "stop" and "restart" it is at least what the flags name, and of
\* "clean" only orphans.
THEOREM ActsAsShown == Spec => []ActsOnWhatWasShown
<1>1. AllInv => ActsOnWhatWasShown
  <2> SUFFICES ASSUME AllInv, NEW a \in Actor
               PROVE  /\ touched[a] \subseteq targets[a]
                      /\ \A x \in answers[a] : x[2] = "ok" => x[1] \in touched[a]
                      /\ phase[a] = "over" => targets[a] \subseteq {x[1] : x \in answers[a]}
                      /\ op[a] \in {"stop", "restart"} => asked[a] \subseteq targets[a]
                      /\ a = Tui \/ op[a] = "clean" => touched[a] \subseteq asked[a]
    BY DEF ActsOnWhatWasShown
  <2>1. /\ Account(visits[a], here[a], targets[a], touched[a], answers[a])
        /\ phase[a] = "over" => visits[a] = <<>> /\ here[a] = {}
    BY BooksNow, FineNow DEF AllInv, Stage, Fine
  <2>2. phase[a] = "over" => targets[a] \subseteq {x[1] : x \in answers[a]}
    BY <2>1, NoVisits DEF Account
  <2>3. Asks(a, asked[a], targets[a], op[a], basis[a])
    BY DEF AllInv, AskedInv
  <2>4. /\ op[a] \in {"stop", "restart"} => asked[a] \subseteq targets[a]
        /\ a = Tui \/ op[a] = "clean" => targets[a] \subseteq asked[a]
    BY <2>3 DEF Asks
  <2>5. touched[a] \subseteq targets[a] /\ \A x \in answers[a] : x[2] = "ok" => x[1] \in touched[a]
    BY <2>1 DEF Account
  <2> QED
    BY <2>2, <2>4, <2>5
<1> QED
  BY <1>1, AllAlways, PTL
=============================================================================
