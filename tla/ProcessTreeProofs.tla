------------------------- MODULE ProcessTreeProofs -------------------------
(***************************************************************************)
(* Theorems about the fault_config map, for every finite set of PIDs and   *)
(* every size of the map.                                                  *)
(***************************************************************************)
EXTENDS ProcessTree, FiniteSetTheorems, TLAPS

\* What an update does to the map: the key is in it, nothing else came in,
\* what it forgets is forgotten in marked too, and it stays within its size.
LEMMA EnterEffect ==
    ASSUME NEW p \in Pid, Enter(p)
    PROVE  /\ p \in entries' /\ entries' \subseteq entries \cup {p}
           /\ p \in marked' /\ marked' \subseteq marked \cup {p}
           /\ \A q \in marked' : q \in entries => q \in entries'
           /\ Cardinality(entries') <= MapSize
<1>1. PICK victims \in SUBSET (entries \ {p}) :
        /\ entries' = (entries \ victims) \cup {p}
        /\ marked' = (marked \ victims) \cup {p}
        /\ Cardinality(entries') <= MapSize
  BY DEF Enter
<1> QED  BY <1>1

\* Type correctness.
THEOREM TypeCorrect == Spec => []TypeOK
<1> USE ProcessTreeAssumption DEF ProcessTreeAssumption
<1>1. Init => TypeOK
  BY FS_EmptySet DEF Init, TypeOK
<1>2. ASSUME TypeOK, [Next]_vars
      PROVE  TypeOK'
  <2> USE <1>2
  <2>1. CASE CommandStart \/ Stop
    BY <2>1 DEF TypeOK, CommandStart, Stop
  <2>2. CASE SetTargetPID
    <3>1. Enter(Target)  BY <2>2 DEF SetTargetPID
    <3> QED  BY <2>2, <3>1, EnterEffect DEF TypeOK, SetTargetPID
  <2>3. CASE WaitReturns
    BY <2>3 DEF TypeOK, WaitReturns
  <2>4. ASSUME NEW p \in Pid, NEW q \in Pid, Fork(p, q)
        PROVE  TypeOK'
    BY <2>4 DEF TypeOK, Fork
  <2>5. ASSUME NEW p \in Pid, TrackFork(p)
        PROVE  TypeOK'
    <3>1. forking[p] \in Pid /\ Enter(forking[p])  BY <2>5 DEF TypeOK, TrackFork
    <3>2. proc' \in [Pid -> {"free", "new", "running", "headless", "zombie"}]
      BY <2>5 DEF TypeOK, TrackFork
    <3> QED  BY <2>5, <3>1, <3>2, EnterEffect DEF TypeOK, TrackFork
  <2>6. ASSUME NEW p \in Pid, MainThreadExits(p)
        PROVE  TypeOK'
    <3>1. entries' \subseteq entries /\ IsFiniteSet(entries)
      BY <2>6, FS_Subset DEF TypeOK, MainThreadExits, TrackExit
    <3>2. Cardinality(entries') <= MapSize
      BY <3>1, FS_Subset, FS_CardinalityType DEF TypeOK
    <3> QED  BY <2>6, <3>1, <3>2 DEF TypeOK, MainThreadExits
  <2>7. ASSUME NEW p \in Pid, WorkerExits(p)
        PROVE  TypeOK'
    BY <2>7 DEF TypeOK, WorkerExits, TrackExit
  <2>8. ASSUME NEW p \in Pid, Clone(p) \/ Reap(p) \/ Unrelated(p) \/ MaybeInject(p)
        PROVE  TypeOK'
    BY <2>8 DEF TypeOK, Clone, Reap, Unrelated, MaybeInject
  <2>9. CASE UNCHANGED vars  BY <2>9 DEF TypeOK, vars
  <2> QED  BY <2>1, <2>2, <2>3, <2>4, <2>5, <2>6, <2>7, <2>8, <2>9 DEF Next, Faultkit, Process
<1> QED  BY <1>1, <1>2, PTL DEF Spec

\* Who holds what, so that a PID is entered only while a process has it: a
\* thread in the fork hook belongs to a live process, and the task it wakes is
\* its own, a new thread of its process or a process that has not run yet.
Owners ==
    /\ main = "start" => /\ entries = {} /\ marked = {} /\ strays = {}
                         /\ \A p \in Pid : forking[p] = NoPid
    /\ main \in {"spawned", "waiting"} => Target \in tree /\ proc[Target] # "free"
    /\ \A p \in Pid : forking[p] # NoPid =>
          /\ Live(p)
          /\ forking[p] = p \/ proc[forking[p]] = "new"
    /\ \A p, q \in Pid : forking[p] = forking[q] /\ forking[p] # NoPid => p = q
    /\ \A p \in Pid : proc[p] = "free" => p \notin marked

LEMMA OwnersHold == Spec => []Owners
<1> USE ProcessTreeAssumption DEF ProcessTreeAssumption
<1>1. Init => Owners
  BY DEF Init, Owners
<1>2. ASSUME TypeOK, Owners, [Next]_vars
      PROVE  Owners'
  <2> USE <1>2
  <2>1. CASE CommandStart
    BY <2>1 DEF CommandStart, Owners, TypeOK, Live
  <2>2. CASE SetTargetPID
    <3>1. Enter(Target)  BY <2>2 DEF SetTargetPID
    <3>2. marked' \subseteq marked \cup {Target}  BY <3>1, EnterEffect DEF TypeOK
    <3> QED  BY <2>2, <3>2 DEF SetTargetPID, Owners, Live
  <2>3. CASE WaitReturns
    BY <2>3 DEF WaitReturns, Owners, Live, TypeOK
  <2>4. ASSUME NEW p \in Pid, NEW q \in Pid, Fork(p, q)
        PROVE  Owners'
    BY <2>4 DEF Fork, Free, Owners, Live, TypeOK
  <2>5. ASSUME NEW p \in Pid, TrackFork(p)
        PROVE  Owners'
    <3>1. forking[p] \in Pid /\ Enter(forking[p])  BY <2>5 DEF TrackFork, TypeOK
    <3>2. marked' \subseteq marked \cup {forking[p]}  BY <3>1, EnterEffect DEF TypeOK
    <3>3. /\ \A r \in Pid : proc'[r] = IF proc[r] = "new" /\ r = forking[p] THEN "running" ELSE proc[r]
          /\ \A r \in Pid : forking'[r] = IF r = p THEN NoPid ELSE forking[r]
          /\ main' = main /\ tree' = tree /\ main # "start"
      BY <2>5 DEF TrackFork, TypeOK, Owners
    <3>4. ASSUME NEW r \in Pid, forking'[r] # NoPid
          PROVE  Live(r)' /\ (forking'[r] = r \/ proc'[forking'[r]] = "new")
      <4>1. r # p /\ forking'[r] = forking[r] /\ forking[r] # forking[p] /\ forking[r] \in Pid
        BY <3>3, <3>4 DEF Owners, TypeOK
      <4> QED  BY <3>3, <4>1 DEF Owners, Live
    <3>5. \A r \in Pid : proc'[r] = "free" => r \notin marked'
      BY <3>2, <3>3, <2>5 DEF Owners, Live, TrackFork
    <3> QED  BY <3>3, <3>4, <3>5 DEF Owners
  <2>6. ASSUME NEW p \in Pid, Clone(p)
        PROVE  Owners'
    BY <2>6 DEF Clone, Owners, Live, TypeOK
  <2>7. ASSUME NEW p \in Pid, MainThreadExits(p)
        PROVE  Owners'
    BY <2>7 DEF MainThreadExits, TrackExit, Owners, Live, TypeOK
  <2>8. ASSUME NEW p \in Pid, WorkerExits(p)
        PROVE  Owners'
    BY <2>8 DEF WorkerExits, TrackExit, Owners, Live, TypeOK
  <2>9. ASSUME NEW p \in Pid, Reap(p)
        PROVE  Owners'
    BY <2>9 DEF Reap, Owners, Live, TypeOK
  <2>10. ASSUME NEW p \in Pid, Unrelated(p)
         PROVE  Owners'
    BY <2>10 DEF Unrelated, Free, Owners, Live, TypeOK
  <2>11. ASSUME NEW p \in Pid, MaybeInject(p)
         PROVE  Owners'
    BY <2>11 DEF MaybeInject, Owners, Live, TypeOK
  <2>12. CASE Stop \/ UNCHANGED vars  BY <2>12 DEF Stop, vars, Owners, Live
  <2> QED  BY <2>1, <2>2, <2>3, <2>4, <2>5, <2>6, <2>7, <2>8, <2>9, <2>10,
              <2>11, <2>12 DEF Next, Faultkit, Process
<1> QED  BY <1>1, <1>2, TypeCorrect, PTL DEF Spec

\* An entered process keeps its entry for as long as its main thread runs:
\* no worker's exit and no other process's fork or exit strips it.
THEOREM KeptAlways == Spec => []KeptWhileRunning
<1> USE ProcessTreeAssumption DEF ProcessTreeAssumption
<1>1. Init => KeptWhileRunning
  BY DEF Init, KeptWhileRunning
<1>2. ASSUME TypeOK, Owners, KeptWhileRunning, [Next]_vars
      PROVE  KeptWhileRunning'
  <2> USE <1>2 DEF KeptWhileRunning
  <2>1. CASE CommandStart \/ WaitReturns \/ Stop
    BY <2>1 DEF CommandStart, WaitReturns, Stop, Owners, TypeOK
  <2>2. CASE SetTargetPID
    <3>1. Enter(Target)  BY <2>2 DEF SetTargetPID
    <3>2. Target \in entries' /\ marked' \subseteq marked \cup {Target}
          /\ \A q \in marked' : q \in entries => q \in entries'
      BY <3>1, EnterEffect DEF TypeOK
    <3> QED  BY <2>2, <3>2 DEF SetTargetPID
  <2>3. ASSUME NEW p \in Pid, TrackFork(p)
        PROVE  KeptWhileRunning'
    <3>1. forking[p] \in Pid /\ Enter(forking[p])  BY <2>3 DEF TrackFork, TypeOK
    <3>2. forking[p] \in entries' /\ marked' \subseteq marked \cup {forking[p]}
          /\ \A q \in marked' : q \in entries => q \in entries'
      BY <3>1, EnterEffect DEF TypeOK
    <3> QED  BY <2>3, <3>2 DEF TrackFork, TypeOK
  <2>4. ASSUME NEW p \in Pid, NEW q \in Pid, Fork(p, q)
        PROVE  KeptWhileRunning'
    BY <2>4 DEF Fork, Free, Owners, TypeOK
  <2>5. ASSUME NEW p \in Pid, MainThreadExits(p)
        PROVE  KeptWhileRunning'
    BY <2>5 DEF MainThreadExits, TrackExit, TypeOK
  <2>6. ASSUME NEW p \in Pid, WorkerExits(p)
        PROVE  KeptWhileRunning'
    BY <2>6 DEF WorkerExits, TrackExit, TypeOK
  <2>7. ASSUME NEW p \in Pid, Clone(p) \/ Reap(p) \/ Unrelated(p) \/ MaybeInject(p)
        PROVE  KeptWhileRunning'
    BY <2>7 DEF Clone, Reap, Unrelated, MaybeInject, Free, Owners, TypeOK
  <2>8. CASE UNCHANGED vars  BY <2>8 DEF vars
  <2> QED  BY <2>1, <2>2, <2>3, <2>4, <2>5, <2>6, <2>7, <2>8 DEF Next, Faultkit, Process
<1> QED  BY <1>1, <1>2, TypeCorrect, OwnersHold, PTL DEF Spec

\* The strengthening of Contained: a hook on its way is about to enter a
\* process of the tree, and a process that has ended has no entry, the target
\* excepted, which may be registered after its end.
ContainedInv ==
    /\ Contained
    /\ ~threads => \A p \in Pid : proc[p] # "headless" /\ forking[p] # p
    /\ ~threads /\ main \notin {"reaped", "stopped"} =>
          /\ \A p \in Pid : forking[p] # NoPid => forking[p] \in tree
          /\ \A p \in Pid : proc[p] = "zombie" /\ p # Target => p \notin entries

\* Without threads, the fault stays in the target's tree until it is reaped.
THEOREM FaultIsContained == Spec => []Contained
<1> USE ProcessTreeAssumption DEF ProcessTreeAssumption
<1>1. Init => ContainedInv
  BY DEF Init, ContainedInv, Contained
<1>2. ASSUME TypeOK, Owners, ContainedInv, [Next]_vars
      PROVE  ContainedInv'
  <2> USE <1>2 DEF ContainedInv, Contained
  <2>1. CASE CommandStart
    BY <2>1 DEF CommandStart, Owners, TypeOK
  <2>2. CASE SetTargetPID
    <3>1. Enter(Target)  BY <2>2 DEF SetTargetPID
    <3>2. entries' \subseteq entries \cup {Target}  BY <3>1, EnterEffect DEF TypeOK
    <3> QED  BY <2>2, <3>2 DEF SetTargetPID, Owners, TypeOK
  <2>3. CASE WaitReturns \/ Stop
    BY <2>3 DEF WaitReturns, Stop, TypeOK
  <2>4. ASSUME NEW p \in Pid, NEW q \in Pid, Fork(p, q)
        PROVE  ContainedInv'
    BY <2>4 DEF Fork, Free, Live, Owners, TypeOK
  <2>5. ASSUME NEW p \in Pid, TrackFork(p)
        PROVE  ContainedInv'
    <3>1. forking[p] \in Pid /\ Enter(forking[p])  BY <2>5 DEF TrackFork, TypeOK
    <3>2. entries' \subseteq entries \cup {forking[p]}  BY <3>1, EnterEffect DEF TypeOK
    <3>3. ~threads => proc[forking[p]] = "new"  BY <2>5 DEF TrackFork, Owners
    <3> QED  BY <2>5, <3>1, <3>2, <3>3 DEF TrackFork, TypeOK
  <2>6. ASSUME NEW p \in Pid, MainThreadExits(p)
        PROVE  ContainedInv'
    BY <2>6 DEF MainThreadExits, TrackExit, TypeOK
  <2>7. ASSUME NEW p \in Pid, Clone(p) \/ WorkerExits(p)
        PROVE  ContainedInv'
    BY <2>7 DEF Clone, WorkerExits, TypeOK
  <2>8. ASSUME NEW p \in Pid, Reap(p)
        PROVE  ContainedInv'
    BY <2>8 DEF Reap, Owners, TypeOK
  <2>9. ASSUME NEW p \in Pid, Unrelated(p) \/ MaybeInject(p)
        PROVE  ContainedInv'
    BY <2>9 DEF Unrelated, MaybeInject, TypeOK
  <2>10. CASE UNCHANGED vars  BY <2>10 DEF vars
  <2> QED  BY <2>1, <2>2, <2>3, <2>4, <2>5, <2>6, <2>7, <2>8, <2>9, <2>10
           DEF Next, Faultkit, Process
<1>3. ContainedInv => Contained  BY DEF ContainedInv
<1> QED  BY <1>1, <1>2, <1>3, TypeCorrect, OwnersHold, PTL DEF Spec

=============================================================================
