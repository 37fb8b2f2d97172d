---------------------------- MODULE ProcessTree ----------------------------
(***************************************************************************)
(* Which processes the eBPF injector faults: the fault_config map, written *)
(* by SetTargetPID and by the fork and exit hooks of the BPF programs      *)
(* (bpf/flaky_network.bpf.c and bpf/tool_perm_denied.bpf.c, which share    *)
(* them), against the processes that come and go in the kernel.  PIDs are  *)
(* reused.  A map update and a lookup are atomic, a hook is not: it runs   *)
(* beside the other threads of its process.                                *)
(***************************************************************************)
EXTENDS Integers, FiniteSets

CONSTANTS
    Pid,      \* process ids
    Target,   \* the one the runner's child gets
    NoPid,    \* "no thread of the process is in the fork hook"
    MapSize   \* max_entries of fault_config

ASSUME ProcessTreeAssumption ==
    /\ IsFiniteSet(Pid) /\ Target \in Pid /\ NoPid \notin Pid
    /\ MapSize \in Nat \ {0}

VARIABLES
    threads,  \* whether processes have threads besides the main one
    main,     \* program counter of faultkit, from cmd.Start to Stop
    proc,     \* state of the process that has each PID
    tree,     \* PIDs of the target and its descendants
    entries,  \* keys of fault_config (every value is the same probability)
    forking,  \* the task a thread is waking, after its lookup found an entry
    marked,   \* processes entered in the map during their life, and not evicted
    strays    \* processes outside the tree that had a call overridden

vars == <<threads, main, proc, tree, entries, forking, marked, strays>>

Hooked  == main # "stopped"   \* Stop detaches the kprobes
Live(p) == proc[p] \in {"running", "headless"}

\* The target's PID is taken by another process only after it was reaped.
Free(q) == proc[q] = "free" /\ (q = Target => main = "reaped")

Init ==
    /\ threads \in BOOLEAN
    /\ main = "start"
    /\ proc = [p \in Pid |-> "free"]
    /\ forking = [p \in Pid |-> NoPid]
    /\ tree = {} /\ entries = {} /\ marked = {} /\ strays = {}

\* A map without a limit.
EnterUnbounded(p) == entries' = entries \cup {p} /\ marked' = marked \cup {p}

\* An update of the LRU map, which may give up other entries whenever it
\* takes a node for the key, and has to when it is full.
Enter(p) ==
    \E victims \in SUBSET (entries \ {p}) :
        /\ entries' = (entries \ victims) \cup {p}
        /\ marked' = (marked \ victims) \cup {p}
        /\ Cardinality(entries') <= MapSize

-----------------------------------------------------------------------------
(* faultkit: the runner starts and waits for the target, the CLI stops the  *)
(* injector afterwards                                                      *)

CommandStart ==
    /\ main = "start"
    /\ main' = "spawned"
    /\ proc' = [proc EXCEPT ![Target] = "running"] /\ tree' = {Target}
    /\ UNCHANGED <<threads, entries, forking, marked, strays>>

\* OnStarted: by now the target may have forked, or be gone.
SetTargetPID ==
    /\ main = "spawned"
    /\ main' = "waiting"
    /\ Enter(Target)
    /\ UNCHANGED <<threads, proc, tree, forking, strays>>

\* cmd.Wait has reaped the target.
WaitReturns ==
    /\ main = "waiting" /\ proc[Target] = "zombie"
    /\ main' = "reaped"
    /\ proc' = [proc EXCEPT ![Target] = "free"]
    /\ tree' = tree \ {Target} /\ marked' = marked \ {Target}
    /\ UNCHANGED <<threads, entries, forking, strays>>

Stop ==
    /\ main = "reaped" /\ main' = "stopped"
    /\ UNCHANGED <<threads, proc, tree, entries, forking, marked, strays>>

-----------------------------------------------------------------------------
(* track_fork *)

\* A process forks; the hook runs before the child does, and looks up the
\* parent.
Fork(p, q) ==
    /\ Hooked /\ Live(p) /\ forking[p] = NoPid /\ Free(q)
    /\ IF p \in entries
       THEN forking' = [forking EXCEPT ![p] = q] /\ proc' = [proc EXCEPT ![q] = "new"]
       ELSE proc' = [proc EXCEPT ![q] = "running"] /\ UNCHANGED forking
    /\ tree' = IF p \in tree THEN tree \cup {q} ELSE tree
    /\ UNCHANGED <<threads, main, entries, marked, strays>>

\* The same hook for a new thread, whose tgid is its process's own PID.
Clone(p) ==
    /\ Hooked /\ threads /\ Live(p) /\ forking[p] = NoPid /\ p \in entries
    /\ forking' = [forking EXCEPT ![p] = p]
    /\ UNCHANGED <<threads, main, proc, tree, entries, marked, strays>>

\* The hook enters the child, which is then woken.
TrackFork(p) ==
    /\ Hooked /\ forking[p] # NoPid
    /\ Enter(forking[p])
    /\ proc' = [q \in Pid |-> IF proc[q] = "new" /\ q = forking[p] THEN "running" ELSE proc[q]]
    /\ forking' = [forking EXCEPT ![p] = NoPid]
    /\ UNCHANGED <<threads, main, tree, strays>>

-----------------------------------------------------------------------------
(* track_exit *)

\* A hook without the comparison of TID and TGID.
TrackExitAny(p, isMain) == entries' = entries \ {p}

\* No hook on do_exit at all.
TrackExitNever(p, isMain) == UNCHANGED entries

\* Only the main thread's exit removes the entry.
TrackExit(p, isMain) == entries' = IF isMain THEN entries \ {p} ELSE entries

\* The main thread exits: alone, with the rest of its process, or leaving
\* other threads behind, one of them perhaps in the fork hook.
MainThreadExits(p) ==
    /\ Hooked /\ proc[p] = "running"
    /\ TrackExit(p, TRUE)
    /\ \E left \in {"zombie", "headless"} :
          /\ left = "headless" => threads
          /\ forking[p] # NoPid => left = "headless"
          /\ proc' = [proc EXCEPT ![p] = left]
    /\ UNCHANGED <<threads, main, tree, forking, marked, strays>>

\* Another thread exits, the last one if the main thread went before it.
WorkerExits(p) ==
    /\ Hooked /\ threads /\ Live(p) /\ forking[p] = NoPid
    /\ TrackExit(p, FALSE)
    /\ proc' = [proc EXCEPT ![p] = IF @ = "headless" THEN "zombie" ELSE @]
    /\ UNCHANGED <<threads, main, tree, forking, marked, strays>>

-----------------------------------------------------------------------------
(* The rest of the kernel *)

\* A parent or init collects a process other than the target.
Reap(p) ==
    /\ Hooked /\ proc[p] = "zombie" /\ (p = Target => main = "reaped")
    /\ proc' = [proc EXCEPT ![p] = "free"]
    /\ tree' = tree \ {p} /\ marked' = marked \ {p}
    /\ UNCHANGED <<threads, main, entries, forking, strays>>

\* A process that has nothing to do with faultkit gets a free PID.
Unrelated(q) ==
    /\ Hooked /\ Free(q)
    /\ proc' = [proc EXCEPT ![q] = "running"]
    /\ UNCHANGED <<threads, main, tree, entries, forking, marked, strays>>

\* A hooked call of a process in the map, which the dice may select.
MaybeInject(p) ==
    /\ Hooked /\ Live(p) /\ p \in entries
    /\ strays' = IF p \in tree THEN strays ELSE strays \cup {p}
    /\ UNCHANGED <<threads, main, proc, tree, entries, forking, marked>>

-----------------------------------------------------------------------------
Faultkit == CommandStart \/ SetTargetPID \/ WaitReturns \/ Stop

Process(p) ==
    \/ \E q \in Pid : Fork(p, q)
    \/ Clone(p) \/ TrackFork(p)
    \/ MainThreadExits(p) \/ WorkerExits(p)
    \/ Reap(p) \/ Unrelated(p) \/ MaybeInject(p)

Next == Faultkit \/ \E p \in Pid : Process(p)

Spec == Init /\ [][Next]_vars

-----------------------------------------------------------------------------
(* Properties *)

\* Every variable ranges over the values the code and kernel can give it.
TypeOK ==
    /\ threads \in BOOLEAN
    /\ main \in {"start", "spawned", "waiting", "reaped", "stopped"}
    /\ proc \in [Pid -> {"free", "new", "running", "headless", "zombie"}]
    /\ tree \subseteq Pid /\ entries \subseteq Pid
    /\ marked \subseteq Pid /\ strays \subseteq Pid
    /\ forking \in [Pid -> Pid \cup {NoPid}]
    /\ Cardinality(entries) <= MapSize

\* A process that was entered in the map stays there for as long as its main
\* thread runs, whatever its workers do, unless the LRU map gave it up.
KeptWhileRunning == \A p \in marked : proc[p] = "running" => p \in entries

\* Without threads the fault stays in the target's tree until the target is
\* reaped: no process outside is in the map or has had a call overridden,
\* however PIDs are reused.
Contained ==
    ~threads /\ main \notin {"reaped", "stopped"} => entries \subseteq tree /\ strays = {}

\* What README.md says: descendants inherit the registration, so once the
\* target is registered every process of its tree is.
TreeIsRegistered ==
    main = "waiting" => \A p \in tree : proc[p] = "running" => p \in entries

=============================================================================
