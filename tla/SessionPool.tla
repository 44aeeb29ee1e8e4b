----------------------------- MODULE SessionPool -----------------------------
(***************************************************************************)
(* The thread-local shell pool of Cluster (tests/testflows/helpers/       *)
(* cluster.py): the dict _bash from the string id f"{thread}-{node}" to   *)
(* an interactive Shell, guarded by Cluster.lock, shared by the worker    *)
(* threads of a test run and by the main thread that tears the cluster   *)
(* down.                                                                   *)
(*                                                                         *)
(* Every `with self.lock:` block is one atomic action: no block waits on   *)
(* another thread while it holds the lock.  Everything outside the lock   *)
(* is a step of its own: the read of `terminating` in bash() before the   *)
(* lock is taken, and the command a thread runs on the shell it got.      *)
(*                                                                         *)
(* Names are sequences of tokens, so that the string id and its          *)
(* rsplit("-", 1) / endswith() parsing are modelled by what they do; the  *)
(* only token that matters is "-".                                       *)
(***************************************************************************)
EXTENDS Naturals, FiniteSets, Sequences, SequencesExt, Functions

CONSTANTS
    Workers,      \* worker threads running tests in parallel
    Main,         \* the main thread: it brought the cluster up and tears it down
    Nodes,        \* docker-compose services that a shell can be opened on
    Host,         \* the `node=None` shell, a bash on the host running docker-compose
    ThreadName,   \* [Workers \cup {Main} -> Seq(token)]: threading.current_thread().name
    NodeName,     \* [Nodes \cup {Host} -> Seq(token)]: the service name, "None" for Host
    MaxOps        \* number of pool operations each worker starts (bound)

Threads == Workers \cup {Main}
Targets == Nodes \cup {Host}

\* the shells the model can create: Main's shells from up() and one per
\* worker operation; down()'s bash(None) finds Main's Host shell in _bash
MaxShells == Cardinality(Targets) + Cardinality(Workers) * MaxOps
ShellIds  == 1..MaxShells
NoShell   == 0

VARIABLES
    pool,         \* Cluster._bash: id -> shell, NoShell where the key is absent
    shell,        \* shell -> "unused" | "open" | "closed" (Shell.__enter__ / __exit__)
    nextShell,    \* the next shell to create
    alive,        \* threads in threading.enumerate()
    terminating,  \* Cluster.terminating
    pc,           \* thread -> program location
    tgt,          \* thread -> node argument of the pending bash()/close_bash()
    cur,          \* thread -> the shell object bash() returned (local `bash`)
    ops,          \* worker -> pool operations still to start
    timedOut,     \* history: shells on which a command raised ExpectTimeoutError
    late,         \* history: shells created after terminating was set
    owner         \* history: shell -> the thread whose bash() created it

vars == <<pool, shell, nextShell, alive, terminating, pc, tgt, cur, ops,
          timedOut, late, owner>>

-----------------------------------------------------------------------------
(* The string id and its parsing.                                          *)

Dash == "-"

\* mutant: the id is built from a thread captured once, not the caller
BashIdMainThread(t, n) == ThreadName[Main] \o <<Dash>> \o NodeName[n]

\* id = f"{current_thread.name}-{node}"
BashId(t, n) == ThreadName[t] \o <<Dash>> \o NodeName[n]

AllIds == {BashId(t, n) : t \in Threads, n \in Targets}

\* mutant: split at the first "-" (bash_id.split("-", 1))
RSplitFirst(id) ==
    SubSeq(id, 1, SelectInSeq(id, LAMBDA c : c = Dash) - 1)

\* thread_name, node_name = bash_id.rsplit("-", 1)
RSplitThread(id) ==
    SubSeq(id, 1, SelectLastInSeq(id, LAMBDA c : c = Dash) - 1)

\* key.endswith(f"-{self.name}")
EndsWithNode(id, n) == IsSuffix(<<Dash>> \o NodeName[n], id)

InPool == {id \in AllIds : pool[id] # NoShell}

\* mutant: the shells are popped from _bash without Shell.__exit__
EvictNoClose(S) ==
    /\ shell' = shell
    /\ pool'  = [id \in AllIds |-> IF id \in S THEN NoShell ELSE pool[id]]

\* close (Shell.__exit__) every shell of the ids in S and drop S from the pool
Evict(S) ==
    /\ shell' = [s \in ShellIds |->
                    IF \E id \in S : pool[id] = s THEN "closed" ELSE shell[s]]
    /\ pool'  = [id \in AllIds |-> IF id \in S THEN NoShell ELSE pool[id]]

-----------------------------------------------------------------------------
Init ==
    LET ix == CHOOSE f \in [Targets -> 1..Cardinality(Targets)] : IsInjective(f)
    IN
    \* up() ran on Main: command(None, ...) opened Main's Host shell and
    \* wait_healthy() opened Main's shell to every node
    /\ pool = [id \in AllIds |->
                 IF \E n \in Targets : id = BashId(Main, n)
                 THEN ix[CHOOSE n \in Targets : id = BashId(Main, n)]
                 ELSE NoShell]
    /\ shell = [s \in ShellIds |-> IF s <= Cardinality(Targets) THEN "open" ELSE "unused"]
    /\ nextShell = Cardinality(Targets) + 1
    /\ alive = Threads
    /\ terminating = FALSE
    /\ pc = [t \in Threads |-> IF t = Main THEN "body" ELSE "idle"]
    /\ tgt = [t \in Threads |-> Host]
    /\ cur = [t \in Threads |-> NoShell]
    /\ ops = [w \in Workers |-> MaxOps]
    /\ timedOut = {}
    /\ late = {}
    /\ owner = [s \in ShellIds |-> Main]

-----------------------------------------------------------------------------
(* bash(node), before the lock: a non-MANDATORY test raises               *)
(* InterruptedError once the cluster is terminating.  Reached from         *)
(* command(node, ...) and from query() on a ClickHouseNode.               *)
Begin(w, n) ==
    /\ pc[w] = "idle"
    /\ ops[w] > 0
    /\ ops' = [ops EXCEPT ![w] = @ - 1]
    /\ tgt' = [tgt EXCEPT ![w] = IF terminating THEN Host ELSE n]
    /\ pc' = [pc EXCEPT ![w] = IF terminating THEN "idle" ELSE "acquire"]
    /\ UNCHANGED <<pool, shell, nextShell, alive, terminating, cur, timedOut, late, owner>>

\* the clean-up of stale shells in bash(): ids whose thread has exited
StaleIds(p, live) ==
    {id \in AllIds : p[id] # NoShell /\ RSplitThread(id) \notin
                                         {ThreadName[t] : t \in live}}

\* mutant: a new shell is opened on every call, replacing the entry
AcquireAlwaysCreate(t) ==
    LET id == BashId(t, tgt[t])
        s  == nextShell
    IN
    /\ pc[t] \in {"acquire", "down_bash"}
    /\ pool' = [pool EXCEPT ![id] = s]
    /\ shell' = [shell EXCEPT ![s] = "open"]
    /\ nextShell' = nextShell + 1
    /\ late' = IF terminating THEN late \cup {s} ELSE late
    /\ owner' = [owner EXCEPT ![s] = t]
    /\ cur' = [cur EXCEPT ![t] = s]
    /\ pc' = [pc EXCEPT ![t] = IF t = Main THEN "down_sweep" ELSE "running"]
    /\ UNCHANGED <<alive, terminating, tgt, ops, timedOut>>

(* bash(node), under the lock: create the shell of this id if there is    *)
(* none, and only then sweep the shells of exited threads; return         *)
(* self._bash[id], which raises KeyError if the sweep removed it.          *)
Acquire(t) ==
    LET id      == BashId(t, tgt[t])
        create  == pool[id] = NoShell
        s       == IF create THEN nextShell ELSE pool[id]
        p1      == [pool EXCEPT ![id] = s]
        stale   == IF create THEN StaleIds(p1, alive) ELSE {}
        swept   == [i \in AllIds |-> IF i \in stale THEN NoShell ELSE p1[i]]
    IN
    /\ pc[t] \in {"acquire", "down_bash"}
    /\ pool' = swept
    /\ shell' = [x \in ShellIds |->
                    IF x = s /\ create THEN
                        IF id \in stale THEN "closed" ELSE "open"
                    ELSE IF \E i \in stale : p1[i] = x THEN "closed"
                    ELSE shell[x]]
    /\ nextShell' = IF create THEN nextShell + 1 ELSE nextShell
    /\ late' = IF create /\ terminating THEN late \cup {s} ELSE late
    /\ owner' = IF create THEN [owner EXCEPT ![s] = t] ELSE owner
    /\ cur' = [cur EXCEPT ![t] = IF swept[id] = NoShell THEN NoShell ELSE s]
    /\ tgt' = [tgt EXCEPT ![t] = IF swept[id] = NoShell THEN Host ELSE tgt[t]]
    /\ pc' = [pc EXCEPT ![t] =
                IF swept[id] = NoShell THEN             \* KeyError
                    IF t = Main THEN "exit" ELSE "idle"
                ELSE IF t = Main THEN "down_sweep" ELSE "running"]
    /\ UNCHANGED <<alive, terminating, ops, timedOut>>

\* mutant: ExpectTimeoutError is re-raised without close_bash(node)
FinishNoClose(t) ==
    /\ pc[t] \in {"running", "down_cmd"}
    /\ \E r \in IF shell[cur[t]] = "open" THEN {"ok", "timeout"}
                                          ELSE {"timeout", "error"} :
        /\ timedOut' = IF r = "timeout" THEN timedOut \cup {cur[t]} ELSE timedOut
        /\ pc' = [pc EXCEPT ![t] = IF t = Main THEN "exit" ELSE "idle"]
        /\ cur' = [cur EXCEPT ![t] = NoShell]
        /\ tgt' = [tgt EXCEPT ![t] = Host]
    /\ UNCHANGED <<pool, shell, nextShell, alive, terminating, ops, late, owner>>

(* r = bash(command) in command(): the command completes, or raises       *)
(* ExpectTimeoutError, or raises another error (a shell closed under it). *)
(* A timeout goes on to close_bash(node); any other exception propagates. *)
Finish(t) ==
    /\ pc[t] \in {"running", "down_cmd"}
    /\ \E r \in IF shell[cur[t]] = "open" THEN {"ok", "timeout"}
                                          ELSE {"timeout", "error"} :
        /\ timedOut' = IF r = "timeout" THEN timedOut \cup {cur[t]} ELSE timedOut
        /\ pc' = [pc EXCEPT ![t] =
                    IF r = "timeout" THEN (IF t = Main THEN "down_close" ELSE "close")
                    ELSE (IF t = Main THEN "exit" ELSE "idle")]
        /\ cur' = IF r = "timeout" THEN cur ELSE [cur EXCEPT ![t] = NoShell]
        /\ tgt' = IF r = "timeout" THEN tgt ELSE [tgt EXCEPT ![t] = Host]
    /\ UNCHANGED <<pool, shell, nextShell, alive, terminating, ops, late, owner>>

\* close_bash(node): close and drop this thread's shell for node, if any
CloseBash(t) ==
    LET id == BashId(t, tgt[t]) IN
    /\ pc[t] \in {"close", "down_close"}
    /\ IF pool[id] = NoShell
       THEN UNCHANGED <<pool, shell>>
       ELSE Evict({id})
    /\ pc' = [pc EXCEPT ![t] = IF t = Main THEN "exit" ELSE "idle"]
    /\ cur' = [cur EXCEPT ![t] = NoShell]
    /\ tgt' = [tgt EXCEPT ![t] = Host]
    /\ UNCHANGED <<nextShell, alive, terminating, ops, timedOut, late, owner>>

\* mutant: restart() closes the node's shells but leaves them in _bash
RestartNoPop(w, n) ==
    /\ pc[w] = "idle"
    /\ ops[w] > 0
    /\ ops' = [ops EXCEPT ![w] = @ - 1]
    /\ shell' = [s \in ShellIds |->
                    IF \E id \in InPool : EndsWithNode(id, n) /\ pool[id] = s
                    THEN "closed" ELSE shell[s]]
    /\ tgt' = [tgt EXCEPT ![w] = Host]
    /\ pc' = [pc EXCEPT ![w] = IF terminating THEN "idle" ELSE "acquire"]
    /\ UNCHANGED <<pool, nextShell, alive, terminating, cur, timedOut, late, owner>>

(* Node.restart(): under the lock, pop and close every shell whose id     *)
(* ends with "-<name>", whoever's it is; then command(None, "docker-compose *)
(* restart <name>"), whose bash(None) re-reads terminating.                *)
Restart(w, n) ==
    /\ pc[w] = "idle"
    /\ ops[w] > 0
    /\ ops' = [ops EXCEPT ![w] = @ - 1]
    /\ Evict({id \in InPool : EndsWithNode(id, n)})
    /\ tgt' = [tgt EXCEPT ![w] = Host]
    /\ pc' = [pc EXCEPT ![w] = IF terminating THEN "idle" ELSE "acquire"]
    /\ UNCHANGED <<nextShell, alive, terminating, cur, timedOut, late, owner>>

\* a worker thread finishes its test and exits
ThreadExit(w) ==
    /\ pc[w] = "idle"
    /\ pc' = [pc EXCEPT ![w] = "dead"]
    /\ alive' = alive \ {w}
    /\ UNCHANGED <<pool, shell, nextShell, terminating, tgt, cur, ops, timedOut, late, owner>>

-----------------------------------------------------------------------------
(* Cluster.__exit__ -> down() on the main thread.                          *)

\* down(): self.terminating = True, then bash = self.bash(None)
StartDown ==
    /\ pc[Main] = "body"
    /\ terminating' = TRUE
    /\ tgt' = [tgt EXCEPT ![Main] = Host]
    /\ pc' = [pc EXCEPT ![Main] = "down_bash"]
    /\ UNCHANGED <<pool, shell, nextShell, alive, cur, ops, timedOut, late, owner>>

\* down(), under the lock: remove and close every shell but its own
DownSweep ==
    /\ pc[Main] = "down_sweep"
    /\ Evict({id \in InPool : pool[id] # cur[Main]})
    /\ pc' = [pc EXCEPT ![Main] = "down_cmd"]
    /\ UNCHANGED <<nextShell, alive, terminating, tgt, cur, ops, timedOut, late, owner>>

\* __exit__'s finally, under the lock: __exit__ every shell still in _bash
ExitCluster ==
    /\ pc[Main] = "exit"
    /\ shell' = [s \in ShellIds |->
                    IF \E id \in InPool : pool[id] = s THEN "closed" ELSE shell[s]]
    /\ pc' = [pc EXCEPT ![Main] = "done"]
    /\ UNCHANGED <<pool, nextShell, alive, terminating, tgt, cur, ops, timedOut, late, owner>>

\* every thread has finished: the run is over
Terminated ==
    /\ pc[Main] = "done"
    /\ \A w \in Workers : pc[w] \in {"idle", "dead"} /\ (pc[w] = "idle" => ops[w] = 0)
    /\ UNCHANGED vars

Next ==
    \/ \E w \in Workers, n \in Targets : Begin(w, n)
    \/ \E w \in Workers, n \in Nodes : Restart(w, n)
    \/ \E w \in Workers : ThreadExit(w)
    \/ \E t \in Threads : Acquire(t) \/ Finish(t) \/ CloseBash(t)
    \/ StartDown \/ DownSweep \/ ExitCluster
    \/ Terminated

\* Cluster.__exit__ always runs when the `with Cluster(...)` block is left,
\* so the main thread's steps are weakly fair; workers may stop at any time.
MainSteps ==
    StartDown \/ Acquire(Main) \/ DownSweep \/ Finish(Main) \/ CloseBash(Main)
    \/ ExitCluster

Spec == Init /\ [][Next]_vars /\ WF_vars(MainSteps)

-----------------------------------------------------------------------------
TypeOK ==
    /\ pool \in [AllIds -> ShellIds \cup {NoShell}]
    /\ shell \in [ShellIds -> {"unused", "open", "closed"}]
    /\ nextShell \in 1..MaxShells + 1
    /\ alive \subseteq Threads
    /\ terminating \in BOOLEAN
    /\ pc \in [Threads -> {"idle", "acquire", "running", "close", "dead", "body",
                           "down_bash", "down_sweep", "down_cmd", "down_close",
                           "exit", "done"}]
    /\ tgt \in [Threads -> Targets]
    /\ cur \in [Threads -> ShellIds \cup {NoShell}]
    /\ ops \in [Workers -> 0..MaxOps]
    /\ timedOut \subseteq ShellIds
    /\ late \subseteq ShellIds
    /\ owner \in [ShellIds -> Threads]

Using == {"running", "down_cmd"}

(* Invariant 2 of the spec: a shell is used by the thread that owns its   *)
(* key only.  Two threads never run commands on the same shell at once,   *)
(* although bash() hands out shells under the lock and the commands run   *)
(* outside it, and restart(), down() and the stale sweep close shells of  *)
(* other threads.                                                          *)
ExclusiveUse ==
    \A t1, t2 \in Threads :
        t1 # t2 /\ pc[t1] \in Using /\ pc[t2] \in Using => cur[t1] # cur[t2]

(* After a command on a shell raised ExpectTimeoutError, command() calls   *)
(* close_bash(node), so no later command, of that thread or any other,     *)
(* is ever sent to that shell: the next bash(node) opens a fresh one.      *)
NoCommandOnTimedOutShell ==
    \A t \in Threads : pc[t] \in Using => cur[t] \notin timedOut

(* Until Cluster.__exit__ has closed everything, every shell that _bash    *)
(* holds is open: every path that closes a shell (close_bash, restart,     *)
(* the stale sweep, down) also removes it from _bash, so bash() never      *)
(* returns a closed shell.                                                 *)
PoolShellsOpen ==
    pc[Main] # "done" => \A id \in InPool : shell[pool[id]] = "open"

\* the shell of thread t on node n is open although t has exited
\* shell s is open although the thread that created it has exited
Orphan(s) == shell[s] = "open" /\ owner[s] \notin alive

(* Invariant 3 of the spec, for the shells opened before down() set        *)
(* terminating: a shell whose thread has exited is eventually closed, by  *)
(* the sweep of a later bash(), by down() or by Cluster.__exit__.          *)
OrphansReclaimed ==
    \A s \in ShellIds : (Orphan(s) /\ s \notin late) ~> shell[s] = "closed"

(* Invariant 3 of the spec, for every shell: a shell whose thread has      *)
(* exited is eventually closed.                                           *)
AllOrphansReclaimed ==
    \A s \in ShellIds : Orphan(s) ~> shell[s] = "closed"

(* Section 4.1 of the spec: Acquire(key) returns the existing shell of the *)
(* key or a new one; bash() never fails to return a shell.                 *)
AcquireReturnsShell ==
    [][\A t \in Threads :
          pc[t] \in {"acquire", "down_bash"} /\ pc'[t] # pc[t] => cur'[t] # NoShell]_vars

-----------------------------------------------------------------------------
(* The refinement mapping: the entry of SessionKey (t, n) is _bash at the  *)
(* string id f"{t}-{n}", and the pool's Sessions are the shells.           *)
KeyId      == [k \in Threads \X Targets |-> BashId(k[1], k[2])]
KeyEntries == [k \in Threads \X Targets |-> pool[KeyId[k]]]

KP == INSTANCE KeyedPool WITH
        Threads <- Threads, Targets <- Targets,
        Sessions <- ShellIds, NoSession <- NoShell,
        sess <- KeyEntries, state <- shell, alive <- alive

(* The pool implements the SessionPool contract of spec.md section 4.1.    *)
(* The sweep in bash() and Node.restart() select entries by parsing the    *)
(* string id (rsplit("-", 1), endswith("-" + name)), so this holds only if *)
(* the parse recovers the pair: the sweep never takes a live thread's      *)
(* entry, restart takes exactly its node's, and down() all but its own.    *)
ImplementsKeyedPool == KP!Spec

=============================================================================
