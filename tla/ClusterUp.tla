------------------------------ MODULE ClusterUp ------------------------------
(***************************************************************************)
(* Cluster.up() (tests/testflows/helpers/cluster.py): the bounded retry    *)
(* loop of docker-compose pull / down --remove-orphans / up -d on the host *)
(* shell, then ClickHouseNode.wait_healthy() on every ClickHouse node in   *)
(* turn.                                                                   *)
(*                                                                         *)
(* Each docker-compose step really succeeds or fails, or the command times *)
(* out (command() then closes the shell and re-raises, so up() fails).     *)
(* The step is run as `docker-compose ... 2>&1 | tee`: the exit code the   *)
(* loop tests is that of the pipeline, which is tee's, since nothing in    *)
(* the repository sets pipefail.  The containers, and whether each server  *)
(* answers "select 1", are the environment.                                *)
(***************************************************************************)
EXTENDS Naturals, Sequences

CONSTANTS
    NodeSeq,      \* nodes["clickhouse"]: the ClickHouse services, in order
    MaxAttempts,  \* max_attempts = 5
    MaxProbes     \* probes wait_healthy() can make before its timeout elapses

Nodes == {NodeSeq[i] : i \in 1..Len(NodeSeq)}

VARIABLES
    pc,         \* "pull" | "clean" | "start" | "health" | "UP" | "FAILED"
    attempt,    \* the loop variable of `for attempt in range(max_attempts)`
    hnode,      \* index in NodeSeq of the node wait_healthy() is polling
    probes,     \* probes made by the current wait_healthy()
    started,    \* environment: the services' containers are running
    ready,      \* environment: node -> its server answers "select 1"
    okSteps     \* history: the steps of this attempt that really succeeded

vars == <<pc, attempt, hnode, probes, started, ready, okSteps>>

\* exit code of `cmd 2>&1 | tee`: tee's, which copies its input and exits 0
PipeExit(real) == 0

-----------------------------------------------------------------------------
Init ==
    \* a previous run may have left the cluster up, healthy or not
    /\ started \in BOOLEAN
    /\ ready \in [Nodes -> IF started THEN BOOLEAN ELSE {FALSE}]
    /\ pc = "pull"
    /\ attempt = 0
    /\ hnode = 1
    /\ probes = 0
    /\ okSteps = {}

\* the end of a loop iteration: the next attempt, or fail() after the last
NextAttempt ==
    IF attempt + 1 < MaxAttempts
    THEN /\ attempt' = attempt + 1
         /\ pc' = "pull"
         /\ okSteps' = {}
    ELSE /\ pc' = "FAILED"
         /\ UNCHANGED <<attempt, okSteps>>

\* ExpectTimeoutError out of self.command(): close_bash(None) and re-raise
StepTimeout(step) ==
    /\ pc = step
    /\ pc' = "FAILED"
    /\ UNCHANGED <<attempt, hnode, probes, started, ready, okSteps>>

\* `docker-compose pull`: `if cmd.exitcode != 0: continue`
Pull ==
    /\ pc = "pull"
    /\ \E real \in {0, 1} :
        /\ okSteps' = IF real = 0 THEN okSteps \cup {"pull"} ELSE okSteps
        /\ IF PipeExit(real) # 0
           THEN NextAttempt
           ELSE pc' = "clean" /\ UNCHANGED attempt
    /\ UNCHANGED <<hnode, probes, started, ready>>

\* `docker-compose down --remove-orphans`: stops whatever is running
Clean ==
    /\ pc = "clean"
    /\ \E real \in {0, 1} :
        /\ IF real = 0
           THEN /\ started' = FALSE
                /\ ready' = [n \in Nodes |-> FALSE]
                /\ okSteps' = okSteps \cup {"clean"}
           ELSE UNCHANGED <<started, ready, okSteps>>
        /\ IF PipeExit(real) # 0
           THEN NextAttempt
           ELSE pc' = "start" /\ UNCHANGED attempt
    /\ UNCHANGED <<hnode, probes>>

\* `docker-compose up -d`: `if cmd.exitcode == 0: break`; the "is
\* unhealthy" check only prints `ps` and `logs`
Start ==
    /\ pc = "start"
    /\ \E real \in {0, 1} :
        /\ IF real = 0
           THEN /\ started' = TRUE
                /\ okSteps' = okSteps \cup {"start"}
           ELSE UNCHANGED <<started, okSteps>>
        /\ IF PipeExit(real) = 0
           THEN pc' = "health" /\ UNCHANGED attempt
           ELSE NextAttempt
    /\ UNCHANGED <<hnode, probes, ready>>

(* wait_healthy(): query("select 1", no_checks=1); exit code 0 ends the    *)
(* wait for this node; otherwise, while the timeout has not elapsed, sleep *)
(* and probe again, and after it `assert False, "container is not          *)
(* healthy"`.  The query's own ExpectTimeoutError is re-raised.            *)
Probe ==
    LET n == NodeSeq[hnode] IN
    /\ pc = "health"
    /\ \/ /\ ready[n]
          /\ pc' = IF hnode = Len(NodeSeq) THEN "UP" ELSE "health"
          /\ hnode' = IF hnode = Len(NodeSeq) THEN hnode ELSE hnode + 1
          /\ probes' = 0
       \/ /\ ~ready[n]
          /\ probes < MaxProbes
          /\ probes' = probes + 1
          /\ UNCHANGED <<pc, hnode>>
       \/ /\ ~ready[n]
          /\ pc' = "FAILED"
          /\ UNCHANGED <<hnode, probes>>
    /\ UNCHANGED <<attempt, started, ready, okSteps>>

\* environment: a started server becomes ready to serve
NodeReady(n) ==
    /\ started
    /\ ~ready[n]
    /\ ready' = [ready EXCEPT ![n] = TRUE]
    /\ UNCHANGED <<pc, attempt, hnode, probes, started, okSteps>>

\* up() has returned or raised
Halt ==
    /\ pc \in {"UP", "FAILED"}
    /\ UNCHANGED vars

Next ==
    \/ Pull \/ Clean \/ Start \/ Probe
    \/ \E step \in {"pull", "clean", "start", "health"} : StepTimeout(step)
    \/ \E n \in Nodes : NodeReady(n)
    \/ Halt

Spec == Init /\ [][Next]_vars

-----------------------------------------------------------------------------
TypeOK ==
    /\ pc \in {"pull", "clean", "start", "health", "UP", "FAILED"}
    /\ attempt \in 0..MaxAttempts - 1
    /\ hnode \in 1..Len(NodeSeq)
    /\ probes \in 0..MaxProbes
    /\ started \in BOOLEAN
    /\ ready \in [Nodes -> BOOLEAN]
    /\ okSteps \subseteq {"pull", "clean", "start"}

(* Section 4.3 of the spec: a failed step sends up() to the next attempt, *)
(* whose down --remove-orphans stops any previous instance.  So when up()  *)
(* reports the cluster up, the servers that answered the health probes    *)
(* run in containers that this up()'s `docker-compose up -d` started, not *)
(* in ones an earlier run left behind.                                     *)
FreshCluster ==
    pc = "UP" => "start" \in okSteps

=============================================================================
