------------------------------ MODULE KeyedPool ------------------------------
(***************************************************************************)
(* The SessionPool contract of spec.md (sections 3, 4.1 and 4.3): a        *)
(* registry from SessionKey = (worker, node) to at most one Session.       *)
(* Acquire returns the key's Session or opens a new one, and may sweep     *)
(* entries whose owning worker is no longer live; Evict force-closes and   *)
(* removes entries; Down force-closes every Session.  Keys are pairs here: *)
(* how an implementation encodes them is its own business.                 *)
(***************************************************************************)
EXTENDS FiniteSets

CONSTANTS
    Threads,      \* the workers, and the thread that owns the topology
    Targets,      \* the nodes a Session can be bound to
    Sessions,     \* the Sessions that can ever be opened
    NoSession     \* the entry of a key that has none

Keys == Threads \X Targets

VARIABLES
    sess,         \* SessionKey -> its Session, or NoSession
    state,        \* Session -> "unused" | "open" | "closed"
    alive         \* the threads that are still live

vars == <<sess, state, alive>>

Held == {sess[k] : k \in {k \in Keys : sess[k] # NoSession}}

\* keys whose owning worker is no longer live: the sweep may take these
DeadKeys == {k \in Keys : sess[k] # NoSession /\ k[1] \notin alive}

\* close the Sessions of the keys in K and drop those entries
Drop(K) ==
    /\ sess'  = [k \in Keys |-> IF k \in K THEN NoSession ELSE sess[k]]
    /\ state' = [s \in Sessions |->
                    IF \E k \in K : sess[k] = s THEN "closed" ELSE state[s]]

-----------------------------------------------------------------------------
\* a pool holding open Sessions under distinct keys, every other unused
Init ==
    /\ sess \in [Keys -> Sessions \cup {NoSession}]
    /\ \A k1, k2 \in Keys : k1 # k2 /\ sess[k1] # NoSession => sess[k1] # sess[k2]
    /\ state = [s \in Sessions |-> IF s \in Held THEN "open" ELSE "unused"]
    /\ alive = Threads

(* Acquire(key) by a live thread for its own key: the existing Session,    *)
(* which changes nothing, or a fresh one, after which the pool may scan   *)
(* for the entries of dead owners and close them.                          *)
Acquire(t, n) ==
    /\ t \in alive
    /\ sess[<<t, n>>] = NoSession
    /\ \E s \in Sessions, D \in {{}, DeadKeys} :
        /\ state[s] = "unused" /\ state'[s] = "open"
        /\ sess'  = [k \in Keys |-> CASE k = <<t, n>> -> s
                                      [] k \in D      -> NoSession
                                      [] OTHER        -> sess[k]]
        /\ state' = [x \in Sessions |->
                        CASE x = s                      -> "open"
                          [] \E k \in D : sess[k] = x   -> "closed"
                          [] OTHER                      -> state[x]]
    /\ UNCHANGED alive

\* Evict(key): the Session of one key is force-closed (after a timeout)
Evict(k) ==
    /\ sess[k] # NoSession
    /\ Drop({k})
    /\ UNCHANGED alive

\* the node restarts: the Sessions of every key on it are force-closed
EvictNode(n) ==
    /\ Drop({k \in Keys : k[2] = n /\ sess[k] # NoSession})
    /\ UNCHANGED alive

\* Down, first step: every Session but the caller's own is force-closed
EvictAllBut(k) ==
    /\ Drop({j \in Keys \ {k} : sess[j] # NoSession})
    /\ UNCHANGED alive

\* Down: every Session in the pool is closed, whatever it is doing
CloseAll ==
    /\ state' = [s \in Sessions |-> IF s \in Held THEN "closed" ELSE state[s]]
    /\ UNCHANGED <<sess, alive>>

\* a worker terminates; its entries stay until they are swept or evicted
Exit(t) ==
    /\ t \in alive
    /\ alive' = alive \ {t}
    /\ UNCHANGED <<sess, state>>

Next ==
    \/ \E t \in Threads, n \in Targets : Acquire(t, n)
    \/ \E k \in Keys : Evict(k) \/ EvictAllBut(k)
    \/ \E n \in Targets : EvictNode(n)
    \/ CloseAll
    \/ \E t \in Threads : Exit(t)

Spec == Init /\ [][Next]_vars

=============================================================================
