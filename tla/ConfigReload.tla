---------------------------- MODULE ConfigReload ----------------------------
(***************************************************************************)
(* add_config (tests/testflows/ldap/tests/common.py): a test adds a       *)
(* configuration file to a ClickHouse node, waits until the server has    *)
(* loaded it, runs its body, and removes the file again.  ldap_servers()  *)
(* and ldap_authenticated_users() hand the add_config generator to        *)
(* @contextmanager, and login() nests them, so a scenario is a nest of    *)
(* configs entered outermost first and removed innermost first.           *)
(*                                                                         *)
(* The server side is the environment: one ConfigReloader per main file   *)
(* (config.xml for config.d, users.xml for users.d).  When the files it   *)
(* watches change, it saves the preprocessed file, applies the new        *)
(* configuration, and only then logs "Loaded config '<path>', performed   *)
(* update on configuration".  A config is abstracted to its uid; a log    *)
(* line to the main file it names.  Time is abstracted: a poll loop or an *)
(* expect() may run out of time whenever what it waits for is not there.  *)
(***************************************************************************)
EXTENDS Naturals, Sequences, SequencesExt

CONSTANTS
    Configs,      \* the configs a test run adds (their uids)
    Files,        \* the main config files whose reloaders the configs feed
    Target,       \* [Configs -> Files]: config.preprocessed_name
    Scenarios,    \* the nests of configs the test enters, one after another
    TimeoutsHappen \* whether a wait may run out of time (the 20 s timeout)

VARIABLES
    disk,         \* configs whose file is present under config.d / users.d
    pre,          \* file -> uids in /var/lib/clickhouse/preprocessed_configs/<file>
    applied,      \* file -> uids of the configuration the server runs with
    saving,       \* file -> preprocessed file saved, update not yet applied
    tailing,      \* `tail -n 0 -f clickhouse-server.log` runs in add_config's shell
    tail,         \* log lines that tail printed and expect() has not consumed
    sc,           \* the scenario being run
    d,            \* the depth, in that scenario's nest, of the add_config at work
    pc            \* "open" | "write" | "poll" | "expect" | "body" | "remove" | "unpoll" | "done"

vars == <<disk, pre, applied, saving, tailing, tail, sc, d, pc>>

\* the config of the add_config at work, and its main file
Cur == Scenarios[sc][d]
F   == Target[Cur]

-----------------------------------------------------------------------------
(* The server's ConfigReloader for file f (outside the repository).        *)

\* reloadIfNewer: the watched files changed; save the preprocessed file
Reload(f) ==
    /\ ~saving[f]
    /\ pre[f] # {c \in disk : Target[c] = f}
    /\ pre' = [pre EXCEPT ![f] = {c \in disk : Target[c] = f}]
    /\ saving' = [saving EXCEPT ![f] = TRUE]
    /\ UNCHANGED <<disk, applied, tailing, tail, sc, d, pc>>

\* the updater runs, then "Loaded config '<f>', performed update" is logged
Apply(f) ==
    /\ saving[f]
    /\ applied' = [applied EXCEPT ![f] = pre[f]]
    /\ saving' = [saving EXCEPT ![f] = FALSE]
    /\ tail' = IF tailing THEN Append(tail, f) ELSE tail
    /\ UNCHANGED <<disk, pre, tailing, sc, d, pc>>

-----------------------------------------------------------------------------
\* add_config's entry: node = current().context.node; a run starts with no
\* test config on the node and the reloaders at rest
Init ==
    /\ disk = {}
    /\ pre = [f \in Files |-> {}]
    /\ applied = [f \in Files |-> {}]
    /\ saving = [f \in Files |-> FALSE]
    /\ tailing = FALSE
    /\ tail = <<>>
    /\ sc = 1
    /\ d = 1
    /\ pc = "open"

\* a fresh shell to the node, wait for the prompt, start tailing the log
OpenTail ==
    /\ pc = "open"
    /\ tailing' = TRUE
    /\ tail' = <<>>
    /\ pc' = "write"
    /\ UNCHANGED <<disk, pre, applied, saving, sc, d>>

\* mutant: the heredoc goes to the main file's name, not to config.path
WriteMainFile ==
    /\ pc = "write"
    /\ disk' = disk \cup {F}
    /\ pc' = "poll"
    /\ UNCHANGED <<pre, applied, saving, tailing, tail, sc, d>>

\* node.command(f"cat <<HEREDOC > {config.path} ...", exitcode=0)
WriteConfig ==
    /\ pc = "write"
    /\ disk' = disk \cup {Cur}
    /\ pc' = "poll"
    /\ UNCHANGED <<pre, applied, saving, tailing, tail, sc, d>>

\* the poll loop: grep for the uid in the preprocessed file exits 0
Poll ==
    /\ pc = "poll"
    /\ Cur \in pre[F]
    /\ pc' = "expect"
    /\ UNCHANGED <<disk, pre, applied, saving, tailing, tail, sc, d>>

\* the loop ran out of time on exit code 1: `assert exitcode == 0` raises,
\* the tail's shell is closed, and add_config's finally runs
PollTimeout ==
    /\ pc = "poll"
    /\ TimeoutsHappen
    /\ Cur \notin pre[F]
    /\ tailing' = FALSE
    /\ pc' = "remove"
    /\ UNCHANGED <<disk, pre, applied, saving, tail, sc, d>>

\* the next add_config of the nest, or the scenario's body
Entered == IF d < Len(Scenarios[sc]) THEN <<d + 1, "open">> ELSE <<d, "body">>

\* mutant: the pattern leaves out the path, so any reload's line matches
ExpectAnyLine ==
    /\ pc = "expect"
    /\ tail # <<>>
    /\ tailing' = FALSE
    /\ tail' = <<>>
    /\ d' = Entered[1]
    /\ pc' = Entered[2]
    /\ UNCHANGED <<disk, pre, applied, saving, sc>>

(* bash.expect("ConfigReloader: Loaded config '/etc/clickhouse-server/   *)
(* <file>', performed update on configuration"): the first such line in   *)
(* the tail's output matches; the shell is closed and add_config yields.  *)
ExpectLoaded ==
    /\ pc = "expect"
    /\ Contains(tail, F)
    /\ tailing' = FALSE
    /\ tail' = <<>>
    /\ d' = Entered[1]
    /\ pc' = Entered[2]
    /\ UNCHANGED <<disk, pre, applied, saving, sc>>

\* no such line before the timeout: ExpectTimeoutError, then the finally
ExpectTimeout ==
    /\ pc = "expect"
    /\ TimeoutsHappen
    /\ ~Contains(tail, F)
    /\ tailing' = FALSE
    /\ tail' = <<>>
    /\ pc' = "remove"
    /\ UNCHANGED <<disk, pre, applied, saving, sc, d>>

\* the body of the innermost `with` returns, or raises
EndBody ==
    /\ pc = "body"
    /\ pc' = "remove"
    /\ UNCHANGED <<disk, pre, applied, saving, tailing, tail, sc, d>>

\* mutant: the file is never deleted (the command names another path)
RemoveKeepFile ==
    /\ pc = "remove"
    /\ pc' = "unpoll"
    /\ UNCHANGED <<disk, pre, applied, saving, tailing, tail, sc, d>>

\* finally: node.command(f"rm -rf {config.path}", exitcode=0)
RemoveConfig ==
    /\ pc = "remove"
    /\ disk' = disk \ {Cur}
    /\ pc' = "unpoll"
    /\ UNCHANGED <<pre, applied, saving, tailing, tail, sc, d>>

\* leave this add_config: the finally of the enclosing `with` in login(),
\* or, at the outermost, the next scenario the test runner starts, or the end
Unwound ==
    IF d > 1 THEN <<sc, d - 1, "remove">>
    ELSE IF sc < Len(Scenarios) THEN <<sc + 1, 1, "open">>
    ELSE <<sc, d, "done">>

\* the second poll loop: grep for the uid exits 1, it is gone
Unpoll ==
    /\ pc = "unpoll"
    /\ Cur \notin pre[F]
    /\ sc' = Unwound[1]
    /\ d' = Unwound[2]
    /\ pc' = Unwound[3]
    /\ UNCHANGED <<disk, pre, applied, saving, tailing, tail>>

\* out of time on exit code 0: `assert exitcode == 1` raises; the
\* enclosing add_config's finally still runs as the exception passes
UnpollTimeout ==
    /\ pc = "unpoll"
    /\ TimeoutsHappen
    /\ Cur \in pre[F]
    /\ sc' = Unwound[1]
    /\ d' = Unwound[2]
    /\ pc' = Unwound[3]
    /\ UNCHANGED <<disk, pre, applied, saving, tailing, tail>>

\* every scenario has run
Finished ==
    /\ pc = "done"
    /\ UNCHANGED vars

TestStep ==
    \/ OpenTail \/ WriteConfig \/ Poll \/ PollTimeout \/ ExpectLoaded
    \/ ExpectTimeout \/ EndBody \/ RemoveConfig \/ Unpoll \/ UnpollTimeout

Next == TestStep \/ Finished \/ \E f \in Files : Reload(f) \/ Apply(f)

(* The reloader threads check their files every reload_interval, and the *)
(* test thread runs on until the run is over: both are weakly fair.       *)
(* Timeouts are never forced: the test may wait as long as it likes.      *)
Spec ==
    /\ Init /\ [][Next]_vars
    /\ WF_vars(TestStep)
    /\ \A f \in Files : WF_vars(Reload(f)) /\ WF_vars(Apply(f))

-----------------------------------------------------------------------------
TypeOK ==
    /\ disk \subseteq Configs
    /\ pre \in [Files -> SUBSET Configs]
    /\ applied \in [Files -> SUBSET Configs]
    /\ saving \in [Files -> BOOLEAN]
    /\ tailing \in BOOLEAN
    /\ tail \in Seq(Files)
    /\ sc \in 1..Len(Scenarios)
    /\ d \in 1..Len(Scenarios[sc])
    /\ pc \in {"open", "write", "poll", "expect", "body", "remove", "unpoll", "done"}

(* What add_config waits for: when the test body runs, every config of    *)
(* its nest is in the configuration the server applied, not merely in the *)
(* preprocessed file.  The "Loaded config" line add_config takes as proof  *)
(* must be the one logged after its own file was picked up.               *)
ConfigInEffect ==
    pc = "body" =>
        \A j \in 1..Len(Scenarios[sc]) :
            Scenarios[sc][j] \in applied[Target[Scenarios[sc][j]]]

(* The converse, for the configs of earlier scenarios: when a body runs,  *)
(* no config outside its nest is still in effect.  The finally of each    *)
(* add_config waits until the uid has left the preprocessed file, and     *)
(* that is meant to be the removal having taken effect.                   *)
OnlyItsConfigInEffect ==
    pc = "body" =>
        \A f \in Files : applied[f] \subseteq ToSet(Scenarios[sc])

(* Whatever times out, the finally of every add_config removes its file,  *)
(* so the server eventually runs again with no test config in effect.     *)
ServerRestored ==
    <>[](\A f \in Files : applied[f] = {})

=============================================================================
