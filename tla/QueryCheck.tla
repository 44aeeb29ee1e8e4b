----------------------------- MODULE QueryCheck -----------------------------
(***************************************************************************)
(* One call of ClickHouseNode.query() or Cluster.command()                 *)
(* (tests/testflows/helpers/cluster.py): the command is run on a shell     *)
(* from the pool, then the result is checked against the caller's expected *)
(* exit code and message and, for a query, against the "Exception:" marker *)
(* in the output.                                                          *)
(*                                                                         *)
(* The output is abstracted to which of the texts the checks look for it   *)
(* contains (`in` on strings): the expected message "m", a message that    *)
(* itself contains the marker ("Exception: m"), and the marker.            *)
(***************************************************************************)
EXTENDS Naturals, FiniteSets

CONSTANTS
    None,         \* Python None for the exitcode and message arguments
    MaxLen        \* len(sql) above which query() goes through a temp file (1024)

Marker   == "Exception:"
Messages == {"m", "Exception: m"}
ExitCodes == {0, 1}

\* `text in output`, for output a set of the texts it contains; a message
\* with the marker in it brings the marker and "m" along
Outputs ==
    {o \in SUBSET (Messages \cup {Marker}) :
        "Exception: m" \in o => {"m", Marker} \subseteq o}

Calls ==
    [kind : {"query", "command"}, len : {MaxLen, MaxLen + 1},
     exitcode : ExitCodes \cup {None}, message : Messages \cup {None},
     no_checks : BOOLEAN, raise_on_exception : BOOLEAN]

\* what bash(command) gives back: a result, or ExpectTimeoutError
Completed == [status : {"completed"}, exitcode : ExitCodes, output : Outputs]
TimedOut  == [status |-> "timeout", exitcode |-> 0, output |-> {}]
Results   == Completed \cup {TimedOut}

\* `r` before it is assigned
Unbound == [status |-> "unbound", exitcode |-> 0, output |-> {}]

VARIABLES
    pc,       \* "run" | "check" | "done"
    call,     \* the arguments of the call
    r,        \* the result of the command
    result    \* what the call returns or raises

vars == <<pc, call, r, result>>

-----------------------------------------------------------------------------
Init ==
    /\ pc = "run"
    /\ call \in Calls
    /\ r = Unbound
    /\ result = None

\* the query goes through a temp file and the host shell when it is long
LongQuery == call.kind = "query" /\ call.len > MaxLen

(* Run the command.  On ExpectTimeoutError, query() closes the shell it    *)
(* used; the short path and command() re-raise, the long path does not    *)
(* and goes on to the checks with `r` unbound.                             *)
Run ==
    /\ pc = "run"
    /\ \E res \in Results :
        \/ /\ res # TimedOut
           /\ r' = res
           /\ pc' = "check"
           /\ UNCHANGED result
        \/ /\ res = TimedOut
           /\ LongQuery
           /\ pc' = "check"
           /\ UNCHANGED <<r, result>>
        \/ /\ res = TimedOut
           /\ ~LongQuery
           /\ r' = res
           /\ result' = "Timeout"
           /\ pc' = "done"
    /\ UNCHANGED call

\* mutant: the marker is checked only when no message is expected
MarkerCheckedOnlyWhenNoMessage(c) == c.message = None

\* `if message is None or "Exception:" not in message`
MarkerChecked(c) == c.message = None \/ c.message # "Exception: m"

\* the checks of query() (and of command(), which has no marker check),
\* in the order the code asserts them
Verdict(c, res) ==
    CASE res = Unbound -> "UnboundLocalError"
      [] c.kind = "query" /\ c.no_checks -> "ok"
      [] c.exitcode # None /\ res.exitcode # c.exitcode -> "AssertionError"
      [] c.message # None /\ c.message \notin res.output -> "AssertionError"
      [] c.kind = "query" /\ MarkerChecked(c) /\ Marker \in res.output ->
            IF c.raise_on_exception THEN "QueryRuntimeException" ELSE "AssertionError"
      [] OTHER -> "ok"

\* mutant: the verdict is computed but not returned
CheckNoVerdict ==
    /\ pc = "check"
    /\ pc' = "done"
    /\ UNCHANGED <<call, r, result>>

Check ==
    /\ pc = "check"
    /\ result' = Verdict(call, r)
    /\ pc' = "done"
    /\ UNCHANGED <<call, r>>

\* the call has returned or raised
Halt ==
    /\ pc = "done"
    /\ UNCHANGED vars

Next == Run \/ Check \/ Halt

Spec == Init /\ [][Next]_vars

-----------------------------------------------------------------------------
TypeOK ==
    /\ pc \in {"run", "check", "done"}
    /\ call \in Calls
    /\ r \in Results \cup {Unbound}
    /\ result \in {None, "ok", "Timeout", "UnboundLocalError", "AssertionError",
                   "QueryRuntimeException"}
    \* a finished call has returned or raised
    /\ (pc = "done") = (result # None)

(* Section 4.4 of the spec: a command fails when the exit code differs     *)
(* from the expected one, when the expected text is missing, or when the   *)
(* output holds the failure marker and the caller did not expect an error  *)
(* (a message that itself names the exception).  The marker applies to    *)
(* SQL queries, not to the shell commands of Cluster.command().            *)
PolicyFails(c, res) ==
    \/ c.exitcode # None /\ res.exitcode # c.exitcode
    \/ c.message # None /\ c.message \notin res.output
    \/ c.kind = "query" /\ Marker \in res.output /\ c.message # "Exception: m"

(* A checked call that completed returns normally exactly when the spec's  *)
(* policy accepts its result (no_checks=True turns the checks off).        *)
ChecksMatchPolicy ==
    (pc = "done" /\ r \in Completed /\ ~(call.kind = "query" /\ call.no_checks))
        => ((result = "ok") <=> ~PolicyFails(call, r))

=============================================================================
