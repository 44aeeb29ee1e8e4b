# TLA+ models of the testflows cluster harness

The repository is a ClickHouse test harness. The part with real concurrency
and failure handling is `src/tests/testflows/helpers/cluster.py`. It brings a
docker-compose cluster up with retries, keeps a pool of interactive shells per
(thread, node), runs commands on them with timeouts, and tears the cluster
down. Most modules model that file. Three release and documentation tools are
modelled too: the changelog description parser
(`utils/github/parser.py`), the backport script (`utils/github/backport.py`)
and the single-page documentation builder (`docs/tools/concatenate.py`), and
so is the LDAP tests' `add_config` (`ldap/tests/common.py`), which waits for
the server to reload a configuration file. The
rest of the repository is listed below with what is, and is not, modelled.

## Inventory

### Components

| Component | Source | State it keeps | Operations |
|---|---|---|---|
| Shell pool | `cluster.py` `Cluster.bash`, `close_bash`, `command`, `down`, `__exit__`, `Node.restart` | `_bash`: string id `f"{thread}-{node}"` → open `Shell`; `lock`; `terminating` | `bash(node)`: get or create the caller's shell, then sweep shells of exited threads; `close_bash(node)`; `command()`: run on the shell, on `ExpectTimeoutError` close it and re-raise; `restart()`: close every shell of one node; `down()`: set `terminating`, close all shells but its own, run `docker-compose down`; `__exit__`: close everything |
| Bring-up | `cluster.py` `Cluster.up`, `ClickHouseNode.wait_healthy` | loop counter (5 attempts), the last `cmd` | `pull`, `down --remove-orphans`, `up -d`, each `... 2>&1 \| tee`; then probe `select 1` on each ClickHouse node until exit code 0 or the timeout |
| Query checks | `cluster.py` `ClickHouseNode.query`, the checks in `Cluster.command` | none (per call) | run through the pool (or through the host shell and a temp file for SQL over 1024 chars); check the exit code, the message, and `"Exception:"` in the output |
| Shell | `testflows.connect.Shell` (outside the repository) | one bash process, its prompt | send a command, wait for the prompt or time out |
| LDAP config reload | `ldap/tests/common.py` `add_config` | a config file on the node | write the file, poll until the preprocessed file has the uid, wait for the reload log line; on exit remove it and poll until the uid is gone |
| Changelog parser | `utils/github/parser.py` `Description._parse` | `next_category`, `category`, `legal` | one pass over the lines of a PR body |
| Backport script | `utils/github/backport.py` `Backport.execute`, `getBranchesWithLTS` | `branches`, `backport_map` | choose release branches (open LTS ones first, then the last `-n`), fetch PRs merged since `until_commit`, drop branches that already contain each PR, two passes over its labels, then `run_cherrypick` per (PR, branch) |
| Single-page docs | `docs/tools/concatenate.py` `concatenate` | `files_to_concatenate`, `first_file`, the open single page | filter the mkdocs config, truncate the single page, copy every page line by line with links rewritten and headers raised |
| Other scripts | `aes_encryption/regression.py`, the pytest integration tests, the live-view test, `docs/tools/test.py` | — | sequence calls to the service or external tools, or scan files read-only |

### How they interact

Test threads (testflows runs tests in parallel threads) call
`node.query()` / `node.command()`. These go through `Cluster.command()` to
`Cluster.bash(node)`, which takes `lock` only to read and change `_bash`. The
command itself runs outside the lock. `Node.restart()` on one thread closes the
shells of every thread on that node. `down()` runs on the main thread when the
`with Cluster(...)` block is left, possibly while workers are still running:
this is why `terminating` exists. `up()` runs on the main thread before any
worker starts, and its `wait_healthy()` opens the main thread's shells.

### What is hard

* Interleavings of worker threads with each other and with `down()`. Each
  lock block is atomic, but the read of `terminating` and the command itself
  are outside the lock.
* Shells closed under a thread that is using them (`restart`, `down`).
* Timeouts: a timed-out shell must never be reused.
* Threads exit while their shells stay in `_bash`, and the sweep is lazy.
* The id is a string parsed back with `rsplit("-", 1)` and `endswith`.
* Bring-up is a bounded retry loop over external commands, whose exit codes
  pass through `| tee`. It runs against containers that an earlier run may
  have left behind.

### Properties that make each component correct

* Shell pool: a shell is used only by the thread that owns its key. A
  timed-out shell is never used again. The pool never hands out a closed
  shell. Shells of exited threads are eventually closed. `bash()` always
  returns a shell. As a whole, the pool keeps the per-(thread, node)
  contract of spec §4.1 although its keys are strings. (The spec's bound of
  live threads × nodes does not hold between sweeps, which are lazy by
  design, so it is not checked.)
* Bring-up: a failed step is retried, and the cluster used is the one this
  `up()` started (spec §4.3). The code does not do this: see
  `up_stale_cluster`.
* Query checks: a command passes only if the exit code, the message and the
  exception marker all pass. A timeout surfaces as a timeout.
  (Reading the code shows the last does not hold for SQL of more than 1024
  characters: the handler at `cluster.py:106` closes the host shell and does not
  re-raise, so the caller gets `UnboundLocalError` for `r`. `QueryCheck`
  reaches that outcome, but no run is spent on it: it is one path that a
  unit test with a timing-out shell shows.)
* Changelog parser: the label is that of the category line following the
  header, and legal means the CLA sentence is present.
* Backport: a bug fix reaches every chosen branch cut before it and no branch
  that contains it. Labels that cancel a backport are honoured, and
  must-backport labels are kept, whatever the label order.
  (Reading the code shows the last does not hold: on `pr-bugfix` the first
  label pass replaces the PR's set with `backport_map[pr['number']] =
  branch_set.copy()`, so a `vX.Y-must-backport` label seen earlier is lost
  when X.Y is not a chosen branch (`backport.py:76`). A unit test with the
  two label orders shows it, so no run is spent on it.)
* Single-page docs: the document holds the configured pages in order, with
  their links rewritten. Headers are raised in every page but the first. The
  single page is never left part-written.
  (Reading the code shows the last two do not hold: `first_file` is cleared
  after the first line, and a link without an anchor raises after the
  truncating open. No run is spent on either, because a unit test shows
  both.)
* LDAP config reload: the config is in effect before the test body runs, and
  it is removed afterwards, even when the body fails. No config of an
  earlier scenario is still in effect when a body runs.

## Modules

### `SessionPool.tla` (with `MC_SessionPool.tla`)

State (`VARIABLES`) and where it comes from in the code:
* `pool` is `_bash`, a function from every possible id string to a shell
  number, where 0 means the key is absent.
* `shell` is the open/closed state of each `Shell`.
* `alive` is `threading.enumerate()`.
* `terminating` is `Cluster.terminating`.
* `pc`, `tgt` and `cur` are each thread's program point, the `node` argument
  it is working on, and the shell it holds (the local `bash`).
* `ops` bounds the operations a worker starts.
* `timedOut`, `late` and `owner` are history variables used only by the
  properties.

Thread names and node names are sequences of tokens. `BashId`, `RSplitThread`
and `EndsWithNode` do what the f-string, `rsplit("-", 1)` and `endswith` do.

Actions:
* `Begin` is the `terminating` check in `bash()`, outside the lock.
* `Acquire` is the locked block of `bash()`: create if absent, sweep only
  then, then `return self._bash[id]`. If the sweep removed the id, that is a
  KeyError.
* `Finish` is the command on the shell: it completes, times out, or raises on
  a closed shell.
* `CloseBash` is `close_bash`.
* `Restart` is `Node.restart`'s locked eviction, followed by the
  `terminating` check of its `command(None, ...)`.
* `ThreadExit`: a worker ends.
* `StartDown`, `Acquire(Main)`, `DownSweep` and `Finish(Main)` /
  `CloseBash(Main)` model `down()`.
* `ExitCluster` is `__exit__`'s `finally`.

The main thread starts with the shells `up()` opened: its host shell and one
per node. Only the main thread's steps are weakly fair, because `__exit__`
always runs when the `with` block is left. Workers may stop at any time.
`Terminated` is the stutter at the end of a run.

`ClickHouseNode.restart(safe=True)` first runs three queries and `sync` on
the caller's own shell for the node. These are `Begin`, `Acquire` and
`Finish` steps of the same worker before its `Restart`, so the model already
has them. No caller in the repository restarts a node.

The refinement mapping to `KeyedPool` is at the end of the module:
`KeyEntries` gives the entry of the pair (t, n) as `pool` at the string
`BashId(t, n)`; sessions are the shells, and `alive` maps to itself.

### `KeyedPool.tla`

This is the contract of spec §3 and §4.1, written from the spec, with
SessionKeys as pairs.
* `Acquire(t, n)` by a live thread opens a fresh session for a key that has
  none, and may then sweep the entries of dead owners, all of them at once.
  For a key that has a session, `Acquire` changes nothing, which is a
  stutter.
* `Evict(k)` is one key (a timeout), `EvictNode(n)` is every key on a node (a
  restart), and `EvictAllBut(k)` is every key but the caller's (`Down`).
  Each one closes exactly what it removes.
* `CloseAll` closes every session and leaves the entries in place.
* `Exit(t)` ends a thread.

`ImplementsKeyedPool` checks `KP!Spec` on `SessionPool`. It fails if parsing
an id takes a live thread's entry, or if restart takes another node's. It
also fails if an entry is replaced or dropped without closing its shell, or
if a dead thread gets a shell.

### `ClusterUp.tla` (with `MC_ClusterUp.tla`)

* `Pull`, `Clean` and `Start` are the three docker-compose steps of one
  attempt. Each really succeeds or fails. The loop sees
  `PipeExit(real)`: the exit code of `cmd 2>&1 | tee`, which is tee's 0,
  since nothing in the repository sets `pipefail`.
* `StepTimeout` is `ExpectTimeoutError` from any step, which is re-raised.
* `NextAttempt` is `continue`/loop end, or `fail()` after the fifth attempt.
* `Probe` is one iteration of `wait_healthy()` on the current node, in
  `nodes["clickhouse"]` order.
* `NodeReady` is the environment: a started server becomes ready.

`Init` lets an earlier run have left the containers up, healthy or not.
`FreshCluster` says what §4.3 promises: when `up()` reports the cluster up,
its `docker-compose up -d` succeeded, so the servers that answered run in
containers it started. With every exit code masked by `tee`, no step failure
reaches the retry loop, and containers left by an earlier run can pass the
health checks.

### `QueryCheck.tla` (with `MC_QueryCheck.tla`)

One call of `ClickHouseNode.query()` or `Cluster.command()`, for every
combination of its arguments (`exitcode`, `message`, `no_checks`,
`raise_on_exception`, and SQL of more than 1024 characters) and every result
of the command.
* The output is abstracted to which of the texts the checks look for it
  contains: the expected message, a message naming the exception, and the
  `"Exception:"` marker.
* `Run` is the command. It completes; or it times out and re-raises (the
  short path and `command()`); or, on the long-SQL path, it times out and the
  handler swallows the error, leaving `r` unbound.
* `Verdict` is the checks, in the order the code asserts them. `Check`
  applies it.
* `PolicyFails` is the spec's §4.4 reference definition that the checks are
  compared with.

### `DescriptionParser.tla` refines `DescriptionSpec.tla` (with `DescriptionText.tla`, `MC_DescriptionParser.tla`)

* `DescriptionText` is the shared abstraction. A line is one of the texts the
  parser compares with (the CLA sentence, the header, a category, empty),
  with or without surrounding whitespace. `Strip` is `line.strip()`.
* `DescriptionParser` has one action per iteration of `for line in lines`
  (`ParseLine`), then `Lookup` in `MAP_CATEGORY_TO_LABEL`. Its variables are
  the locals `next_category` and `category` and the attributes `label_name`
  and `legal`.
* `DescriptionSpec` is the abstract specification. One `Parse` step sets the
  label from `SelectedCategory`, the first non-empty line after the last
  header that has one, and sets `legal`.
* The refinement mapping shows the constructor's defaults until `_parse`
  returns: `Abstract == INSTANCE DescriptionSpec WITH ...`. `ParseRefinesSpec`
  is `Abstract!Spec`, checked as a PROPERTY.

### `Backport.tla` (with `MC_Backport.tla`)

* Master is a line of commits numbered in ancestry order, so
  `repo.comparator` is the commit number.
* The environment is chosen in `Init`: the release branches (a prefix of
  `Release`), `-n`, `--til`, `find_lts`, the release-lts PRs and the merged
  PRs with their labels. A label is the regular expression it matches and
  the version its group captures.
* `Select` is lines 35-55. `ProcessPR` is one iteration of the PR loop:
  `DropMerged` (the `while ... pop()`, ending in IndexError on an empty
  list), `FirstPass` and `SecondPass` as folds over the labels, and
  `SetEntry` on `backport_map`. `Report` is the `run_cherrypick` loop.
* `get_pull_requests` is in `query.py`, which is not in the repository. The
  PRs are taken newest first, the only order under which the permanent
  `pop()` is right.

`Main` is the `__main__` block (lines 109-126). Its call
`bp.execute(args.repo, args.til, args.number, cherrypick_run)` binds four of
the five parameters, so it ends in TypeError. `Entries` says whether a run
starts there or with a direct call of `execute()`; `backport_branches` has
both.

### `Concatenate.tla` (with `MC_Concatenate.tla`)

* A config line is one of: a page entry, the single page, a line without
  `.md`, or a `.md` line without `:`.
* A page line is whether it is a header, and its link: none, http, anchored,
  or without an anchor.
* `ReadConfig` is the config loop and the truncating `open(..., 'w')`.
  `StartPage` writes the `'\n\n'`. `CopyLine` is one line: `LinkProc`, which
  raises on a link without an anchor, then the header shift with
  `first_file`. `NextPage` ends a page (the next page's `for l in f` starts
  at that file's first line), and `Finish` ends the run.
* `Main` is the `__main__` argument check (exit 1) and the language
  directory check at lines 23-25 (exit 2).

### `ConfigReload.tla` (with `MC_ConfigReload.tla`)

`add_config` is a generator. `ldap_servers()` and
`ldap_authenticated_users()` hand it to `@contextmanager`, and `login()`
nests them. A scenario is therefore a nest of configs (the constant
`Scenarios`), entered outermost first and removed innermost first.
* `OpenTail` is the fresh `Cluster.shell()` that runs
  `tail -n 0 -f clickhouse-server.log`. `WriteConfig` is the heredoc write.
* `Poll` / `PollTimeout` is the loop over the preprocessed file, and
  `ExpectLoaded` / `ExpectTimeout` is the `expect()` of the reload line.
  Then the next `add_config` of the nest runs (`Entered`), or the body does.
* `RemoveConfig` and `Unpoll` / `UnpollTimeout` are the `finally`. An
  exception from any wait goes to the `finally` of its own `add_config`, and
  then to the enclosing ones (`Unwound`): the `finally` of the enclosing
  `with` in `login()`, or, at the outermost, the end of the scenario.
* `Reload(f)` and `Apply(f)` are the server's ConfigReloader for main file
  `f` (`config.xml` or `users.xml`). They are outside the repository and
  model the environment: save the preprocessed file, apply, and only then
  log "Loaded config '<f>', performed update on configuration". `tail` holds
  the lines logged while the tail runs.
* Time is abstracted. A wait may end in its timeout whenever what it waits
  for is absent; the constant `TimeoutsHappen` turns timeouts off.
* Fairness: the reloader threads run every `reload_interval`, and the test
  thread runs on, so both are weakly fair. Timeouts are never forced.

## Runs

| Run | Config | Expect | Shows |
|---|---|---|---|
| pool_safety | `MC_SessionPool.cfg` | pass | `TypeOK`. `ExclusiveUse`: no two threads run on one shell. `NoCommandOnTimedOutShell`. `PoolShellsOpen`: `bash()` never returns a closed shell. `AcquireReturnsShell`: with the repository's service names, `rsplit` finds the right thread and `bash()` always returns a shell. All under restarts, timeouts, thread exits and a concurrent `down()`. |
| pool_liveness | `MC_SessionPool_live.cfg` | pass | `OrphansReclaimed`: every shell opened before `down()` began, whose thread exited, is eventually closed. `ImplementsKeyedPool`: the string-keyed `_bash` implements the per-(thread, node) contract of `KeyedPool`. |
| pool_leak | `MC_SessionPool_leak.cfg` | violation | `AllOrphansReclaimed` fails. A worker past the `terminating` check opens a shell after `__exit__` closed the pool, and nothing ever closes it. |
| up_stale_cluster | `MC_ClusterUp_stale.cfg` | violation | `FreshCluster` fails in 7 states. An earlier run left healthy containers; `pull` succeeds, `down --remove-orphans` and `up -d` fail, but `\| tee` reports 0 for both. The old servers answer the probes, and `up()` reports a cluster it did not start (`cluster.py:306-314`). |
| query | `MC_QueryCheck.cfg` | pass | `TypeOK`. `ChecksMatchPolicy`: a completed, checked call returns normally exactly when the §4.4 policy accepts its result. |
| parser | `MC_DescriptionParser.cfg` | pass | `TypeOK`. `ParseRefinesSpec`: the loop implements `DescriptionSpec` over every body of up to 4 lines. |
| backport_branches | `MC_Backport_branches.cfg` | pass | `TypeOK`. `BugfixReachesOpenBranches`. `NoBackportToContainingBranch`. All for every `-n`, `--til` and LTS choice, with the branches in the order the comments assume. |
| backport_lts | `MC_Backport_lts.cfg` | violation | `BugfixReachesOpenBranches` fails. An LTS branch that is also recent is put first, `until_commit` becomes its base, and earlier fixes never reach the older branch (`backport.py:41`). |
| concat | `MC_Concatenate.cfg` | pass | `TypeOK`. `DocumentFollowsConfig`: a completed run writes the configured pages in order, every line, links rewritten. |
| ldap_reload | `MC_ConfigReload.cfg` | pass | `TypeOK`. `ConfigInEffect`: every body runs with its configs applied, when each main file is fed by one `add_config`. `ServerRestored`: whatever times out, the server ends with no test config in effect. |
| ldap_stale_line | `MC_ConfigReload_stale.cfg` | violation | `ConfigInEffect` fails with no timeout at all. `login()` followed by another `ldap_servers()` scenario: the second `add_config` matches the reload line logged for the first scenario's removal, and its body runs before its config is applied (`common.py:88`). |
| ldap_removed_in_effect | `MC_ConfigReload_removed.cfg` | violation | `OnlyItsConfigInEffect` fails with no timeout. A servers scenario is followed by a users scenario. The first `finally` returns once the uid has left the preprocessed `config.xml`, before the server applies the removal. The users body then runs with the LDAP servers config still in effect (`common.py:98`). |

Each property of a passing run has a mutant in `PROJECT.json`: a plausible bug
in the mapped code that makes TLC report it.

### Bounds

Pool runs use two workers named `Thread-1` and `Thread-2`. Those names
contain the separator, as Python's default thread names do. They also use
`MainThread`, one ClickHouse node, and the host shell (`None`). Each worker
starts 2 operations (1 in the liveness runs). That covers:
* a worker reusing its shell, and a timeout followed by a fresh shell;
* a restart closing the other worker's shell mid-command;
* a thread exiting and its shell being swept by the other worker;
* `down()` racing a worker at every point.

The safety run has about 277,000 distinct states. The liveness run uses one
operation per worker to stay within minutes. It also checks the refinement,
whose action check costs about 0.2 ms per transition, too much for the safety
run's 830,000 transitions. That is still enough for the
sweep-by-another-worker path and the `down()` paths. A second ClickHouse node
adds only symmetric cases, and with it the state space grows beyond five
minutes.

`query` enumerates every call and every result, so its bounds are complete
for the abstracted output.

`parser` covers every body of up to 4 lines over the CLA sentence, the
header, one mapped and one unmapped category, and an empty line, each padded
or not: about 65,000 states. Four lines are enough for a header followed by a
header, a header with nothing after it, and a category before or after the
CLA line.

The Backport runs use two release branches, cut at commits 1 and 2, and
commits 0..3. Those cover:
* a PR merged before both branches, at a branch's base, between the bases,
  and after both;
* `--til` older than both bases (the IndexError stop);
* up to two release-lts PRs, open or closed;
* `-n` 0, 1 and 2.

`concat` uses two pages of up to two lines each and a config of up to two
lines. That is enough for two pages, a repeated page, a header on a page's
second line, and a link without an anchor in either page.

`ldap_reload` runs a servers scenario and then a users scenario, with every
timeout possible: 169 states. That covers every order of the two reloaders'
steps against every wait. `ldap_stale_line` runs the login nest followed by a
second servers scenario, with timeouts off. This is the smallest run in which
two `add_config`s feed the same main file one after the other, which
consecutive LDAP scenarios do. `ldap_removed_in_effect` uses the instance of
`ldap_reload` with timeouts off: the removal race needs no timeout.

`up_stale_cluster` uses the three-node topology of
`aes_encryption/regression.py`, the code's 5 attempts, and 2 failed probes
before the timeout.

## Not modelled, and why

* The spec (§4.3, §8) says a second `Up()` only re-checks health and keeps
  the sessions, and that `Down()` resets to DOWN. The code's `up()` runs
  `docker-compose down --remove-orphans` in every attempt (`cluster.py:310`),
  and `down()` sets `terminating` for good (`cluster.py:268`). No caller in
  the repository runs `up()` twice or after `down()`: `Cluster` is entered
  once by `regression.py`. So these paths are not states the code reaches,
  and reading the two lines shows the disagreement.
* `restart()` selects shells with `endswith("-" + name)`. The only topology
  in the repository (`clickhouse1..3`) has no service whose name is a
  `-`-suffix of another's, so there is no case to check (`cluster.py:34`).
* LDAP helpers other than `add_config`: `invalid_server_config` and
  `invalid_user_config` write, poll the error log and remove, and nothing
  waits on them afterwards. The user helpers run one `ldapadd` or
  `ldapdelete` each, and the XML builders are formatting.
* `docs/tools/test.py` scans rendered HTML with BeautifulSoup. Its only state
  is two counters and a set of anchors.

* `testflows.connect.Shell` is outside the repository. A command is
  abstracted to its outcome.
* The local-mode preamble of `up()` (environment variables, path asserts)
  changes nothing these properties observe.
* The pytest integration tests, the live-view test and `regression.py`
  sequence calls to the service. The spec puts them out of scope.
* `Backport`'s GitHub queries, the local repository and `CherryPick` are
  outside this repository. They are the environment of the model.

## Plan

1. Done: `SessionPool` (the core) and `ClusterUp`.
2. Done: `QueryCheck`. The long-SQL timeout defect at `cluster.py:106` is
   left to reading, because a unit test shows it.
3. Done: `DescriptionParser` refining `DescriptionSpec`, `Backport` and
   `Concatenate`.
4. Done: `ConfigReload` for `add_config`, with the stale reload-line
   finding, and the `__main__` blocks of the backport and concatenate
   scripts.
5. Done: `KeyedPool` and the refinement of `SessionPool`; the removal race
   at `common.py:98`.
6. `invalid_server_config` / `invalid_user_config`, if a property about
   them turns out to be worth a run.
