------------------------------ MODULE Backport ------------------------------
(***************************************************************************)
(* Backport.execute (utils/github/backport.py): choose the release         *)
(* branches (the last `number` ones, after the branches of open            *)
(* "release-lts" pull requests), fetch the pull requests merged since      *)
(* until_commit, decide from each one's labels the branches it must be     *)
(* cherry-picked to, and run the cherry-pick for every (PR, branch).       *)
(*                                                                         *)
(* Master's history is a line of commits numbered in ancestry order, so    *)
(* repo.comparator is the commit number.  A label is abstracted to which   *)
(* of the regular expressions it matches and the version the match groups. *)
(* GitHub and the local repository are the environment: the release       *)
(* branches, the open release-lts PRs and the merged PRs are chosen in     *)
(* Init.                                                                   *)
(***************************************************************************)
EXTENDS Naturals, Sequences, SequencesExt

CONSTANTS
    Release,      \* the release branches <<[name, base]>>, oldest first
    Commits,      \* master's commits, in ancestry order
    LabelKinds,   \* the label kinds pull requests may carry
    MaxPRs,       \* merged pull requests considered
    MaxLabels,    \* labels per pull request
    MaxLtsPRs,    \* open or closed "release-lts" pull requests considered
    Numbers,      \* values of -n considered
    Tils,         \* values of --til considered (None, or commits)
    LtsModes,     \* values of find_lts considered
    AssumeSorted, \* the comments' assumptions hold (see BranchesInOrder)
    Entries,      \* how execute() is reached: "main" (the script) or "call"
    None

Versions == {Release[j].name : j \in 1..Len(Release)}

\* 'pr-bugfix', 'pr-no-backport', and what RE_MUST_BACKPORT, RE_NO_BACKPORT
\* and RE_BACKPORTED match, with the version their group(1) captures
Labels ==
    {[kind |-> k, v |-> None] : k \in LabelKinds \cap {"pr-bugfix", "pr-no-backport"}}
    \cup [kind : LabelKinds \cap {"must", "no", "backported"}, v : Versions]

PullRequests == [merge : Commits, labels : BoundedSeq(Labels, MaxLabels)]

\* find_pull_requests("release-lts")
LtsPulls == BoundedSeq([head : Versions, open : BOOLEAN], MaxLtsPRs)

(* The merged pull requests, in the order get_pull_requests() returns      *)
(* them.  The comment at line 61 says "sorted by ancestry from the least   *)
(* recent"; the loop drops a branch for all further PRs once one PR is     *)
(* inside it, which is sound only if each PR is older than the previous    *)
(* one, so the list is taken to run from HEAD back to until_commit.        *)
History ==
    {s \in BoundedSeq(PullRequests, MaxPRs) :
        \A j \in 1..Len(s) - 1 : s[j].merge > s[j + 1].merge}

VARIABLES
    release,      \* repo.get_release_branches(): a prefix of Release
    number,       \* -n (0 selects every branch; None would raise at [-number:])
    findLts,      \* find_lts
    til,          \* --til, or None
    ltsPulls,     \* what find_pull_requests("release-lts") returns
    prs,          \* every merged pull request, numbered by position
    branches,     \* the local `branches`
    selected,     \* history: the branches execute() settled on
    until,        \* until_commit
    pulls,        \* pull_requests: the numbers of the fetched PRs
    k,            \* index in pulls of the PR being processed
    bmap,         \* backport_map: PR number -> set of versions
    picked,       \* (PR, branch) pairs run_cherrypick was called for
    pc            \* "main" | "select" | "prs" | "report" | "done" | "no_branches"
                  \* | "IndexError" | "TypeError"

vars == <<release, number, findLts, til, ltsPulls, prs, branches, selected, until,
          pulls, k, bmap, picked, pc>>

-----------------------------------------------------------------------------
\* getBranchesWithLTS(release_branches): for each open LTS pull request, the
\* first release branch it is the head of, in the order of the pull requests
BranchesWithLTS(rel, lp) ==
    LET Add(acc, p) ==
            IF p.open /\ \E j \in 1..Len(rel) : rel[j].name = p.head
            THEN Append(acc, rel[CHOOSE j \in 1..Len(rel) : rel[j].name = p.head])
            ELSE acc
    IN  FoldLeft(Add, <<>>, lp)

\* repo.get_release_branches()[-number:]
LastBranches(rel, n) ==
    IF n = 0 \/ n >= Len(rel) THEN rel
    ELSE SubSeq(rel, Len(rel) - n + 1, Len(rel))

\* the branches execute() settles on: the LTS ones, then the recent ones
\* not already among them
Branches(rel, n, fl, lp) ==
    LET lts == IF fl THEN BranchesWithLTS(rel, lp) ELSE <<>>
    IN  lts \o SelectSeq(LastBranches(rel, n), LAMBDA b : ~Contains(lts, b))

(* What the comments assume: getBranchesWithLTS keeps "precedence order"   *)
(* (line 24) and "LTS branches are always older than recent ones" (line    *)
(* 38), so the branches are in ancestry order.                             *)
BranchesInOrder(bs) == \A j \in 1..Len(bs) - 1 : bs[j].base < bs[j + 1].base

Init ==
    /\ release \in {SubSeq(Release, 1, j) : j \in 0..Len(Release)}
    /\ number \in Numbers
    /\ findLts \in LtsModes
    /\ til \in Tils
    /\ ltsPulls \in LtsPulls
    /\ AssumeSorted => BranchesInOrder(Branches(release, number, findLts, ltsPulls))
    /\ prs \in History
    /\ branches = <<>>
    /\ selected = {}
    /\ until = None
    /\ pulls = <<>>
    /\ k = 1
    /\ bmap = <<>>
    /\ picked = {}
    /\ pc \in {IF e = "main" THEN "main" ELSE "select" : e \in Entries}

(* The script's entry (lines 109-126): parse the arguments, build the      *)
(* Backport, then bp.execute(args.repo, args.til, args.number,             *)
(* cherrypick_run).  Four arguments bind repo, until_commit, number and    *)
(* find_lts; run_cherrypick has none, so the call raises TypeError before  *)
(* execute() runs a line.                                                  *)
Main ==
    /\ pc = "main"
    /\ pc' = "TypeError"
    /\ UNCHANGED <<release, number, findLts, til, ltsPulls, prs, branches, selected,
                   until, pulls, k, bmap, picked>>

\* mutant: until_commit defaults to the newest selected branch's base
UntilNewest(bs) == bs[Len(bs)].base

\* `until_commit = branches[0][1]` when --til is not given
UntilDefault(bs) == bs[1].base

(* Lines 35-53: the LTS branches, then the last `number` branches not      *)
(* already among them; return if there are none; fetch the pull requests  *)
(* merged after until_commit.                                              *)
Select ==
    LET bs  == Branches(release, number, findLts, ltsPulls)
        u   == IF til = None THEN UntilDefault(bs) ELSE til
    IN
    /\ pc = "select"
    /\ branches' = bs
    /\ selected' = ToSet(bs)
    /\ IF bs = <<>>
       THEN pc' = "no_branches" /\ UNCHANGED <<until, pulls>>
       ELSE /\ until' = u
            /\ pulls' = SelectSeq([j \in 1..Len(prs) |-> j], LAMBDA j : prs[j].merge > u)
            /\ pc' = "prs"
    /\ UNCHANGED <<release, number, findLts, til, ltsPulls, prs, k, bmap, picked>>

\* mutant: a branch is dropped only once its base is past the merge commit
StillOpenPastBase(b, m) == b.base < m + 1

\* the while condition, negated: the branch does not contain the merge
StillOpen(b, m) == b.base < m

\* `while comparator(branches[-1][1]) >= comparator(merge): branches.pop()`
RECURSIVE DropMerged(_, _)
DropMerged(bs, m) ==
    IF bs # <<>> /\ ~StillOpen(bs[Len(bs)], m) THEN DropMerged(Front(bs), m) ELSE bs

\* mutant: branch_set takes branch[1], the base commit, instead of the name
BranchSetBases(bs) == {b.base : b \in ToSet(bs)}

\* `set([branch[0] for branch in branches])`
BranchSet(bs) == {b.name : b \in ToSet(bs)}

\* the entry of one PR in backport_map: whether it is a key, and its value
Absent == [in |-> FALSE, set |-> {}]

\* the first pass over the labels
FirstPass(labels, bset) ==
    LET Step(e, l) ==
            CASE l.kind = "pr-bugfix" -> [in |-> TRUE, set |-> bset]
              [] l.kind = "must"      -> [in |-> TRUE, set |-> e.set \cup {l.v}]
              [] OTHER                -> e
    IN  FoldLeft(Step, Absent, labels)

\* the second pass: 'pr-no-backport' deletes the entry and breaks; a
\* no-backport or backported version is removed from the entry
SecondPass(labels, e0) ==
    LET Step(st, l) ==
            CASE st.stop -> st
              [] l.kind = "pr-no-backport" /\ st.e.in -> [e |-> Absent, stop |-> TRUE]
              [] l.kind = "no" /\ st.e.in /\ l.v \in st.e.set ->
                    [st EXCEPT !.e.set = @ \ {l.v}]
              [] l.kind = "backported" /\ st.e.in /\ l.v \in st.e.set ->
                    [st EXCEPT !.e.set = @ \ {l.v}]
              [] OTHER -> st
    IN  FoldLeft(Step, [e |-> e0, stop |-> FALSE], labels).e

\* backport_map with the entry of PR p set to e
SetEntry(m, p, e) ==
    IF e.in THEN [q \in DOMAIN m \cup {p} |-> IF q = p THEN e.set ELSE m[q]]
    ELSE [q \in DOMAIN m \ {p} |-> m[q]]

(* Lines 62-96, one PR: drop the branches that already contain its merge   *)
(* commit (indexing an empty list raises IndexError), then the two passes. *)
ProcessPR ==
    LET p  == pulls[k]
        pr == prs[p]
        bs == DropMerged(branches, pr.merge)
    IN
    /\ pc = "prs"
    /\ k <= Len(pulls)
    /\ IF bs = <<>>
       THEN pc' = "IndexError" /\ UNCHANGED <<branches, k, bmap>>
       ELSE /\ branches' = bs
            /\ bmap' = SetEntry(bmap, p,
                          SecondPass(pr.labels, FirstPass(pr.labels, BranchSet(bs))))
            /\ k' = k + 1
            /\ UNCHANGED pc
    /\ UNCHANGED <<release, number, findLts, til, ltsPulls, prs, selected, until, pulls, picked>>

\* every PR processed
EndOfPulls ==
    /\ pc = "prs"
    /\ k > Len(pulls)
    /\ pc' = "report"
    /\ UNCHANGED <<release, number, findLts, til, ltsPulls, prs, branches, selected,
                   until, pulls, k, bmap, picked>>

\* lines 98-106: run_cherrypick(token, pr, branch) for every entry; the
\* report of API costs only logs
Report ==
    /\ pc = "report"
    /\ picked' = UNION {{<<p, v>> : v \in bmap[p]} : p \in DOMAIN bmap}
    /\ pc' = "done"
    /\ UNCHANGED <<release, number, findLts, til, ltsPulls, prs, branches, selected,
                   until, pulls, k, bmap>>

\* execute() has returned or raised
Stopped ==
    /\ pc \in {"done", "no_branches", "IndexError", "TypeError"}
    /\ UNCHANGED vars

Next == Main \/ Select \/ ProcessPR \/ EndOfPulls \/ Report \/ Stopped

Spec == Init /\ [][Next]_vars

-----------------------------------------------------------------------------
TypeOK ==
    /\ release \in {SubSeq(Release, 1, j) : j \in 0..Len(Release)}
    /\ prs \in History
    /\ selected \subseteq ToSet(Release)
    /\ until \in {None} \cup Commits
    /\ DOMAIN bmap \subseteq 1..Len(prs)
    /\ \A p \in DOMAIN bmap : bmap[p] \subseteq Versions
    /\ picked \subseteq (1..Len(prs)) \X Versions
    /\ pc \in {"main", "select", "prs", "report", "done", "no_branches", "IndexError",
              "TypeError"}

HasLabel(pr, kind) == \E j \in 1..Len(pr.labels) : pr.labels[j].kind = kind
HasVersionLabel(pr, kind, v) ==
    \E j \in 1..Len(pr.labels) : pr.labels[j].kind = kind /\ pr.labels[j].v = v

\* the labels say the PR must not go to version v
Cancelled(pr, v) ==
    \/ HasLabel(pr, "pr-no-backport")
    \/ HasVersionLabel(pr, "no", v)
    \/ HasVersionLabel(pr, "backported", v)

(* A bug fix is cherry-picked to every chosen release branch that was cut  *)
(* before it was merged (and, with --til, after that commit), unless a    *)
(* label cancels it: dropping branches as the PRs get newer, and fetching  *)
(* from the oldest branch's base, must lose none of them.                  *)
BugfixReachesOpenBranches ==
    pc = "done" =>
        \A p \in 1..Len(prs), b \in selected :
            ( /\ HasLabel(prs[p], "pr-bugfix")
              /\ ~Cancelled(prs[p], b.name)
              /\ b.base < prs[p].merge
              /\ til # None => til < prs[p].merge )
            => <<p, b.name>> \in picked

(* No cherry-pick targets a chosen branch that already contains the PR's   *)
(* merge commit, unless a must-backport label asked for that version.      *)
NoBackportToContainingBranch ==
    \A <<p, v>> \in picked :
        \/ HasVersionLabel(prs[p], "must", v)
        \/ \E b \in selected : b.name = v /\ b.base < prs[p].merge

=============================================================================
