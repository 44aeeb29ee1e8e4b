-------------------------- MODULE DescriptionSpec --------------------------
(***************************************************************************)
(* What Description (utils/github/parser.py) promises about a pull-request *)
(* body, stated without the line-by-line loop: the PR is legal when one   *)
(* of its lines, stripped, is the CLA sentence, and its label is the label *)
(* of the category written on the first non-empty line after the last     *)
(* "Category (leave one):" line that has one.  Parsing is one step.        *)
(***************************************************************************)
EXTENDS DescriptionText

VARIABLES body, label_name, legal, parsed

vars == <<body, label_name, legal, parsed>>

\* the indices of non-empty lines of b
NonEmpty(b) == {j \in 1..Len(b) : Strip(b[j]) # Empty}

\* the category line a header at index h introduces, if it has one
Follower(b, h) == {k \in NonEmpty(b) : k > h /\ \A m \in NonEmpty(b) : m > h => k <= m}

\* the category the body selects: the follower of the last header that has one
SelectedCategory(b) ==
    LET H == {h \in 1..Len(b) : Strip(b[h]) = Header /\ Follower(b, h) # {}}
        last == CHOOSE h \in H : \A g \in H : g <= h
    IN  IF H = {} THEN Empty ELSE Strip(b[CHOOSE k \in Follower(b, last) : TRUE])

SpecLabel(b) ==
    IF SelectedCategory(b) \in DOMAIN Label THEN Label[SelectedCategory(b)] ELSE Empty

SpecLegal(b) == \E j \in 1..Len(b) : Strip(b[j]) = Cla

Init ==
    /\ body \in Bodies
    /\ label_name = Empty
    /\ legal = FALSE
    /\ parsed = FALSE

Parse ==
    /\ ~parsed
    /\ parsed' = TRUE
    /\ label_name' = SpecLabel(body)
    /\ legal' = SpecLegal(body)
    /\ UNCHANGED body

Next == Parse

Spec == Init /\ [][Next]_vars

=============================================================================
