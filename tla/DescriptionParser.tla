------------------------- MODULE DescriptionParser -------------------------
(***************************************************************************)
(* Description.__init__ and Description._parse (utils/github/parser.py):   *)
(* one iteration of `for line in lines` per step, over the locals          *)
(* next_category and category, then the lookup in MAP_CATEGORY_TO_LABEL.   *)
(* It is shown to implement DescriptionSpec, where parsing is one step.    *)
(***************************************************************************)
EXTENDS DescriptionText

VARIABLES
    body,           \* pull_request['bodyText'].splitlines()
    i,              \* the index of the line the loop is at
    next_category,  \* the local next_category
    category,       \* the local category
    label_name,     \* self.label_name
    legal,          \* self.legal
    pc              \* "loop" | "done"

vars == <<body, i, next_category, category, label_name, legal, pc>>

-----------------------------------------------------------------------------
\* __init__: label_name = str(), legal = False, then _parse(bodyText)
Init ==
    /\ body \in Bodies
    /\ label_name = Empty
    /\ legal = FALSE
    /\ i = 1
    /\ next_category = FALSE
    /\ category = Empty
    /\ pc = "loop"

\* mutant: the flag is not cleared once the category line is taken
NextCategoryNoReset(stripped) ==
    next_category \/ stripped = Header

\* next_category after a non-empty line: cleared if it was set, then set
\* again if the line is the header
NextCategoryAfter(stripped) ==
    (IF next_category THEN FALSE ELSE next_category) \/ stripped = Header

(* One iteration of the loop body: a blank line is skipped; otherwise the  *)
(* line becomes the category if the previous non-empty line was the       *)
(* header, legal is set on the CLA line, and the header arms next_category. *)
ParseLine ==
    LET stripped == Strip(body[i]) IN
    /\ pc = "loop"
    /\ i <= Len(body)
    /\ i' = i + 1
    /\ IF stripped = Empty
       THEN UNCHANGED <<next_category, category, legal>>
       ELSE /\ category' = IF next_category THEN stripped ELSE category
            /\ legal' = (legal \/ stripped = Cla)
            /\ next_category' = NextCategoryAfter(stripped)
    /\ UNCHANGED <<body, label_name, pc>>

\* mutant: the category text itself is stored instead of its label
LookupNoMap ==
    /\ pc = "loop"
    /\ i > Len(body)
    /\ label_name' = category
    /\ pc' = "done"
    /\ UNCHANGED <<body, i, next_category, category, legal>>

\* after the loop: `if category in MAP_CATEGORY_TO_LABEL`
Lookup ==
    /\ pc = "loop"
    /\ i > Len(body)
    /\ label_name' = IF category \in DOMAIN Label THEN Label[category] ELSE label_name
    /\ pc' = "done"
    /\ UNCHANGED <<body, i, next_category, category, legal>>

\* the Description has been built
Built ==
    /\ pc = "done"
    /\ UNCHANGED vars

Next == ParseLine \/ Lookup \/ Built

Spec == Init /\ [][Next]_vars

-----------------------------------------------------------------------------
TypeOK ==
    /\ body \in Bodies
    /\ i \in 1..Len(body) + 1
    /\ next_category \in BOOLEAN
    /\ category \in Texts
    /\ label_name \in LabelNames
    /\ legal \in BOOLEAN
    /\ pc \in {"loop", "done"}

(* The attributes of a built Description are those DescriptionSpec gives  *)
(* the body in one step: before _parse returns they are the constructor's  *)
(* defaults, whatever the loop has set so far.                             *)
Abstract == INSTANCE DescriptionSpec WITH
    label_name <- IF pc = "done" THEN label_name ELSE Empty,
    legal <- IF pc = "done" THEN legal ELSE FALSE,
    parsed <- pc = "done"

(* The loop of _parse, over every body of up to MaxLines lines, implements *)
(* the declarative reading: label of the first non-empty line after the    *)
(* last header that has one, and legal iff a line is the CLA sentence.     *)
ParseRefinesSpec == Abstract!Spec

=============================================================================
