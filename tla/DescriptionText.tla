-------------------------- MODULE DescriptionText --------------------------
(***************************************************************************)
(* The text of a pull-request body as Description (utils/github/parser.py) *)
(* sees it: a sequence of lines, each one of the few texts the parser     *)
(* compares with, possibly surrounded by whitespace.                       *)
(***************************************************************************)
EXTENDS Naturals, Sequences

CONSTANTS
    Cla,          \* 'I hereby agree to the terms of the CLA available at: ...'
    Header,       \* 'Category (leave one):'
    Categories,   \* category texts a body may contain
    Label,        \* MAP_CATEGORY_TO_LABEL: a function on some of Categories
    MaxLines      \* longest body considered

Empty == ""
Texts == {Cla, Header, Empty} \cup Categories

\* a raw line: its text, with or without surrounding whitespace
Lines == [text : Texts, pad : BOOLEAN]

\* line.strip()
Strip(line) == line.text

\* text.splitlines() of the bodies considered
Bodies == UNION {[1..n -> Lines] : n \in 0..MaxLines}

\* what label_name can be: str() or a value of the map
LabelNames == {Empty} \cup {Label[c] : c \in DOMAIN Label}

=============================================================================
