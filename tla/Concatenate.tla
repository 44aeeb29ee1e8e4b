----------------------------- MODULE Concatenate -----------------------------
(***************************************************************************)
(* concatenate(lang) (docs/tools/concatenate.py): read the ordered list of *)
(* pages from mkdocs_<lang>.yml, then write every page into                *)
(* <lang>_single_page/index.md, rewriting links to in-page anchors and     *)
(* raising the level of headers.                                           *)
(*                                                                         *)
(* A config line is abstracted to what the filter and the path extraction  *)
(* see in it; a page line to whether it starts with '#' and what kind of   *)
(* link it holds.  One step per page line, since an exception leaves the   *)
(* single page as far as it was written.                                   *)
(***************************************************************************)
EXTENDS Naturals, Sequences, SequencesExt

CONSTANTS
    Paths,          \* page paths the config may name
    MaxCfgLines,    \* lines of mkdocs_<lang>.yml considered
    MaxPageLines,   \* lines per page considered
    NoPath          \* the path of a config line that names no page

\* "page": contains '.md' and a ':', not 'single_page'; "single": names the
\* single page; "other": no '.md'; "nocolon": '.md' but no ':'
CfgLines ==
    [kind : {"page"}, path : Paths]
    \cup [kind : {"single", "other", "nocolon"}, path : {NoPath}]

\* link kinds: none, 'http...', 'file.md#anchor', 'file.md' without anchor;
\* and, in the output, an anchor-only link '#anchor'
Links == {"none", "http", "anchored", "bare"}
PageLines == [header : BOOLEAN, link : Links]

Pages == [Paths -> BoundedSeq(PageLines, MaxPageLines)]

\* a line of the single page: where it came from and what became of it
OutLines == [file : Nat, line : Nat, shifted : BOOLEAN, link : Links \cup {"anchor"}]
Sep == [file |-> 0, line |-> 0, shifted |-> FALSE, link |-> "none"]

VARIABLES
    cfg,          \* the lines of mkdocs_<lang>.yml
    docs,         \* the pages under <lang>/
    files,        \* files_to_concatenate
    fi,           \* index in files of the page being copied
    li,           \* index of the line being copied, 0 before the '\n\n'
    firstFile,    \* first_file
    out,          \* what has been written to the single page
    opened,       \* the single page has been opened for writing (truncated)
    pc            \* "main" | "config" | "copy" | "done" | "ValueError" | "RuntimeError"
                  \* | "exit1" | "exit2"

vars == <<cfg, docs, files, fi, li, firstFile, out, opened, pc>>

-----------------------------------------------------------------------------
Init ==
    /\ cfg \in BoundedSeq(CfgLines, MaxCfgLines)
    /\ docs \in Pages
    /\ files = <<>>
    /\ fi = 1
    /\ li = 0
    /\ firstFile = TRUE
    /\ out = <<>>
    /\ opened = FALSE
    /\ pc = "main"

(* The entry (lines 83-89, 23-25): no language argument prints the usage   *)
(* and exits 1; a language without its directory exits 2; otherwise the   *)
(* config is read.                                                          *)
Main ==
    /\ pc = "main"
    /\ \E argv \in {"none", "no_dir", "lang"} :
         pc' = CASE argv = "none"   -> "exit1"
                 [] argv = "no_dir" -> "exit2"
                 [] OTHER           -> "config"
    /\ UNCHANGED <<cfg, docs, files, fi, li, firstFile, out, opened>>

\* mutant: the 'single_page' test is dropped
ListedNoSingleCheck(l) == l.kind \in {"page", "nocolon", "single"}

\* `if '.md' in l and 'single_page' not in l`
Listed(l) == l.kind \in {"page", "nocolon"}

(* Lines 33-45: collect the paths of the listed lines (l.index(':') raises *)
(* ValueError on one without a colon), then open the single page with 'w'. *)
ReadConfig ==
    /\ pc = "config"
    /\ LET listed == SelectSeq(cfg, Listed) IN
       IF \E j \in 1..Len(listed) : listed[j].kind = "nocolon"
       THEN pc' = "ValueError" /\ UNCHANGED <<files, opened>>
       ELSE /\ files' = [j \in 1..Len(listed) |-> listed[j].path]
            /\ opened' = TRUE
            /\ pc' = "copy"
    /\ UNCHANGED <<cfg, docs, fi, li, firstFile, out>>

\* mutant: link_proc returns the whole match, file part included
LinkProcWholeLink(link) == link

\* link_proc: http links kept, others cut to their anchor, none raises
LinkProc(link) ==
    CASE link = "anchored" -> "anchor"
      [] OTHER             -> link

\* `single_page_file.write('\n\n')` before each page
StartPage ==
    /\ pc = "copy"
    /\ fi <= Len(files)
    /\ li = 0
    /\ out' = Append(out, Sep)
    /\ li' = 1
    /\ UNCHANGED <<cfg, docs, files, fi, firstFile, opened, pc>>

(* One `for l in f` iteration: re.sub with link_proc (a link without an    *)
(* anchor raises RuntimeError), then one more '#' on a header unless       *)
(* first_file, which is cleared instead, and the write.                    *)
CopyLine ==
    LET l == docs[files[fi]][li] IN
    /\ pc = "copy"
    /\ fi <= Len(files)
    /\ 1 <= li /\ li <= Len(docs[files[fi]])
    /\ IF l.link = "bare"
       THEN pc' = "RuntimeError" /\ UNCHANGED <<li, firstFile, out>>
       ELSE /\ out' = Append(out, [file |-> fi, line |-> li,
                                   shifted |-> ~firstFile /\ l.header,
                                   link |-> LinkProc(l.link)])
            /\ firstFile' = FALSE
            /\ li' = li + 1
            /\ UNCHANGED pc
    /\ UNCHANGED <<cfg, docs, files, fi, opened>>

\* the end of one page: the next `with open(...) as f: for l in f` starts at
\* that file's first line
NextPage ==
    /\ pc = "copy"
    /\ fi <= Len(files)
    /\ li > Len(docs[files[fi]])
    /\ fi' = fi + 1
    /\ li' = 0
    /\ UNCHANGED <<cfg, docs, files, firstFile, out, opened, pc>>

\* every page written; the single page is closed
Finish ==
    /\ pc = "copy"
    /\ fi > Len(files)
    /\ pc' = "done"
    /\ UNCHANGED <<cfg, docs, files, fi, li, firstFile, out, opened>>

\* the script has ended
Ended ==
    /\ pc \in {"done", "ValueError", "RuntimeError", "exit1", "exit2"}
    /\ UNCHANGED vars

Next == Main \/ ReadConfig \/ StartPage \/ CopyLine \/ NextPage \/ Finish \/ Ended

Spec == Init /\ [][Next]_vars

-----------------------------------------------------------------------------
TypeOK ==
    /\ cfg \in BoundedSeq(CfgLines, MaxCfgLines)
    /\ docs \in Pages
    /\ files \in Seq(Paths)
    /\ li \in 0..MaxPageLines + 1
    /\ firstFile \in BOOLEAN
    /\ out \in Seq(OutLines)
    /\ pc \in {"main", "config", "copy", "done", "ValueError", "RuntimeError",
              "exit1", "exit2"}

\* an output line without its header level
Source(e) == [file |-> e.file, line |-> e.line, link |-> e.link]

(* The document the header comment describes: the pages the config names,  *)
(* in order, each after a blank separator, every line of each in order,   *)
(* with http links kept and other links cut to their anchor.               *)
Document ==
    LET pages == SelectSeq(cfg, LAMBDA l : l.kind = "page")
        Copy(j, n) ==
            LET src == docs[pages[j].path][n] IN
            [file |-> j, line |-> n,
             link |-> CASE src.link = "http"     -> "http"
                        [] src.link = "anchored" -> "anchor"
                        [] OTHER                 -> "none"]
    IN  FlattenSeq([j \in 1..Len(pages) |->
            <<Source(Sep)>> \o [n \in 1..Len(docs[pages[j].path]) |-> Copy(j, n)]])

(* A run that completes has written exactly that document: no page of the  *)
(* config is skipped, repeated or reordered, no line is lost, and every    *)
(* link is rewritten.                                                      *)
DocumentFollowsConfig ==
    pc = "done" => [j \in 1..Len(out) |-> Source(out[j])] = Document

=============================================================================
