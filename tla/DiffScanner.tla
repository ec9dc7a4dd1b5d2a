------------------------------ MODULE DiffScanner ------------------------------
(***************************************************************************)
(* The repository scanner as a gate: `secretshield scan` of cli.py over    *)
(* scanner/engine.py, on a directory, a file, or the output of git diff.   *)
(*                                                                         *)
(* scan_git_diff reads the output of `git diff -U0` line by line and has   *)
(* to follow git from the headers alone: which file it is in, which line.  *)
(* One step is one line that git writes and the scanner reads; "at" is     *)
(* where git is, current_file and current_line are where the scanner       *)
(* thinks it is.  Removed lines, and what git writes besides, change       *)
(* nothing and are left out, as are the counts of the report.  A name with *)
(* a space is read with the tab git ends its header with, so the rules for *)
(* names and suffixes fail on it.                                          *)
(*                                                                         *)
(* A source line has a shape and may hold a secret.  Shapes: "plain";      *)
(* "plus", it begins with ++ and looks like a header behind git's +;       *)
(* "header", it begins with "++ b/" and reads like one; "torn", it holds a *)
(* form feed or another character at which Python, but not git, ends a     *)
(* line, with the secret behind it and no sign of git's before it.         *)
(***************************************************************************)
EXTENDS Integers, FiniteSets

CONSTANTS
    Path,
    Ignored,        \* the paths is_path_ignored skips
    IgnoredByName,  \* those it skips for the name or the suffix of the file alone
    Quoted,         \* the paths git writes in quotes
    Spaced,         \* the paths with a space, behind which git writes a tab
    Output,         \* what git diff may give the scanner
    CheckEntropy, FailOnFindings,
    NoFile,         \* the scanner's "" and git's /dev/null
    MaxLine,        \* bound of the model: lines of a file
    MaxFiles        \* bound of the model: files of a diff or a tree

ASSUME ScannerAssumption ==
    /\ Ignored \subseteq Path
    /\ IgnoredByName \subseteq Ignored
    /\ Spaced \subseteq Path
    /\ Output \subseteq {"text", "none", "undecodable"}
    /\ Quoted \subseteq Path
    /\ CheckEntropy \in BOOLEAN
    /\ FailOnFindings \in BOOLEAN
    /\ NoFile \notin Path
    /\ MaxLine \in Nat

Shape == {"plain", "plus", "header", "torn"}
SourceLine == [shape : Shape, secret : {"none", "known", "random"}]

\* The secrets the scanner is asked to find.
Sensitive == {"known"} \cup (IF CheckEntropy THEN {"random"} ELSE {})

\* A path as the scanner reads it: line[6:] keeps the tab git ends the header with.
Name == [path : Path \cup {NoFile}, tab : BOOLEAN]
Whole(file) == [path |-> file, tab |-> FALSE]
Shown(file) == [path |-> file, tab |-> file \in Spaced]

Position == [file : Name, line : Int]

VARIABLES
    stage,          \* what the command does, or its exit code
    current_file, current_line,
    findings,       \* where summary.findings are
    at,             \* ghost: git's file and line, and the lines it will still add there
    rest,           \* paths still to be listed by git or visited in the tree
    lost,           \* ghost: what the scanner cannot know here
    odd,            \* ghost: something odd has come up in this scan
    clear,          \* ghost: secrets on plain lines at places it could know
    secrets         \* ghost: all secrets scanned for

scanner == <<current_file, current_line, findings>>
vars == <<stage, scanner, at, rest, lost, odd, clear, secrets>>

Running == stage \in {"diff", "tree"}

Init ==
    /\ stage = "idle"
    /\ current_file = Whole(NoFile)
    /\ current_line = 0
    /\ findings = {}
    /\ at = [file |-> NoFile, line |-> 0, left |-> 0]
    /\ rest = {}
    /\ lost = {"file", "line"}
    /\ odd = FALSE
    /\ clear = {}
    /\ secrets = {}

\* A process of its own runs each scan.
Start(s, I, S) ==
    /\ ~Running
    /\ stage' = s
    /\ current_file' = Whole(NoFile)
    /\ current_line' = 0
    /\ findings' = {}
    /\ at' = [file |-> NoFile, line |-> 0, left |-> 0]
    /\ rest' = I
    /\ lost' = {"file", "line"}
    /\ odd' = (S # {})
    /\ clear' = {}
    /\ secrets' = S

\* The files of a scan.
Files == {I \in SUBSET Path : Cardinality(I) <= MaxFiles}

StartDiff == "text" \in Output /\ \E I \in Files : Start("diff", I, {})

\* git fails (an unknown ref, no repository) and writes nothing: nothing to report.
GitFails == "none" \in Output /\ Start("passed", {}, {})

\* The diff cannot be decoded: the empty summary of the error, whatever it adds.
DecodeFails ==
    /\ "undecodable" \in Output
    /\ \E S \in SUBSET [file : {Whole(f) : f \in Path \ Ignored}, line : 1..MaxLine] :
          Start("passed", {}, S)

\* A directory or a single file.
StartTree == \E I \in Files : Start("tree", I, {})

-----------------------------------------------------------------------------
\* Mutant: the entropy check is left out.
scan_lineKnown(source, file, line) ==
    IF source.secret = "known" THEN {[file |-> file, line |-> line]} ELSE {}

\* A finding per match of a rule and per random token that no match covers.
scan_line(source, file, line) ==
    IF source.secret = "known" \/ (source.secret = "random" /\ CheckEntropy)
      THEN {[file |-> file, line |-> line]}
      ELSE {}

\* The tab is part of the file's name and of its suffix, no other part of the path.
is_path_ignored(file) == file.path \in IF file.tab THEN Ignored \ IgnoredByName ELSE Ignored

\* Where the secret of a source line is, if it should be found.
Secret(source, file, line) ==
    IF source.secret \in Sensitive /\ file.path \notin Ignored
      THEN {[file |-> file, line |-> line]}
      ELSE {}

-----------------------------------------------------------------------------
(* scan_git_diff. *)

\* "+++ b/f", with a tab behind a name that has a space; with quotes around it the
\* header is passed over.
OpenFile ==
    /\ stage = "diff"
    /\ at.left = 0
    /\ \E f \in rest :
          /\ rest' = rest \ {f}
          /\ at' = [file |-> f, line |-> -1, left |-> 0]
          /\ current_file' = IF f \in Quoted THEN current_file ELSE Shown(f)
          /\ lost' = IF f \in Quoted THEN {"file", "line"} ELSE {"line"}
          /\ odd' = (odd \/ f \in Quoted \cup Spaced)
    /\ UNCHANGED <<stage, current_line, findings, clear, secrets>>

\* Mutant: the null device is taken for the file.
DeleteFileNamed ==
    /\ stage = "diff"
    /\ at.left = 0
    /\ \E f \in rest : rest' = rest \ {f}
    /\ at' = [file |-> NoFile, line |-> 0, left |-> 0]
    /\ current_file' = Whole("/dev/null")
    /\ current_line' = -1
    /\ lost' = {"file", "line"}
    /\ UNCHANGED <<stage, findings, odd, clear, secrets>>

\* A deleted file: "+++ /dev/null" is passed over, its "@@ -1,n +0,0 @@" is not.
DeleteFile ==
    /\ stage = "diff"
    /\ at.left = 0
    /\ \E f \in rest : rest' = rest \ {f}
    /\ at' = [file |-> NoFile, line |-> 0, left |-> 0]
    /\ current_line' = -1
    /\ lost' = {"file", "line"}
    /\ UNCHANGED <<stage, current_file, findings, odd, clear, secrets>>

\* Mutant: the line number of the header is the line before.
HunkOffByOne ==
    /\ stage = "diff"
    /\ at.file # NoFile
    /\ at.left = 0
    /\ \E start, n \in 0..MaxLine :
          /\ start > at.line
          /\ start + n <= MaxLine + 1
          /\ start = 0 => n = 0
          /\ at' = [at EXCEPT !.line = start - 1, !.left = n]
          /\ current_line' = start
    /\ lost' = lost \ {"line"}
    /\ UNCHANGED <<stage, current_file, findings, rest, odd, clear, secrets>>

\* "@@ -.. +start,n @@": n lines are added before the next header.
Hunk ==
    /\ stage = "diff"
    /\ at.file # NoFile
    /\ at.left = 0
    /\ \E start, n \in 0..MaxLine :
          /\ start > at.line
          /\ start + n <= MaxLine + 1
          /\ start = 0 => n = 0
          /\ at' = [at EXCEPT !.line = start - 1, !.left = n]
          /\ current_line' = start - 1
    /\ lost' = lost \ {"line"}
    /\ UNCHANGED <<stage, current_file, findings, rest, odd, clear, secrets>>

\* The scanner takes an added line for one.
ReadAdded(source) ==
    /\ current_line' = current_line + 1
    /\ findings' = findings \cup
           (IF is_path_ignored(current_file) \/ source.shape = "torn" THEN {}
            ELSE scan_line(source, current_file, current_line + 1))
    /\ UNCHANGED current_file

\* "+": what the scanner makes of it depends on its shape.
Add ==
    /\ stage = "diff"
    /\ at.left > 0
    /\ at' = [at EXCEPT !.line = @ + 1, !.left = @ - 1]
    /\ \E source \in SourceLine :
          /\ \/ source.shape \in {"plain", "torn"} /\ ReadAdded(source)
             \/ source.shape = "plus" /\ UNCHANGED scanner
             \/ source.shape = "header" /\ current_file' \in Name /\ UNCHANGED <<current_line, findings>>
          /\ lost' = CASE source.shape = "plus"   -> lost \cup {"line"}
                       [] source.shape = "header" -> {"file", "line"}
                       [] OTHER                   -> lost
          /\ odd' = (odd \/ source.shape # "plain")
          /\ secrets' = secrets \cup Secret(source, Whole(at.file), at.line + 1)
          /\ clear' = IF lost = {} /\ source.shape = "plain"
                        THEN clear \cup Secret(source, Shown(at.file), at.line + 1)
                        ELSE clear
    /\ UNCHANGED <<stage, rest>>

-----------------------------------------------------------------------------
(* scan_directory and scan_file. *)

\* splitlines counts a torn line twice.
Torn(text, i) == {j \in 1..i : text[j].shape = "torn"}
Counted(text, i) == i + Cardinality(Torn(text, i))

\* An ignored file is passed over, and so is one that cannot be read or has null bytes.
ScanFile ==
    /\ stage = "tree"
    /\ \E f \in rest, n \in 0..MaxLine : \E text \in [1..n -> SourceLine] :
          LET Seen == UNION {scan_line(text[i], Whole(f), Counted(text, i)) : i \in 1..n}
              True == UNION {Secret(text[i], Whole(f), i) : i \in 1..n}
          IN  /\ rest' = rest \ {f}
              /\ findings' = findings \cup (IF is_path_ignored(Whole(f)) THEN {} ELSE Seen)
              /\ secrets' = secrets \cup True
              /\ clear' = clear \cup UNION {Secret(text[i], Whole(f), i) : i \in {j \in 1..n : Torn(text, j) = {}}}
              /\ odd' = (odd \/ Torn(text, n) # {})
    /\ UNCHANGED <<stage, current_file, current_line, at, lost>>

SkipFile ==
    /\ stage = "tree"
    /\ \E f \in rest : rest' = rest \ {f}
    /\ UNCHANGED <<stage, scanner, at, lost, odd, clear, secrets>>

\* The report is written and the command exits.
Exit ==
    /\ \/ stage = "diff" /\ at.left = 0
       \/ stage = "tree" /\ rest = {}
    /\ stage' = IF findings # {} /\ FailOnFindings THEN "failed" ELSE "passed"
    /\ UNCHANGED <<scanner, at, rest, lost, odd, clear, secrets>>

Next ==
    \/ StartDiff \/ GitFails \/ DecodeFails \/ StartTree
    \/ OpenFile \/ DeleteFile \/ Hunk \/ Add
    \/ ScanFile \/ SkipFile
    \/ Exit

Spec == Init /\ [][Next]_vars

-----------------------------------------------------------------------------
TypeOK ==
    /\ stage \in {"idle", "diff", "tree", "passed", "failed"}
    /\ current_file \in Name
    /\ current_line \in Int
    /\ findings \subseteq Position
    /\ at \in [file : Path \cup {NoFile}, line : Int, left : Nat]
    /\ rest \subseteq Path
    /\ lost \subseteq {"file", "line"}
    /\ odd \in BOOLEAN
    /\ clear \subseteq Position
    /\ secrets \subseteq Position

(* The scanner keeps in step with git without ever hearing from it again:  *)
(* an odd line costs it the line number up to the next hunk at most, a     *)
(* name in quotes the file up to the next name, and a deleted file         *)
(* nothing.  Its name for the file is git's, but for the tab behind a name *)
(* with a space.                                                           *)
InStep ==
    stage = "diff" =>
        /\ "file" \notin lost => current_file = Shown(at.file)
        /\ "line" \notin lost => current_line = at.line

(* Of a diff it can decode: a secret on a plain line is found at its place *)
(* whatever odd lines and names there are elsewhere in the diff, and then  *)
(* the gate fails, be it in a file with a space, whose place is shown with *)
(* the tab; without anything odd, such a name included, the findings are   *)
(* the secrets, no more and no less.                                       *)
FindingsAreExact ==
    /\ clear \subseteq findings
    /\ ~odd => findings = secrets
    /\ stage = "passed" /\ FailOnFindings => clear = {}

(* docs/scanner-and-ci.md, "Parse modified lines via git diff" and "Clean  *)
(* Diff -> Pass Gate": the gate passes no diff that adds a secret.         *)
GatePassesOnlyClean == stage = "passed" /\ FailOnFindings => secrets = {}
================================================================================
