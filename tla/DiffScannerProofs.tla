--------------------------- MODULE DiffScannerProofs ---------------------------
(***************************************************************************)
(* Proofs about DiffScanner, for any paths and diffs of any length.  The   *)
(* scanner is exact because its file and line are git's wherever it can    *)
(* know them; it can know the file from the headers on, and the line from  *)
(* every hunk on, unless something odd has come up.                        *)
(***************************************************************************)
EXTENDS DiffScanner, FiniteSetTheorems, TLAPS

USE DEF SourceLine, Shape, Position, Name

\* Without anything odd the scanner knows the file git is in, and the line wherever
\* git still adds lines.
Knows ==
    stage = "diff" /\ ~odd =>
        /\ at.file # NoFile => "file" \notin lost
        /\ at.file \notin Spaced
        /\ at.left > 0 => lost = {}

\* In a directory nothing has been read from git; findings and ghosts agree.
Exact ==
    /\ clear \subseteq findings
    /\ ~odd => findings = secrets

\* Git adds lines only to a file.
InFile == at.left > 0 => at.file # NoFile

Passed == stage = "passed" /\ FailOnFindings => findings = {}

IInv == TypeOK /\ InStep /\ Knows /\ Exact /\ InFile /\ Passed

\* A finding is at a position, a secret too.
LEMMA Positions ==
    ASSUME NEW source \in SourceLine, NEW file \in Name, NEW line \in Int
    PROVE  /\ scan_line(source, file, line) \subseteq Position
           /\ Secret(source, file, line) \subseteq Position
  BY DEF scan_line, Secret

\* Names of git's paths.
LEMMA Names ==
    ASSUME NEW file \in Path \cup {NoFile}
    PROVE  /\ Whole(file) \in Name /\ Whole(file).path = file /\ ~Whole(file).tab
           /\ Shown(file) \in Name /\ Shown(file).path = file
           /\ file \notin Spaced => Shown(file) = Whole(file)
  <1>0. \E b \in BOOLEAN : b = (file \in Spaced)
    <2>1. CASE file \in Spaced
      <3>1. TRUE = (file \in Spaced)
        BY <2>1
      <3> QED
        BY <3>1
    <2>2. CASE file \notin Spaced
      <3>1. FALSE = (file \in Spaced)
        BY <2>2
      <3> QED
        BY <3>1
    <2> QED
      BY <2>1, <2>2
  <1>1. PICK b \in BOOLEAN : b = (file \in Spaced)
    BY <1>0
  <1>2. Shown(file) = [path |-> file, tab |-> b]
    BY <1>1 DEF Shown
  <1>3. file \notin Spaced => b = FALSE
    BY <1>1
  <1>4. /\ Whole(file) \in Name /\ Whole(file).path = file
        /\ Shown(file) \in Name /\ Shown(file).path = file
    BY <1>2 DEF Whole
  <1>5. Whole(file).tab = FALSE
    BY DEF Whole
  <1>6. ~Whole(file).tab
    BY <1>5
  <1>7. file \notin Spaced => Shown(file) = Whole(file)
    BY <1>2, <1>3 DEF Whole
  <1> QED
    BY <1>4, <1>6, <1>7

\* The name before the first header.
LEMMA NoName == Whole(NoFile) \in Name /\ NoFile \notin Spaced
  BY Names, ScannerAssumption DEF ScannerAssumption

\* What the scanner makes of a line: whatever the name, it finds the secret there, and
\* without a tab it finds nothing else.
FoundIn(source, file, line) ==
    IF is_path_ignored(file) THEN {} ELSE scan_line(source, file, line)

LEMMA Finds ==
    ASSUME NEW source \in SourceLine, NEW file \in Name, NEW line
    PROVE  /\ Secret(source, file, line) \subseteq FoundIn(source, file, line)
           /\ ~file.tab => FoundIn(source, file, line) = Secret(source, file, line)
  BY ScannerAssumption DEF ScannerAssumption, scan_line, Secret, Sensitive, is_path_ignored, FoundIn

\* How often a text has been torn is a number, and none if it never was.
LEMMA Tears ==
    ASSUME NEW n \in Nat, NEW text \in [1..n -> SourceLine], NEW i \in 1..n
    PROVE  /\ Counted(text, i) \in Int
           /\ Torn(text, i) = {} => Counted(text, i) = i
  <1>1. IsFiniteSet(1..i)
    BY FS_Interval
  <1>2. IsFiniteSet(Torn(text, i))
    BY <1>1, FS_Subset DEF Torn
  <1>3. Cardinality(Torn(text, i)) \in Nat
    BY <1>2, FS_CardinalityType
  <1>4. Torn(text, i) = {} => Cardinality(Torn(text, i)) = 0
    BY FS_EmptySet
  <1> QED
    BY <1>3, <1>4 DEF Counted

LEMMA InitIInv == Init => IInv
  <1> SUFFICES ASSUME Init PROVE IInv
    OBVIOUS
  <1>1. TypeOK
    <2>1. at \in [file : Path \cup {NoFile}, line : Int, left : Nat]
      BY DEF Init
    <2>2. /\ findings \subseteq Position
          /\ clear \subseteq Position
          /\ secrets \subseteq Position
      BY DEF Init
    <2> QED
      BY <2>1, <2>2, NoName DEF Init, TypeOK
  <1>2. InStep /\ Knows
    BY NoName DEF Init, InStep, Knows
  <1>3. Exact
    BY DEF Init, Exact
  <1>4. InFile /\ Passed
    BY DEF Init, InFile, Passed
  <1> QED
    BY <1>1, <1>2, <1>3, <1>4 DEF IInv

\* A scan starts with nothing found.
LEMMA StartKeeps ==
    ASSUME IInv, NEW s \in {"diff", "tree", "passed"}, NEW I \in SUBSET Path, NEW S \in SUBSET Position,
           s = "passed" \/ S = {}, Start(s, I, S)
    PROVE  IInv'
  <1>1. TypeOK'
    <2>1. at' \in [file : Path \cup {NoFile}, line : Int, left : Nat]
      BY DEF Start
    <2>2. /\ findings' \subseteq Position
          /\ clear' \subseteq Position
          /\ secrets' \subseteq Position
      BY DEF Start
    <2>3. odd' \in BOOLEAN
      BY DEF Start
    <2> QED
      BY <2>1, <2>2, <2>3, NoName DEF Start, TypeOK
  <1>2. (InStep /\ Knows)'
    <2>1. at'.file = NoFile /\ at'.left = 0 /\ lost' = {"file", "line"}
      BY DEF Start
    <2> QED
      BY <2>1, NoName DEF InStep, Knows
  <1>3. Exact'
    BY DEF Start, Exact
  <1>4. (InFile /\ Passed)'
    BY DEF Start, InFile, Passed
  <1> QED
    BY <1>1, <1>2, <1>3, <1>4 DEF IInv

LEMMA OpenFileKeeps == ASSUME IInv, OpenFile PROVE IInv'
  <1>1. PICK f \in rest :
            /\ rest' = rest \ {f}
            /\ at' = [file |-> f, line |-> -1, left |-> 0]
            /\ current_file' = IF f \in Quoted THEN current_file ELSE Shown(f)
            /\ lost' = IF f \in Quoted THEN {"file", "line"} ELSE {"line"}
            /\ odd' = (odd \/ f \in Quoted \cup Spaced)
    BY DEF OpenFile
  <1>2. /\ stage = "diff"
        /\ UNCHANGED <<stage, current_line, findings, clear, secrets>>
    BY DEF OpenFile
  <1>3. f \in Path
    BY DEF IInv, TypeOK
  <1>4. at'.file = f /\ at'.left = 0
    BY <1>1
  <1>5. TypeOK'
    BY <1>1, <1>2, <1>3, Names DEF IInv, TypeOK
  <1>6. ~odd' => ~odd /\ f \notin Quoted /\ f \notin Spaced
    BY <1>1 DEF IInv, TypeOK
  <1>7. InStep'
    BY <1>1, <1>2, <1>4 DEF InStep
  <1>8. Knows'
    BY <1>1, <1>4, <1>6 DEF Knows
  <1>9. Exact'
    BY <1>2, <1>6 DEF IInv, Exact
  <1>10. (InFile /\ Passed)'
    BY <1>2, <1>4 DEF InFile, Passed
  <1> QED
    BY <1>5, <1>7, <1>8, <1>9, <1>10 DEF IInv

LEMMA DeleteFileKeeps == ASSUME IInv, DeleteFile PROVE IInv'
  BY ScannerAssumption DEF ScannerAssumption, DeleteFile, IInv, TypeOK, InStep, Knows, Exact, InFile, Passed

LEMMA HunkKeeps == ASSUME IInv, Hunk PROVE IInv'
  <1>1. PICK start \in 0..MaxLine, n \in 0..MaxLine :
            /\ at' = [at EXCEPT !.line = start - 1, !.left = n]
            /\ current_line' = start - 1
    BY DEF Hunk
  <1>2. /\ stage = "diff"
        /\ at.file # NoFile
        /\ lost' = lost \ {"line"}
        /\ UNCHANGED <<stage, current_file, findings, rest, odd, clear, secrets>>
    BY DEF Hunk
  <1>3. /\ at'.file = at.file
        /\ at'.line = start - 1
        /\ at'.left = n
        /\ at' = [file |-> at.file, line |-> start - 1, left |-> n]
    BY <1>1 DEF IInv, TypeOK
  <1>4. TypeOK'
    <2>1. start - 1 \in Int /\ n \in Nat
      BY ScannerAssumption DEF ScannerAssumption
    <2>2. at' \in [file : Path \cup {NoFile}, line : Int, left : Nat]
      BY <1>3, <2>1 DEF IInv, TypeOK
    <2> QED
      BY <1>1, <1>2, <2>1, <2>2 DEF IInv, TypeOK
  <1>5. (InStep /\ InFile /\ Exact /\ Passed)'
    BY <1>1, <1>2, <1>3 DEF IInv, TypeOK, InStep, InFile, Exact, Passed
  <1>6. Knows'
    BY <1>1, <1>2, <1>3 DEF IInv, TypeOK, Knows
  <1> QED
    BY <1>4, <1>5, <1>6 DEF IInv

LEMMA AddKeeps == ASSUME IInv, Add PROVE IInv'
  <1>1. PICK source \in SourceLine :
          /\ \/ source.shape \in {"plain", "torn"} /\ ReadAdded(source)
             \/ source.shape = "plus" /\ UNCHANGED scanner
             \/ source.shape = "header" /\ current_file' \in Name /\ UNCHANGED <<current_line, findings>>
          /\ lost' = CASE source.shape = "plus"   -> lost \cup {"line"}
                       [] source.shape = "header" -> {"file", "line"}
                       [] OTHER                   -> lost
          /\ odd' = (odd \/ source.shape # "plain")
          /\ secrets' = secrets \cup Secret(source, Whole(at.file), at.line + 1)
          /\ clear' = IF lost = {} /\ source.shape = "plain"
                        THEN clear \cup Secret(source, Shown(at.file), at.line + 1)
                        ELSE clear
    BY DEF Add
  <1>2. /\ stage = "diff"
        /\ at.left > 0
        /\ UNCHANGED <<stage, rest>>
    BY DEF Add
  <1>3. /\ at' \in [file : Path \cup {NoFile}, line : Int, left : Nat]
        /\ at'.file = at.file
        /\ at'.line = at.line + 1
        /\ at'.left = at.left - 1
    <2>1. at' = [file |-> at.file, line |-> at.line + 1, left |-> at.left - 1]
      BY DEF Add, IInv, TypeOK
    <2>2. at.line + 1 \in Int /\ at.left - 1 \in Nat
      BY <1>2 DEF IInv, TypeOK
    <2> QED
      BY <2>1, <2>2 DEF IInv, TypeOK
  <1>4. /\ Secret(source, Whole(at.file), at.line + 1) \subseteq Position
        /\ Secret(source, Shown(at.file), at.line + 1) \subseteq Position
    BY Names, Positions DEF IInv, TypeOK
  <1>5. CASE source.shape = "plain"
    <2>1. /\ current_line' = current_line + 1
          /\ findings' = findings \cup FoundIn(source, current_file, current_line + 1)
          /\ current_file' = current_file
      BY <1>1, <1>5 DEF ReadAdded, FoundIn
    <2>2. lost' = lost /\ odd' = odd
      BY <1>1, <1>5 DEF IInv, TypeOK
    <2>3. FoundIn(source, current_file, current_line + 1) \subseteq Position
      BY Positions DEF IInv, TypeOK, FoundIn
    <2>4. TypeOK'
      BY <1>1, <1>2, <1>3, <1>4, <2>1, <2>2, <2>3 DEF IInv, TypeOK
    <2>5. (InStep /\ Knows /\ InFile /\ Passed)'
      BY <1>2, <1>3, <2>1, <2>2 DEF IInv, TypeOK, InStep, Knows, InFile, Passed
    <2>6. lost = {} => current_file = Shown(at.file) /\ current_line = at.line
      BY <1>2 DEF IInv, InStep
    <2>7. ~odd => lost = {} /\ Shown(at.file) = Whole(at.file)
      BY <1>2, Names DEF IInv, TypeOK, Knows
    <2>8. /\ Secret(source, Shown(at.file), at.line + 1) \subseteq FoundIn(source, Shown(at.file), at.line + 1)
          /\ FoundIn(source, Whole(at.file), at.line + 1) = Secret(source, Whole(at.file), at.line + 1)
      BY Names, Finds DEF IInv, TypeOK
    <2>9. Exact'
      <3>1. CASE lost = {}
        <4>1. findings' = findings \cup FoundIn(source, Shown(at.file), at.line + 1)
          BY <2>1, <2>6, <3>1
        <4>2. clear' = clear \cup Secret(source, Shown(at.file), at.line + 1)
          BY <1>1, <1>5, <3>1
        <4>3. clear' \subseteq findings'
          BY <2>8, <4>1, <4>2 DEF IInv, Exact
        <4>4. ASSUME ~odd' PROVE findings' = secrets'
          <5>1. ~odd /\ Shown(at.file) = Whole(at.file)
            BY <2>2, <2>7, <4>4
          <5>2. findings = secrets
            BY <5>1 DEF IInv, Exact
          <5> QED
            BY <1>1, <2>8, <4>1, <5>1, <5>2
        <4> QED
          BY <4>3, <4>4 DEF Exact
      <3>2. CASE lost # {}
        BY <1>1, <1>5, <2>1, <2>2, <2>7, <3>2 DEF IInv, Exact
      <3> QED
        BY <3>1, <3>2
    <2> QED
      BY <2>4, <2>5, <2>9 DEF IInv
  <1>6. CASE source.shape # "plain"
    <2>1. odd' /\ clear' = clear /\ odd' \in BOOLEAN
      BY <1>1, <1>6 DEF IInv, TypeOK
    <2>2. lost' \subseteq {"file", "line"}
      BY <1>1 DEF IInv, TypeOK
    <2>3. findings' = findings /\ current_file' \in Name /\ current_line' \in Int
      <3>1. CASE source.shape = "torn"
        BY <1>1, <3>1 DEF ReadAdded, IInv, TypeOK
      <3>2. CASE source.shape = "plus"
        BY <1>1, <3>2 DEF scanner, IInv, TypeOK
      <3>3. CASE source.shape = "header"
        BY <1>1, <3>3 DEF IInv, TypeOK
      <3> QED
        BY <1>1, <1>6, <3>1, <3>2, <3>3
    <2>4. TypeOK'
      BY <1>1, <1>2, <1>3, <1>4, <2>1, <2>2, <2>3 DEF IInv, TypeOK
    <2>5. InStep'
      <3>1. CASE source.shape = "torn"
        BY <1>1, <1>2, <1>3, <3>1 DEF ReadAdded, IInv, InStep
      <3>2. CASE source.shape = "plus"
        BY <1>1, <1>2, <1>3, <3>2 DEF scanner, IInv, InStep
      <3>3. CASE source.shape = "header"
        BY <1>1, <3>3 DEF InStep
      <3> QED
        BY <1>1, <1>6, <3>1, <3>2, <3>3
    <2>6. (Knows /\ Exact /\ InFile /\ Passed)'
      BY <1>2, <1>3, <2>1, <2>3 DEF IInv, TypeOK, Knows, Exact, InFile, Passed
    <2> QED
      BY <2>4, <2>5, <2>6 DEF IInv
  <1> QED
    BY <1>5, <1>6

LEMMA ScanFileKeeps == ASSUME IInv, ScanFile PROVE IInv'
  <1>1. PICK f \in rest, n \in 0..MaxLine : \E text \in [1..n -> SourceLine] :
            /\ rest' = rest \ {f}
            /\ findings' = findings \cup (IF is_path_ignored(Whole(f)) THEN {}
                              ELSE UNION {scan_line(text[i], Whole(f), Counted(text, i)) : i \in 1..n})
            /\ secrets' = secrets \cup UNION {Secret(text[i], Whole(f), i) : i \in 1..n}
            /\ clear' = clear \cup UNION {Secret(text[i], Whole(f), i) : i \in {j \in 1..n : Torn(text, j) = {}}}
            /\ odd' = (odd \/ Torn(text, n) # {})
    BY DEF ScanFile
  <1>10. PICK text \in [1..n -> SourceLine] :
            /\ rest' = rest \ {f}
            /\ findings' = findings \cup (IF is_path_ignored(Whole(f)) THEN {}
                              ELSE UNION {scan_line(text[i], Whole(f), Counted(text, i)) : i \in 1..n})
            /\ secrets' = secrets \cup UNION {Secret(text[i], Whole(f), i) : i \in 1..n}
            /\ clear' = clear \cup UNION {Secret(text[i], Whole(f), i) : i \in {j \in 1..n : Torn(text, j) = {}}}
            /\ odd' = (odd \/ Torn(text, n) # {})
    BY <1>1
  <1>0. PICK w \in Name : w = Whole(f) /\ w.path = f /\ ~w.tab
    BY Names DEF IInv, TypeOK
  <1>2. /\ rest' = rest \ {f}
        /\ findings' = findings \cup (IF is_path_ignored(w) THEN {}
                          ELSE UNION {scan_line(text[i], w, Counted(text, i)) : i \in 1..n})
        /\ secrets' = secrets \cup UNION {Secret(text[i], w, i) : i \in 1..n}
        /\ clear' = clear \cup UNION {Secret(text[i], w, i) : i \in {j \in 1..n : Torn(text, j) = {}}}
        /\ odd' = (odd \/ Torn(text, n) # {})
    BY <1>0, <1>10
  <1>3. /\ stage = "tree"
        /\ UNCHANGED <<stage, current_file, current_line, at, lost>>
    BY DEF ScanFile
  <1>4. f \in Path /\ n \in Nat
    BY ScannerAssumption DEF IInv, TypeOK, ScannerAssumption
  <1>5. \A i \in 1..n : /\ scan_line(text[i], w, Counted(text, i)) \subseteq Position
                        /\ Secret(text[i], w, i) \subseteq Position
    <2>1. TAKE i \in 1..n
    <2>2. text[i] \in SourceLine /\ Counted(text, i) \in Int /\ i \in Int
      BY <1>4, Tears
    <2> QED
      BY <2>2, Positions
  <1>6. TypeOK'
    BY <1>2, <1>3, <1>5 DEF IInv, TypeOK
  <1>7. \A i \in 1..n : Torn(text, i) = {} =>
            (IF is_path_ignored(w) THEN {} ELSE scan_line(text[i], w, Counted(text, i)))
              = Secret(text[i], w, i)
    <2>1. TAKE i \in 1..n
    <2>2. HAVE Torn(text, i) = {}
    <2>3. text[i] \in SourceLine /\ Counted(text, i) = i
      BY <1>4, <2>2, Tears
    <2>4. (IF is_path_ignored(w) THEN {} ELSE scan_line(text[i], w, i)) = Secret(text[i], w, i)
      BY <1>0, <2>3, Finds DEF FoundIn
    <2> QED
      BY <2>3, <2>4
  <1>8. clear' \subseteq findings'
    <2>1. \A i \in 1..n : Torn(text, i) = {} => Secret(text[i], w, i) \subseteq findings'
      BY <1>2, <1>7
    <2> QED
      BY <1>2, <2>1 DEF IInv, Exact
  <1>9. ASSUME ~odd' PROVE findings' = secrets'
    <2>1. ~odd /\ \A i \in 1..n : Torn(text, i) = {}
      <3>1. ~odd /\ Torn(text, n) = {}
        BY <1>2, <1>9
      <3>2. \A i \in 1..n : Torn(text, i) \subseteq Torn(text, n)
        BY <1>4 DEF Torn
      <3> QED
        BY <3>1, <3>2
    <2>2. \A i \in 1..n :
            (IF is_path_ignored(w) THEN {} ELSE scan_line(text[i], w, Counted(text, i)))
              = Secret(text[i], w, i)
      BY <1>7, <2>1
    <2>3. (IF is_path_ignored(w) THEN {}
             ELSE UNION {scan_line(text[i], w, Counted(text, i)) : i \in 1..n})
          = UNION {Secret(text[i], w, i) : i \in 1..n}
      <3>1. CASE is_path_ignored(w)
        BY <2>2, <3>1
      <3>2. CASE ~is_path_ignored(w)
        <4>1. \A i \in 1..n : scan_line(text[i], w, Counted(text, i)) = Secret(text[i], w, i)
          BY <2>2, <3>2
        <4> QED
          BY <3>2, <4>1
      <3> QED
        BY <3>1, <3>2
    <2> QED
      BY <1>2, <2>1, <2>3 DEF IInv, Exact
  <1> QED
    BY <1>3, <1>6, <1>8, <1>9 DEF IInv, InStep, Knows, Exact, InFile, Passed

LEMMA SkipFileKeeps == ASSUME IInv, SkipFile PROVE IInv'
  BY DEF SkipFile, scanner, IInv, TypeOK, InStep, Knows, Exact, InFile, Passed

LEMMA ExitKeeps == ASSUME IInv, Exit PROVE IInv'
  BY ScannerAssumption DEF ScannerAssumption, Exit, scanner, IInv, TypeOK, InStep, Knows, Exact, InFile, Passed

LEMMA StepIInv == ASSUME IInv, [Next]_vars PROVE IInv'
  <1>0. Files \subseteq SUBSET Path /\ {} \in SUBSET Path /\ {} \in SUBSET Position
    BY DEF Files
  <1>1. CASE StartDiff
    BY <1>0, <1>1, StartKeeps DEF StartDiff
  <1>2. CASE GitFails
    BY <1>0, <1>2, StartKeeps DEF GitFails
  <1>3. CASE StartTree
    BY <1>0, <1>3, StartKeeps DEF StartTree
  <1>7. CASE DecodeFails
    <2>1. PICK S \in SUBSET [file : {Whole(g) : g \in Path \ Ignored}, line : 1..MaxLine] :
             Start("passed", {}, S)
      BY <1>7 DEF DecodeFails
    <2>2. S \subseteq Position
      BY Names
    <2> QED
      BY <1>0, <2>1, <2>2, StartKeeps
  <1>4. CASE OpenFile \/ DeleteFile \/ Hunk \/ Add
    BY <1>4, OpenFileKeeps, DeleteFileKeeps, HunkKeeps, AddKeeps
  <1>5. CASE ScanFile \/ SkipFile \/ Exit
    BY <1>5, ScanFileKeeps, SkipFileKeeps, ExitKeeps
  <1>6. CASE UNCHANGED vars
    BY <1>6 DEF vars, scanner, IInv, TypeOK, InStep, Knows, Exact, InFile, Passed
  <1> QED
    BY <1>1, <1>2, <1>3, <1>4, <1>5, <1>6, <1>7 DEF Next

LEMMA IInvariant == Spec => []IInv
  BY InitIInv, StepIInv, PTL DEF Spec

(* The scanner's variables and the ghosts keep their types.                *)
THEOREM TypeCorrect == Spec => []TypeOK
  <1>1. IInv => TypeOK
    BY DEF IInv
  <1> QED
    BY <1>1, IInvariant, PTL

(* scan_git_diff follows git through diffs of any length: odd lines, names *)
(* in quotes and deleted files never cost it more than the rest of the     *)
(* hunk or of the file, and a space in a name only puts a tab behind it.   *)
THEOREM KeepsInStep == Spec => []InStep
  <1>1. IInv => InStep
    BY DEF IInv
  <1> QED
    BY <1>1, IInvariant, PTL

(* Every secret on a plain line in a place the scanner could know is found *)
(* there, at the name the scanner has for it, and fails the gate; without  *)
(* anything odd the findings are exactly the secrets, of directories, of   *)
(* files and of decodable diffs of any size.                               *)
THEOREM FindsExactly == Spec => []FindingsAreExact
  <1>1. IInv => FindingsAreExact
    BY DEF IInv, Exact, Passed, FindingsAreExact
  <1> QED
    BY <1>1, IInvariant, PTL
===============================================================================
