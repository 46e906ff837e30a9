------------------------------ MODULE DiffGuard -------------------------------
(***************************************************************************)
(* diff_guard.py: parse_diff over a diff that git writes line by line, and *)
(* what validate_findings then says of a claim about a file and a line.    *)
(*                                                                         *)
(* Each step is one line of splitlines', and the loop's body for it: a     *)
(* line of git's or, as splitlines ends a line at a form feed and its like *)
(* too, a rest of one.  The text of a line is left out but for what it     *)
(* reads as: an added line may read as the +++ line of a file, a rest as   *)
(* anything.  git quotes such characters in a path.  Paths are sequences   *)
(* of components, so that git's a/ and b/ are components too.              *)
(***************************************************************************)
EXTENDS Integers, Sequences, FiniteSets

CONSTANTS
  Paths,    \* the files of the diff
  Phantom,  \* a path that only the text of a file mentions
  LastLine, \* a bound: no hunk goes past this line
  MaxHunk,  \* a bound on a hunk's lines, on either side
  Claimed,  \* the numbers in a hunk header that is only a line's rest
  Breaks,   \* a bound on the places where splitlines alone ends a line
  Margin    \* of validate_findings

None == <<>>
DevNull == <<"/dev/null">>

ASSUME DiffAssumption ==
  /\ \A p \in Paths \cup {Phantom} : p \in Seq(STRING) /\ p # None
  /\ DevNull \notin Paths
  /\ Phantom \notin Paths
  /\ LastLine \in Nat
  /\ MaxHunk \in Nat \ {0}
  /\ Claimed \subseteq Nat
  /\ Breaks \in Nat
  /\ Margin \in Nat

VARIABLES
  section,  \* the diff's current file, the sides' lines left in its hunk, the
            \* number of the next line of its new side, and whether the last
            \* line was a hunk's, its header included
  added,    \* the lines really added, pairs of a path and a number
  changed,  \* the files with a new side that the diff has got to
  broken,   \* how many rests of lines there were
  intact,   \* the files the diff had got to, and left, before the first one
  parser    \* parse_diff's locals

diffVars == <<section, added, changed, broken, intact, parser>>

Omitted == -1  \* a count that a hunk header leaves out

DiffInit ==
  /\ section = [file |-> None, old |-> 0, new |-> 0, next |-> 1, text |-> FALSE]
  /\ added = {}
  /\ changed = {}
  /\ broken = 0
  /\ intact = {}
  /\ parser = [files |-> {}, ranges |-> {}, current |-> None, line_no |-> 0,
               old_remaining |-> 0, new_remaining |-> 0]

-----------------------------------------------------------------------------
(* Lines: the first character ("blank" for a space), and what the line     *)
(* reads as outside a body.                                                *)

BodyLine(first) == [first |-> first, reads |-> "nothing"]
FileLine(path) == [first |-> "+", reads |-> "file", path |-> path]
BinaryLine(path) == [first |-> "B", reads |-> "binary", path |-> path]
RenameLine(path) == [first |-> "r", reads |-> "rename", path |-> path]
HunkLine(old, start, new) ==
  [first |-> "@", reads |-> "hunk", old |-> old, start |-> start, new |-> new]

(* What git writes for a path after +++ or in a Binary files line. *)
NewSide(path) == <<"b">> \o path

(* Mutant: git's prefix stays. *)
Prefixed(path) == path

(* _normalize_diff_path. *)
Normalize(path) ==
  IF Len(path) > 1 /\ Head(path) \in {"a", "b"} THEN Tail(path) ELSE path

(* Mutant: a rename's destination is stripped of a prefix it has not got. *)
RenamedStripped(path) == Normalize(path)

Renamed(path) == path

(* Mutant: a count left out is no line. *)
CountOrNone(n) == IF n = Omitted THEN 0 ELSE n

Count(n) == IF n = Omitted THEN 1 ELSE n
Written(n) == IF n = 1 THEN Omitted ELSE n

ContextLine(p) ==
  [p EXCEPT !.line_no = @ + 1, !.old_remaining = @ - 1, !.new_remaining = @ - 1]

(* Mutant: the marker of a missing last newline counts as a line. *)
MarkerCounts(p) == ContextLine(p)

Marker(p) == p

InBody(p, line) ==
  CASE line.first = "+" ->
         [p EXCEPT !.ranges = IF p.current = None THEN @ ELSE @ \cup {<<p.current, p.line_no>>},
                   !.line_no = @ + 1, !.new_remaining = @ - 1]
    [] line.first = "-" -> [p EXCEPT !.old_remaining = @ - 1]
    [] line.first = "\\" -> Marker(p)
    [] OTHER -> ContextLine(p)

Header(p, line) ==
  CASE line.reads = "hunk" ->
         [p EXCEPT !.old_remaining = Count(line.old), !.line_no = line.start,
                   !.new_remaining = Count(line.new)]
    [] line.reads = "binary" ->
         [p EXCEPT !.files = @ \cup {Normalize(line.path)}, !.current = None]
    [] line.reads = "rename" -> [p EXCEPT !.files = @ \cup {Renamed(line.path)}]
    [] line.reads = "file" ->
         [p EXCEPT !.current = Normalize(line.path),
                   !.files = IF line.path = DevNull THEN @ ELSE @ \cup {Normalize(line.path)}]
    [] OTHER -> p

(* Mutant: a hunk's lines are not counted. *)
EverywhereHeader(p, line) ==
  IF line.reads # "nothing" THEN Header(p, line) ELSE InBody(p, line)

(* The body of parse_diff's loop. *)
ParseLine(p, line) ==
  IF p.old_remaining > 0 \/ p.new_remaining > 0 THEN InBody(p, line) ELSE Header(p, line)

-----------------------------------------------------------------------------
(* The diff. *)

BetweenHunks == section.old = 0 /\ section.new = 0
Unseen == Paths \ changed

(* "diff --git" and "index" or its like, which read as nothing: in a body  *)
(* they are taken for context.  The "---" line of a text is the third.     *)
Preamble(p) == ParseLine(ParseLine(p, BodyLine("d")), BodyLine("i"))
Started(p) == ParseLine(Preamble(p), BodyLine("-"))

(* The next file of the diff; path has a new side, or is none. *)
Begin(path) ==
  /\ BetweenHunks
  /\ section' = [file |-> path, old |-> 0, new |-> 0, next |-> 1, text |-> FALSE]
  /\ UNCHANGED <<added, broken>>

GetTo(path) ==
  /\ path \in Unseen
  /\ changed' = changed \cup {path}
  /\ intact' = IF broken = 0 THEN intact \cup {path} ELSE intact

(* --- and +++, for a file that stays or is new. *)
TextFile(path) ==
  /\ GetTo(path)
  /\ Begin(path)
  /\ parser' = ParseLine(Started(parser), FileLine(NewSide(path)))

(* A file that goes away has no new side, and no added line. *)
DeletedFile ==
  /\ section.file # DevNull
  /\ Begin(DevNull)
  /\ parser' = ParseLine(Started(parser), FileLine(DevNull))
  /\ UNCHANGED <<changed, intact>>

(* Binary files ... differ: no hunk follows. *)
BinaryFile(path) ==
  /\ GetTo(path)
  /\ Begin(None)
  /\ parser' = ParseLine(Preamble(parser), BinaryLine(NewSide(path)))

(* A deleted one has /dev/null for its new side, and /dev/null is taken     *)
(* for a file.                                                             *)
DeletedBinary ==
  /\ Begin(None)
  /\ parser' = ParseLine(Preamble(parser), BinaryLine(DevNull))
  /\ UNCHANGED <<changed, intact>>

(* rename to or copy to, after "similarity" and "rename from"; "index",    *)
(* "---", "+++" and hunks follow if the text changed too.                  *)
RenamedFile(path) ==
  LET moved == ParseLine(ParseLine(Preamble(parser), BodyLine("r")), RenameLine(path))
  IN /\ GetTo(path)
     /\ \/ /\ Begin(None)
           /\ parser' = moved
        \/ /\ Begin(path)
           /\ parser' = ParseLine(ParseLine(ParseLine(moved, BodyLine("i")), BodyLine("-")),
                                  FileLine(NewSide(path)))

Hunk(start, old, new) ==
  /\ BetweenHunks
  /\ section.file # None
  /\ section.file = DevNull => new = 0
  /\ start >= section.next
  /\ start + new <= LastLine + 1
  /\ old + new > 0
  /\ section' = [section EXCEPT !.old = old, !.new = new, !.next = start, !.text = TRUE]
  /\ parser' = ParseLine(parser, HunkLine(Written(old), start, Written(new)))
  /\ UNCHANGED <<added, changed, broken, intact>>

Named == Paths \cup {Phantom}

(* A line that is added may begin with "++ ". *)
Added ==
  /\ section.new > 0
  /\ \E line \in {BodyLine("+")} \cup {FileLine(NewSide(path)) : path \in Named} :
       parser' = ParseLine(parser, line)
  /\ section' = [section EXCEPT !.new = @ - 1, !.next = @ + 1, !.text = TRUE]
  /\ added' = added \cup {<<section.file, section.next>>}
  /\ UNCHANGED <<changed, broken, intact>>

Removed ==
  /\ section.old > 0
  /\ parser' = ParseLine(parser, BodyLine("-"))
  /\ section' = [section EXCEPT !.old = @ - 1, !.text = TRUE]
  /\ UNCHANGED <<added, changed, broken, intact>>

Context ==
  /\ section.old > 0
  /\ section.new > 0
  /\ parser' = ParseLine(parser, BodyLine("blank"))
  /\ section' = [section EXCEPT !.old = @ - 1, !.new = @ - 1, !.next = @ + 1, !.text = TRUE]
  /\ UNCHANGED <<added, changed, broken, intact>>

(* "\ No newline at end of file", after the last line of a side. *)
NoNewline ==
  /\ section.file # None
  /\ section.old = 0 \/ section.new = 0
  /\ parser' = ParseLine(parser, BodyLine("\\"))
  /\ section' = [section EXCEPT !.text = FALSE]
  /\ UNCHANGED <<added, changed, broken, intact>>

(* What splitlines makes of the rest of a line: text, or a header of any   *)
(* kind.                                                                   *)
Sides == {NewSide(path) : path \in Named} \cup {DevNull}
RestLines ==
  {BodyLine(first) : first \in {"blank", "+", "-", "\\"}}
    \cup {FileLine(side) : side \in Sides}
    \cup {BinaryLine(side) : side \in Sides}
    \cup {RenameLine(path) : path \in Named}
    \cup {HunkLine(old, start, new) : old, start, new \in Claimed}

Rest(line) ==
  /\ section.text
  /\ broken < Breaks
  /\ parser' = ParseLine(parser, line)
  /\ broken' = broken + 1
  /\ intact' = intact \ {section.file}
  /\ UNCHANGED <<section, added, changed>>

DiffNext ==
  \/ \E path \in Paths : TextFile(path) \/ BinaryFile(path) \/ RenamedFile(path)
  \/ DeletedFile \/ DeletedBinary
  \/ \E start \in 1..LastLine, old, new \in 0..MaxHunk : Hunk(start, old, new)
  \/ Added \/ Removed \/ Context \/ NoNewline
  \/ \E line \in RestLines : Rest(line)

DiffSpec == DiffInit /\ [][DiffNext]_diffVars

-----------------------------------------------------------------------------
(* validate_findings: what becomes of a claim. *)

Near(lines, line) == \E l \in lines : line - l \in -Margin..Margin

Verdict(path, line) ==
  LET lines == {n \in 0..(LastLine + 1) : <<path, n>> \in parser.ranges}
  IN IF path \notin parser.files THEN "dropped"
     ELSE IF Near(lines, line) THEN "kept" ELSE "annotated"

DiffTypeOK ==
  /\ section.file \in Paths \cup {None, DevNull}
  /\ section.old \in 0..MaxHunk
  /\ section.new \in 0..MaxHunk
  /\ section.text \in BOOLEAN
  /\ broken \in 0..Breaks
  /\ intact \subseteq changed /\ changed \subseteq Paths
  /\ parser.current \in Named \cup {None, DevNull}
  /\ parser.files \subseteq Named \cup {DevNull}
  /\ parser.ranges \subseteq (Named \cup {DevNull}) \X Int

(* A claim about a file that the diff has got to is judged by the lines    *)
(* really added to it, whatever else the diff holds.  A line that          *)
(* splitlines breaks costs only its own file and those after it: of the    *)
(* files before it no claim is dropped and none near an added line is      *)
(* annotated; one that is not may be kept.                                 *)
JudgedByTheDiff ==
  \A path \in intact, line \in 1..LastLine :
    LET verdict == Verdict(path, line)
        near == Near({n \in 1..LastLine : <<path, n>> \in added}, line)
    IN /\ near => verdict = "kept"
       /\ ~near => verdict \in IF broken = 0 THEN {"annotated"} ELSE {"annotated", "kept"}

(* The text of a file never makes the guard believe in a file that is not  *)
(* in the diff, as long as splitlines breaks no line.                      *)
NoPhantom == broken = 0 => parser.files \ {DevNull} \subseteq changed

(* The docstring of diff_guard.py: the parser "knows exactly when a hunk   *)
(* body ends", so that a line of the hunk is never read as a header.       *)
KnowsTheEnd ==
  ~BetweenHunks => parser.old_remaining > 0 \/ parser.new_remaining > 0

(* As long as splitlines breaks no line, the parser is in a body when the  *)
(* diff is in one, and as far in it as the diff.                           *)
InStep ==
  broken = 0 =>
    /\ parser.old_remaining = section.old
    /\ parser.new_remaining = section.new
    /\ section.new > 0 => parser.line_no = section.next
===============================================================================
