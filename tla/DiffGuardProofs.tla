--------------------------- MODULE DiffGuardProofs ---------------------------
(***************************************************************************)
(* Theorems about DiffGuard, for any files, any number and length of hunks *)
(* and any number of lines that splitlines breaks.                         *)
(***************************************************************************)
EXTENDS DiffGuard, SequenceTheorems, TLAPS

USE DiffAssumption

Registered == Named \cup {DevNull}
Anything == Registered \cup {None}

Parsers ==
  [files : SUBSET Registered, ranges : SUBSET (Registered \X Int), current : Anything,
   line_no : Int, old_remaining : Int, new_remaining : Int]

Sections ==
  [file : Paths \cup {None, DevNull}, old : Nat, new : Nat, next : Nat, text : BOOLEAN]

(* A hunk has a file, its lines are within the bounds. *)
SectionOK ==
  /\ section \in Sections
  /\ section.old <= MaxHunk /\ section.new <= MaxHunk
  /\ section.file = None => BetweenHunks /\ ~section.text
  /\ section.next > 0
  /\ section.new > 0 => section.next + section.new <= LastLine + 1
  /\ intact \subseteq changed /\ changed \subseteq Paths
  /\ broken \in 0..Breaks
  /\ added \subseteq (Paths \cup {None, DevNull}) \X (1..LastLine)

(* Until a line is broken the parser is where the diff is; from then on it *)
(* may be anywhere, but the diff is past the intact files.                 *)
StepOK ==
  /\ parser \in Parsers
  /\ broken = 0 =>
       /\ parser.old_remaining = section.old
       /\ parser.new_remaining = section.new
       /\ section.new > 0 => parser.line_no = section.next
       /\ section.file # None => parser.current = section.file
  /\ broken > 0 => section.file \notin intact

(* What the parser knows of the files and of the lines added to them. *)
KnownOK ==
  /\ intact \subseteq parser.files
  /\ broken = 0 =>
       /\ parser.files \ {DevNull} \subseteq changed
       /\ \A path \in Paths, n \in Int :
            <<path, n>> \in parser.ranges <=> <<path, n>> \in added
  /\ \A path \in intact, n \in Int : <<path, n>> \in added => <<path, n>> \in parser.ranges

IInv == SectionOK /\ StepOK /\ KnownOK

-----------------------------------------------------------------------------
(* The lines. *)

Components == STRING \cup {"b"}

LEMMA StripsPrefix ==
  ASSUME NEW path \in Named
  PROVE  Normalize(NewSide(path)) = path /\ NewSide(path) # DevNull
<1> DEFINE long == NewSide(path)
<1>1. path \in Seq(Components) /\ Len(path) \in Nat \ {0}
  <2>1. path \in Seq(Components) /\ path # None
    BY SeqMonotonic DEF Components, Named
  <2>2. QED
    BY <2>1, EmptySeq DEF None
<1>2. <<"b">> \in Seq(Components) /\ Len(<<"b">>) = 1 /\ <<"b">>[1] = "b"
  BY DEF Components
<1>3. /\ long \in Seq(Components)
      /\ Len(long) = Len(path) + 1
      /\ \A i \in 1..(1 + Len(path)) : long[i] = IF i <= 1 THEN "b" ELSE path[i - 1]
  <2>1. /\ <<"b">> \o path \in Seq(Components)
        /\ Len(<<"b">> \o path) = Len(<<"b">>) + Len(path)
        /\ \A i \in 1..(Len(<<"b">>) + Len(path)) :
             (<<"b">> \o path)[i] = IF i <= Len(<<"b">>) THEN <<"b">>[i] ELSE path[i - Len(<<"b">>)]
    BY <1>1, <1>2, ConcatProperties
  <2>2. QED
    BY <1>1, <1>2, <2>1 DEF NewSide
<1>4. long[1] = "b" /\ Len(long) > 1 /\ long # << >>
  BY <1>1, <1>3
<1> HIDE DEF long
<1>5. Head(long) = "b"
  BY <1>3, <1>4
<1>6. Tail(long) = path
  <2>1. /\ Tail(long) \in Seq(Components)
        /\ Len(Tail(long)) = Len(path)
        /\ \A i \in 1..Len(path) : Tail(long)[i] = long[i + 1]
    BY <1>1, <1>3, <1>4, HeadTailProperties
  <2>2. \A i \in 1..Len(path) : long[i + 1] = path[i]
    BY <1>1, <1>3
  <2>3. \A i \in 1..Len(path) : Tail(long)[i] = path[i]
    BY <2>1, <2>2
  <2>4. QED
    BY <1>1, <2>1, <2>3, SeqEqual
<1>7. long # DevNull
  BY <1>4 DEF DevNull
<1>8. QED
  BY <1>4, <1>5, <1>6, <1>7 DEF Normalize, long

LEMMA NullStays ==
  /\ Normalize(DevNull) = DevNull
  /\ None \notin Registered
BY DEF Normalize, DevNull, None, Registered, Named

(* Whatever a line of the loop may be. *)
IsLine(line) ==
  \/ line.reads = "nothing"
  \/ line.reads \in {"file", "binary"} /\ line.path \in Sides
  \/ line.reads = "rename" /\ line.path \in Named
  \/ line.reads = "hunk" /\ line.old \in Int /\ line.start \in Int /\ line.new \in Int

LEMMA Lines ==
  /\ \A f : IsLine(BodyLine(f)) /\ BodyLine(f).first = f
  /\ \A path \in Sides : IsLine(FileLine(path)) /\ FileLine(path).first = "+"
  /\ \A path \in Sides : IsLine(BinaryLine(path))
  /\ \A path \in Named : IsLine(RenameLine(path))
  /\ \A old, start, new \in Int : IsLine(HunkLine(old, start, new))
  /\ \A path \in Named : NewSide(path) \in Sides
  /\ DevNull \in Sides
BY DEF IsLine, BodyLine, FileLine, BinaryLine, RenameLine, HunkLine, Sides

LEMMA SidesNormal ==
  ASSUME NEW path \in Sides
  PROVE  Normalize(path) \in Registered
BY StripsPrefix, NullStays DEF Sides, Registered

(* No line takes a file or an added line away from the parser. *)
Grows(p, q) ==
  /\ q \in Parsers
  /\ p.files \subseteq q.files
  /\ p.ranges \subseteq q.ranges

(* In a body it is its first character that counts. *)
OldLines(f) == IF f \in {"+", "\\"} THEN 0 ELSE 1
NewLines(f) == IF f \in {"-", "\\"} THEN 0 ELSE 1

LEMMA BodyParsed ==
  ASSUME NEW p \in Parsers, NEW l
  PROVE  LET q == InBody(p, l)
         IN /\ q \in Parsers
            /\ q.files = p.files /\ q.current = p.current
            /\ q.ranges = IF l.first = "+" /\ p.current # None
                          THEN p.ranges \cup {<<p.current, p.line_no>>} ELSE p.ranges
            /\ q.old_remaining = p.old_remaining - OldLines(l.first)
            /\ q.new_remaining = p.new_remaining - NewLines(l.first)
            /\ q.line_no = p.line_no + NewLines(l.first)
<1> DEFINE q == InBody(p, l)
<1>0. /\ p.line_no \in Int /\ p.old_remaining \in Int /\ p.new_remaining \in Int
      /\ p.ranges \in SUBSET (Registered \X Int)
      /\ p.line_no + 1 \in Int /\ p.old_remaining - 1 \in Int /\ p.new_remaining - 1 \in Int
  BY DEF Parsers
<1>1. CASE l.first = "+"
  <2> DEFINE r == IF p.current = None THEN p.ranges ELSE p.ranges \cup {<<p.current, p.line_no>>}
  <2>1. q = [p EXCEPT !.ranges = r, !.line_no = p.line_no + 1,
                      !.new_remaining = p.new_remaining - 1]
    BY <1>1 DEF InBody
  <2>2. r \in SUBSET (Registered \X Int)
    BY <1>0 DEF Parsers, Anything
  <2> HIDE DEF r
  <2>3. q \in Parsers
    <3>1. [p EXCEPT !.ranges = r, !.line_no = p.line_no + 1,
                    !.new_remaining = p.new_remaining - 1] \in Parsers
      BY ONLY <2>2, <1>0, p \in Parsers DEF Parsers
    <3>2. QED
      BY <2>1, <3>1
  <2>4. /\ q.files = p.files /\ q.current = p.current /\ q.ranges = r
        /\ q.line_no = p.line_no + 1 /\ q.old_remaining = p.old_remaining
        /\ q.new_remaining = p.new_remaining - 1
    BY <2>1 DEF Parsers
  <2>5. OldLines("+") = 0 /\ NewLines("+") = 1
    BY DEF OldLines, NewLines
  <2>6. p.old_remaining = p.old_remaining - 0
    BY <1>0
  <2>7. QED
    BY <1>1, <2>3, <2>4, <2>5, <2>6 DEF r
<1>2. CASE l.first = "-"
  <2>1. q = [p EXCEPT !.old_remaining = p.old_remaining - 1]
    BY <1>2 DEF InBody
  <2>2. q \in Parsers
    <3>1. [p EXCEPT !.old_remaining = p.old_remaining - 1] \in Parsers
      BY ONLY <1>0, p \in Parsers DEF Parsers
    <3>2. QED
      BY <2>1, <3>1
  <2>3. /\ q.files = p.files /\ q.current = p.current /\ q.ranges = p.ranges
        /\ q.line_no = p.line_no /\ q.old_remaining = p.old_remaining - 1
        /\ q.new_remaining = p.new_remaining
    BY <2>1 DEF Parsers
  <2>4. OldLines("-") = 1 /\ NewLines("-") = 0
    BY DEF OldLines, NewLines
  <2>5. p.line_no = p.line_no + 0 /\ p.new_remaining = p.new_remaining - 0
    BY <1>0
  <2>6. QED
    BY <1>2, <2>2, <2>3, <2>4, <2>5
<1>3. CASE l.first = "\\"
  <2>1. q = p
    BY <1>3 DEF InBody, Marker
  <2>2. OldLines("\\") = 0 /\ NewLines("\\") = 0
    BY DEF OldLines, NewLines
  <2>3. /\ p.line_no = p.line_no + 0 /\ p.old_remaining = p.old_remaining - 0
        /\ p.new_remaining = p.new_remaining - 0
    BY <1>0
  <2>4. QED
    BY <1>3, <2>1, <2>2, <2>3
<1>4. CASE l.first \notin {"+", "-", "\\"}
  <2>1. q = [p EXCEPT !.line_no = p.line_no + 1,
                      !.old_remaining = p.old_remaining - 1,
                      !.new_remaining = p.new_remaining - 1]
    BY <1>4 DEF InBody, ContextLine
  <2>2. q \in Parsers
    <3>1. [p EXCEPT !.line_no = p.line_no + 1,
                    !.old_remaining = p.old_remaining - 1,
                    !.new_remaining = p.new_remaining - 1] \in Parsers
      BY ONLY <1>0, p \in Parsers DEF Parsers
    <3>2. QED
      BY <2>1, <3>1
  <2>3. /\ q.files = p.files /\ q.current = p.current /\ q.ranges = p.ranges
        /\ q.line_no = p.line_no + 1 /\ q.old_remaining = p.old_remaining - 1
        /\ q.new_remaining = p.new_remaining - 1
    BY <2>1 DEF Parsers
  <2>4. OldLines(l.first) = 1 /\ NewLines(l.first) = 1
    BY <1>4 DEF OldLines, NewLines
  <2>5. QED
    BY <1>4, <2>2, <2>3, <2>4
<1>5. QED
  BY <1>1, <1>2, <1>3, <1>4

LEMMA HeaderGrows ==
  ASSUME NEW p \in Parsers, NEW l, IsLine(l)
  PROVE  Grows(p, Header(p, l))
<1>1. CASE l.reads = "nothing"
  BY <1>1 DEF Header, Grows
<1>2. CASE l.reads = "file" /\ l.path \in Sides
  <2> DEFINE F == IF l.path = DevNull THEN p.files ELSE p.files \cup {Normalize(l.path)}
  <2>1. Header(p, l) = [p EXCEPT !.current = Normalize(l.path), !.files = F]
    BY <1>2 DEF Header
  <2>2. Normalize(l.path) \in Anything /\ F \in SUBSET Registered /\ p.files \subseteq F
    BY <1>2, SidesNormal DEF Parsers, Anything
  <2> HIDE DEF F
  <2>3. [p EXCEPT !.current = Normalize(l.path), !.files = F] \in Parsers
    BY ONLY <2>2, p \in Parsers DEF Parsers
  <2>4. Header(p, l).files = F /\ Header(p, l).ranges = p.ranges
    BY <2>1 DEF Parsers
  <2>5. QED
    BY <2>1, <2>2, <2>3, <2>4 DEF Grows
<1>3. CASE l.reads = "binary" /\ l.path \in Sides
  <2> DEFINE F == p.files \cup {Normalize(l.path)}
  <2>1. Header(p, l) = [p EXCEPT !.files = F, !.current = None]
    BY <1>3 DEF Header
  <2>2. None \in Anything /\ F \in SUBSET Registered /\ p.files \subseteq F
    BY <1>3, SidesNormal DEF Parsers, Anything
  <2> HIDE DEF F
  <2>3. [p EXCEPT !.files = F, !.current = None] \in Parsers
    BY ONLY <2>2, p \in Parsers DEF Parsers
  <2>4. Header(p, l).files = F /\ Header(p, l).ranges = p.ranges
    BY <2>1 DEF Parsers
  <2>5. QED
    BY <2>1, <2>2, <2>3, <2>4 DEF Grows
<1>4. CASE l.reads = "rename" /\ l.path \in Named
  <2>1. Header(p, l) = [p EXCEPT !.files = p.files \cup {l.path}]
    BY <1>4 DEF Header, Renamed
  <2>2. QED
    BY <1>4, <2>1 DEF Grows, Parsers, Registered
<1>5. CASE l.reads = "hunk" /\ l.old \in Int /\ l.start \in Int /\ l.new \in Int
  <2>1. Header(p, l) = [p EXCEPT !.old_remaining = Count(l.old), !.line_no = l.start,
                                 !.new_remaining = Count(l.new)]
    BY <1>5 DEF Header
  <2>2. Count(l.old) \in Int /\ Count(l.new) \in Int
    BY <1>5 DEF Count
  <2>3. Header(p, l) \in Parsers
    <3>1. [p EXCEPT !.old_remaining = Count(l.old), !.line_no = l.start,
                    !.new_remaining = Count(l.new)] \in Parsers
      BY ONLY <1>5, <2>2, p \in Parsers DEF Parsers
    <3>2. QED
      BY <2>1, <3>1
  <2>4. Header(p, l).files = p.files /\ Header(p, l).ranges = p.ranges
    BY <2>1 DEF Parsers
  <2>5. QED
    BY <2>3, <2>4 DEF Grows
<1>6. QED
  BY <1>1, <1>2, <1>3, <1>4, <1>5 DEF IsLine

LEMMA LineGrows ==
  ASSUME NEW p \in Parsers, NEW l, IsLine(l)
  PROVE  Grows(p, ParseLine(p, l))
<1>1. Grows(p, InBody(p, l))
  BY BodyParsed DEF Grows
<1>2. Grows(p, Header(p, l))
  BY HeaderGrows
<1>3. QED
  BY <1>1, <1>2 DEF ParseLine

LEMMA GrowsOn ==
  ASSUME NEW p, NEW q, NEW l, Grows(p, q), IsLine(l)
  PROVE  Grows(p, ParseLine(q, l))
<1>1. Grows(q, ParseLine(q, l))
  BY LineGrows DEF Grows
<1>2. QED
  BY <1>1 DEF Grows

LEMMA StartGrows ==
  ASSUME NEW p \in Parsers
  PROVE  Grows(p, Preamble(p)) /\ Grows(p, Started(p))
<1>1. Grows(p, ParseLine(p, BodyLine("d")))
  BY LineGrows, Lines
<1>2. Grows(p, Preamble(p))
  BY <1>1, GrowsOn, Lines DEF Preamble
<1>3. Grows(p, Started(p))
  BY <1>2, GrowsOn, Lines DEF Started
<1>4. QED
  BY <1>2, <1>3

-----------------------------------------------------------------------------
(* Once a line is broken it is enough that the parser forgets nothing. *)
LEMMA Afterwards ==
  ASSUME IInv, SectionOK', Grows(parser, parser'), broken' > 0,
         intact' \subseteq intact, section.file \notin intact', section'.file \notin intact',
         added' \subseteq added \cup {<<section.file, section.next>>}
  PROVE  IInv'
<1>1. broken' # 0 /\ parser' \in Parsers
  BY DEF Grows, SectionOK
<1>2. StepOK'
  BY <1>1 DEF StepOK
<1>3. intact' \subseteq parser'.files
  BY DEF IInv, KnownOK, Grows
<1>4. ASSUME NEW path \in intact', NEW n \in Int, <<path, n>> \in added'
      PROVE  <<path, n>> \in parser'.ranges
  <2>1. path # section.file /\ path \in intact
    BY <1>4
  <2>2. <<path, n>> \in added
    BY <1>4, <2>1
  <2>3. QED
    BY <2>1, <2>2 DEF IInv, KnownOK, Grows
<1>5. KnownOK'
  BY <1>1, <1>3, <1>4 DEF KnownOK
<1>6. QED
  BY <1>2, <1>5 DEF IInv

(* A line of a hunk's body. *)
LEMMA BodyPreserves ==
  ASSUME IInv, NEW f \in {"+", "-", "blank"}, NEW l, IsLine(l), l.first = f,
         parser' = ParseLine(parser, l),
         section.old >= OldLines(f), section.new >= NewLines(f),
         section' \in Sections,
         section'.file = section.file,
         section'.old = section.old - OldLines(f),
         section'.new = section.new - NewLines(f),
         section'.next = section.next + NewLines(f),
         added' = IF f = "+" THEN added \cup {<<section.file, section.next>>} ELSE added,
         UNCHANGED <<changed, broken, intact>>
  PROVE  IInv'
<1> DEFINE o == OldLines(f)
           w == NewLines(f)
<1>1. /\ section \in Sections /\ section.old \in Nat /\ section.new \in Nat
      /\ section.next \in Nat /\ section.next > 0
      /\ section.old <= MaxHunk /\ section.new <= MaxHunk
      /\ section.new > 0 => section.next + section.new <= LastLine + 1
      /\ parser \in Parsers
      /\ added \subseteq (Paths \cup {None, DevNull}) \X (1..LastLine)
      /\ broken \in 0..Breaks /\ intact \subseteq changed /\ changed \subseteq Paths
  BY DEF IInv, StepOK, SectionOK, Sections
<1>2. o \in 0..1 /\ w \in 0..1 /\ o + w > 0
  BY DEF OldLines, NewLines
<1>3. f = "+" => w = 1
  BY DEF NewLines
<1> HIDE DEF o, w
<1>4. section.old > 0 \/ section.new > 0
  BY <1>1, <1>2 DEF o, w
<1>5. section.file # None
  BY <1>1, <1>4 DEF IInv, SectionOK, BetweenHunks
<1>6. SectionOK'
  <2>1. section'.old \in Nat /\ section'.new \in Nat
    BY DEF Sections
  <2>2. section'.old <= MaxHunk /\ section'.new <= MaxHunk
    BY <1>1, <1>2, <2>1 DEF o, w
  <2>3. section'.next > 0
    BY <1>1, <1>2 DEF w
  <2>4. section'.new > 0 => section'.next + section'.new <= LastLine + 1
    BY <1>1, <1>2, <2>1 DEF w
  <2>5. added' \subseteq (Paths \cup {None, DevNull}) \X (1..LastLine)
    <3>1. CASE f = "+"
      <4>1. section.new > 0
        BY <1>1, <1>3, <3>1 DEF w
      <4>2. section.next \in 1..LastLine
        BY <1>1, <4>1
      <4>3. section.file \in Paths \cup {None, DevNull}
        BY <1>1 DEF Sections
      <4>4. QED
        BY <1>1, <3>1, <4>2, <4>3
    <3>2. CASE f # "+"
      BY <1>1, <3>2
    <3>3. QED
      BY <3>1, <3>2
  <2>6. QED
    BY <1>1, <1>5, <2>2, <2>3, <2>4, <2>5 DEF SectionOK
<1>7. CASE broken = 0
  <2>1. /\ parser.old_remaining = section.old /\ parser.new_remaining = section.new
        /\ section.new > 0 => parser.line_no = section.next
        /\ parser.current = section.file
        /\ intact \subseteq parser.files
        /\ parser.files \ {DevNull} \subseteq changed
        /\ \A path \in Paths, n \in Int : <<path, n>> \in parser.ranges <=> <<path, n>> \in added
        /\ \A path \in intact, n \in Int : <<path, n>> \in added => <<path, n>> \in parser.ranges
    BY <1>5, <1>7 DEF IInv, StepOK, KnownOK
  <2>2. parser' = InBody(parser, l)
    BY <1>4, <2>1 DEF ParseLine
  <2> DEFINE q == InBody(parser, l)
  <2>a. /\ q \in Parsers
        /\ q.files = parser.files /\ q.current = parser.current
        /\ q.ranges = IF l.first = "+" /\ parser.current # None
                      THEN parser.ranges \cup {<<parser.current, parser.line_no>>}
                      ELSE parser.ranges
        /\ q.old_remaining = parser.old_remaining - OldLines(l.first)
        /\ q.new_remaining = parser.new_remaining - NewLines(l.first)
        /\ q.line_no = parser.line_no + NewLines(l.first)
    BY <1>1, BodyParsed
  <2>3. /\ parser' \in Parsers
        /\ parser'.files = parser.files /\ parser'.current = section.file
        /\ parser'.ranges = IF f = "+" THEN parser.ranges \cup {<<section.file, parser.line_no>>}
                            ELSE parser.ranges
        /\ parser'.old_remaining = section.old - o
        /\ parser'.new_remaining = section.new - w
        /\ parser'.line_no = parser.line_no + w
    BY <1>5, <2>1, <2>2, <2>a DEF o, w
  <2>4. section'.new > 0 => section.new > 0
    BY <1>1, <1>2 DEF w
  <2>5. f = "+" => section.new > 0
    BY <1>1, <1>3 DEF w
  <2>6. StepOK'
    BY <1>7, <2>1, <2>3, <2>4 DEF StepOK, o, w
  <2>7. parser'.ranges = IF f = "+" THEN parser.ranges \cup {<<section.file, section.next>>}
                         ELSE parser.ranges
    BY <2>1, <2>3, <2>5
  <2>8. KnownOK'
    BY <1>7, <2>1, <2>3, <2>7 DEF KnownOK
  <2>9. QED
    BY <1>6, <2>6, <2>8 DEF IInv
<1>8. CASE broken # 0
  <2>1. broken' > 0 /\ section.file \notin intact /\ section'.file \notin intact'
    BY <1>1, <1>8 DEF IInv, StepOK
  <2>2. Grows(parser, parser')
    BY <1>1, LineGrows
  <2>3. QED
    BY <1>6, <2>1, <2>2, Afterwards
<1>9. QED
  BY <1>7, <1>8

-----------------------------------------------------------------------------
(* What stands between two hunks. *)

LEMMA OutOfBody ==
  ASSUME IInv, broken = 0, BetweenHunks
  PROVE  /\ \A l : ParseLine(parser, l) = Header(parser, l)
         /\ Preamble(parser) = parser
         /\ Started(parser) = parser
<1>1. parser.old_remaining = 0 /\ parser.new_remaining = 0
  BY DEF BetweenHunks, IInv, StepOK
<1>2. \A l : ParseLine(parser, l) = Header(parser, l)
  BY <1>1 DEF ParseLine
<1>3. \A f : ParseLine(parser, BodyLine(f)) = parser
  <2> TAKE f
  <2>1. Header(parser, BodyLine(f)) = parser
    BY DEF Header, BodyLine
  <2>2. QED
    BY <1>2, <2>1
<1>4. QED
  BY <1>2, <1>3 DEF Preamble, Started

(* The header of a file leaves the hunk's bookkeeping and the lines alone. *)
Kept(p, q) ==
  /\ q \in Parsers
  /\ q.old_remaining = p.old_remaining
  /\ q.new_remaining = p.new_remaining
  /\ q.line_no = p.line_no
  /\ q.ranges = p.ranges

LEMMA FileHeader ==
  ASSUME NEW p \in Parsers, NEW path \in Paths
  PROVE  LET file == Header(p, FileLine(NewSide(path)))
             binary == Header(p, BinaryLine(NewSide(path)))
             rename == Header(p, RenameLine(path))
         IN /\ Kept(p, file) /\ file.files = p.files \cup {path} /\ file.current = path
            /\ Kept(p, binary) /\ binary.files = p.files \cup {path} /\ binary.current = None
            /\ Kept(p, rename) /\ rename.files = p.files \cup {path}
            /\ rename.current = p.current
<1>1. /\ path \in Anything /\ None \in Anything /\ p.current \in Anything
      /\ p.files \cup {path} \in SUBSET Registered
  BY DEF Anything, Registered, Named, Parsers
<1>2. Normalize(NewSide(path)) = path /\ NewSide(path) # DevNull
  BY StripsPrefix DEF Named
<1>3. Header(p, FileLine(NewSide(path))) = [p EXCEPT !.current = path, !.files = p.files \cup {path}]
  BY <1>2 DEF Header, FileLine
<1>4. Header(p, BinaryLine(NewSide(path))) = [p EXCEPT !.files = p.files \cup {path}, !.current = None]
  BY <1>2 DEF Header, BinaryLine
<1>5. Header(p, RenameLine(path)) = [p EXCEPT !.files = p.files \cup {path}]
  BY DEF Header, RenameLine, Renamed
<1>6. QED
  BY <1>1, <1>3, <1>4, <1>5 DEF Kept, Parsers

LEMMA NullHeader ==
  ASSUME NEW p \in Parsers
  PROVE  LET file == Header(p, FileLine(DevNull))
             binary == Header(p, BinaryLine(DevNull))
         IN /\ Kept(p, file) /\ file.files = p.files /\ file.current = DevNull
            /\ Kept(p, binary) /\ binary.files = p.files \cup {DevNull}
<1>1. /\ DevNull \in Anything /\ None \in Anything
      /\ p.files \cup {DevNull} \in SUBSET Registered /\ p.files \in SUBSET Registered
  BY DEF Anything, Registered, Named, Parsers
<1>2. Header(p, FileLine(DevNull)) = [p EXCEPT !.current = DevNull, !.files = p.files]
  BY NullStays DEF Header, FileLine
<1>3. Header(p, BinaryLine(DevNull)) = [p EXCEPT !.files = p.files \cup {DevNull}, !.current = None]
  BY NullStays DEF Header, BinaryLine
<1>4. QED
  BY <1>1, <1>2, <1>3 DEF Kept, Parsers

(* The next file of the diff. *)
LEMMA BeginTypes ==
  ASSUME IInv, NEW path \in Paths \cup {None, DevNull}, Begin(path),
         intact' \subseteq changed', changed' \subseteq Paths
  PROVE  SectionOK' /\ section'.file = path
<1>1. /\ section' = [file |-> path, old |-> 0, new |-> 0, next |-> 1, text |-> FALSE]
      /\ added' = added /\ broken' = broken
  BY DEF Begin
<1>2. /\ section' \in Sections /\ section'.old = 0 /\ section'.new = 0
      /\ section'.next = 1 /\ ~section'.text /\ section'.file = path
  BY <1>1 DEF Sections
<1>3. QED
  BY <1>1, <1>2 DEF IInv, SectionOK, BetweenHunks

(* As long as no line is broken its header gives the parser the file. *)
LEMMA BeginPreserves ==
  ASSUME IInv, broken = 0, NEW path \in Paths \cup {None, DevNull}, Begin(path),
         Kept(parser, parser'),
         path # None => parser'.current = path,
         NEW C \in SUBSET Paths,
         changed' = changed \cup C,
         intact' = intact \cup C,
         parser.files \cup C \subseteq parser'.files,
         parser'.files \subseteq parser.files \cup C \cup {DevNull}
  PROVE  IInv'
<1>1. /\ section' = [file |-> path, old |-> 0, new |-> 0, next |-> 1, text |-> FALSE]
      /\ added' = added /\ broken' = 0
      /\ section.old = 0 /\ section.new = 0
  BY DEF Begin, BetweenHunks
<1>2. SectionOK' /\ section'.file = path
  BY BeginTypes DEF IInv, SectionOK
<1>3. StepOK'
  <2>1. /\ parser' \in Parsers
        /\ parser'.old_remaining = 0 /\ parser'.new_remaining = 0
    BY <1>1 DEF Kept, IInv, StepOK
  <2>2. section'.old = 0 /\ section'.new = 0
    BY <1>1
  <2>3. QED
    BY <1>1, <1>2, <2>1, <2>2 DEF StepOK
<1>4. KnownOK'
  BY <1>1 DEF IInv, KnownOK, SectionOK, Kept
<1>5. QED
  BY <1>2, <1>3, <1>4 DEF IInv

(* The diff gets to path: what it writes before the hunks. *)
LEMMA FileStep ==
  ASSUME IInv, NEW path \in Paths, GetTo(path), NEW to \in {path, None}, Begin(to),
         Grows(parser, parser'),
         broken = 0 =>
           /\ Kept(parser, parser') /\ parser'.files = parser.files \cup {path}
           /\ to # None => parser'.current = to
  PROVE  IInv'
<1>1. /\ path \notin changed /\ changed' = changed \cup {path}
      /\ intact' = IF broken = 0 THEN intact \cup {path} ELSE intact
      /\ broken' = broken /\ added' = added /\ broken \in Nat
      /\ intact \subseteq changed /\ changed \subseteq Paths
  BY DEF GetTo, Unseen, Begin, IInv, SectionOK
<1>2. CASE broken = 0
  BY <1>1, <1>2, {path} \in SUBSET Paths, BeginPreserves
<1>3. CASE broken # 0
  <2>1. SectionOK' /\ section'.file = to
    BY <1>1, <1>3, BeginTypes
  <2>2. to \notin intact
    BY <1>1, NullStays DEF Registered, Named
  <2>3. broken' > 0 /\ section.file \notin intact
    BY <1>1, <1>3 DEF IInv, StepOK
  <2>4. QED
    BY <1>1, <1>3, <2>1, <2>2, <2>3, Afterwards
<1>4. QED
  BY <1>2, <1>3

LEMMA TextFileStep ==
  ASSUME IInv, NEW path \in Paths, TextFile(path)
  PROVE  IInv'
<1>1. /\ parser \in Parsers /\ GetTo(path) /\ Begin(path)
      /\ parser' = ParseLine(Started(parser), FileLine(NewSide(path)))
  BY DEF TextFile, IInv, StepOK
<1>2. Grows(parser, parser')
  BY <1>1, StartGrows, GrowsOn, Lines DEF Named
<1>3. ASSUME broken = 0
      PROVE  /\ Kept(parser, parser') /\ parser'.files = parser.files \cup {path}
             /\ parser'.current = path
  <2>1. parser' = Header(parser, FileLine(NewSide(path)))
    BY <1>1, <1>3, OutOfBody DEF Begin
  <2>2. QED
    BY <1>1, <2>1, FileHeader
<1>4. QED
  BY <1>1, <1>2, <1>3, FileStep

LEMMA BinaryFileStep ==
  ASSUME IInv, NEW path \in Paths, BinaryFile(path)
  PROVE  IInv'
<1>1. /\ parser \in Parsers /\ GetTo(path) /\ Begin(None)
      /\ parser' = ParseLine(Preamble(parser), BinaryLine(NewSide(path)))
  BY DEF BinaryFile, IInv, StepOK
<1>2. Grows(parser, parser')
  BY <1>1, StartGrows, GrowsOn, Lines DEF Named
<1>3. ASSUME broken = 0
      PROVE  Kept(parser, parser') /\ parser'.files = parser.files \cup {path}
  <2>1. parser' = Header(parser, BinaryLine(NewSide(path)))
    BY <1>1, <1>3, OutOfBody DEF Begin
  <2>2. QED
    BY <1>1, <2>1, FileHeader
<1>4. QED
  BY <1>1, <1>2, <1>3, FileStep

LEMMA RenamedFileStep ==
  ASSUME IInv, NEW path \in Paths, RenamedFile(path)
  PROVE  IInv'
<1> DEFINE before == ParseLine(Preamble(parser), BodyLine("r"))
           moved == ParseLine(before, RenameLine(path))
           ahead == ParseLine(ParseLine(moved, BodyLine("i")), BodyLine("-"))
           renamed == Header(parser, RenameLine(path))
<1>1. parser \in Parsers /\ GetTo(path)
  BY DEF RenamedFile, IInv, StepOK
<1>2. \/ Begin(None) /\ parser' = moved
      \/ Begin(path) /\ parser' = ParseLine(ahead, FileLine(NewSide(path)))
  BY DEF RenamedFile
<1>3. Grows(parser, moved) /\ Grows(parser, ParseLine(ahead, FileLine(NewSide(path))))
  <2>1. Grows(parser, Preamble(parser))
    BY <1>1, StartGrows
  <2>2. Grows(parser, before)
    BY <2>1, GrowsOn, Lines
  <2> HIDE DEF before
  <2>3. Grows(parser, moved)
    BY <2>2, GrowsOn, Lines DEF Named
  <2> HIDE DEF moved
  <2>4. Grows(parser, ParseLine(moved, BodyLine("i")))
    BY <2>3, GrowsOn, Lines
  <2>5. Grows(parser, ahead)
    BY <2>4, GrowsOn, Lines
  <2> HIDE DEF ahead
  <2>6. QED
    BY <2>3, <2>5, GrowsOn, Lines DEF Named
<1>4. ASSUME broken = 0, BetweenHunks
      PROVE  /\ moved = renamed /\ Kept(parser, moved) /\ moved.files = parser.files \cup {path}
             /\ ahead = moved
             /\ ParseLine(ahead, FileLine(NewSide(path))) = Header(moved, FileLine(NewSide(path)))
  <2>1. before = parser
    <3>1. Preamble(parser) = parser /\ ParseLine(parser, BodyLine("r")) = Header(parser, BodyLine("r"))
      BY <1>4, OutOfBody
    <3>2. Header(parser, BodyLine("r")) = parser
      BY DEF Header, BodyLine
    <3>3. QED
      BY <3>1, <3>2
  <2>2. moved = renamed
    BY <1>4, <2>1, OutOfBody
  <2>3. Kept(parser, renamed) /\ renamed.files = parser.files \cup {path}
    BY <1>1, FileHeader
  <2> HIDE DEF before, moved, renamed
  <2>4. moved.old_remaining = 0 /\ moved.new_remaining = 0
    BY <1>4, <2>2, <2>3 DEF Kept, BetweenHunks, IInv, StepOK
  <2>5. \A l : ParseLine(moved, l) = Header(moved, l)
    BY <2>4 DEF ParseLine
  <2>6. \A f : Header(moved, BodyLine(f)) = moved
    BY DEF Header, BodyLine
  <2>7. ahead = moved
    BY <2>5, <2>6
  <2>8. QED
    BY <2>2, <2>3, <2>5, <2>7
<1> HIDE DEF before, ahead, renamed
<1>5. CASE Begin(None) /\ parser' = moved
  <2>1. broken = 0 => Kept(parser, parser') /\ parser'.files = parser.files \cup {path}
    BY <1>4, <1>5 DEF Begin
  <2> HIDE DEF moved
  <2>2. QED
    BY <1>1, <1>3, <1>5, <2>1, FileStep
<1> HIDE DEF moved
<1>6. CASE Begin(path) /\ parser' = ParseLine(ahead, FileLine(NewSide(path)))
  <2>1. ASSUME broken = 0
        PROVE  /\ Kept(parser, parser') /\ parser'.files = parser.files \cup {path}
               /\ parser'.current = path
    <3>1. /\ Kept(parser, moved) /\ moved.files = parser.files \cup {path}
          /\ parser' = Header(moved, FileLine(NewSide(path)))
      BY <1>4, <1>6, <2>1 DEF Begin
    <3>2. Kept(moved, parser') /\ parser'.files = moved.files \cup {path} /\ parser'.current = path
      BY <3>1, FileHeader DEF Kept
    <3>3. QED
      BY <3>1, <3>2 DEF Kept
  <2>2. QED
    BY <1>1, <1>3, <1>6, <2>1, FileStep
<1>7. QED
  BY <1>2, <1>5, <1>6

LEMMA DeletedStep ==
  ASSUME IInv, DeletedFile \/ DeletedBinary
  PROVE  IInv'
<1>1. /\ parser \in Parsers /\ changed' = changed /\ intact' = intact
      /\ intact \subseteq changed /\ changed \subseteq Paths /\ broken \in Nat
  BY DEF DeletedFile, DeletedBinary, IInv, StepOK, SectionOK
<1>2. PICK to \in {None, DevNull} :
        /\ Begin(to) /\ Grows(parser, parser')
        /\ broken = 0 =>
             /\ Kept(parser, parser') /\ parser.files \subseteq parser'.files
             /\ parser'.files \subseteq parser.files \cup {DevNull}
             /\ to # None => parser'.current = to
  <2>1. CASE DeletedFile
    <3>1. Begin(DevNull) /\ parser' = ParseLine(Started(parser), FileLine(DevNull))
      BY <2>1 DEF DeletedFile
    <3>2. Grows(parser, parser')
      BY <1>1, <3>1, StartGrows, GrowsOn, Lines
    <3>3. broken = 0 => parser' = Header(parser, FileLine(DevNull))
      BY <3>1, OutOfBody DEF Begin
    <3>4. QED
      BY <1>1, <3>1, <3>2, <3>3, NullHeader
  <2>2. CASE DeletedBinary
    <3>1. Begin(None) /\ parser' = ParseLine(Preamble(parser), BinaryLine(DevNull))
      BY <2>2 DEF DeletedBinary
    <3>2. Grows(parser, parser')
      BY <1>1, <3>1, StartGrows, GrowsOn, Lines
    <3>3. broken = 0 => parser' = Header(parser, BinaryLine(DevNull))
      BY <3>1, OutOfBody DEF Begin
    <3>4. QED
      BY <1>1, <3>1, <3>2, <3>3, NullHeader
  <2>3. QED
    BY <2>1, <2>2
<1>3. CASE broken = 0
  <2>1. changed' = changed \cup {} /\ intact' = intact \cup {} /\ {} \in SUBSET Paths
    BY <1>1
  <2>2. parser.files \cup {} \subseteq parser'.files
        /\ parser'.files \subseteq parser.files \cup {} \cup {DevNull}
    BY <1>2, <1>3
  <2>3. QED
    BY <1>2, <1>3, <2>1, <2>2, BeginPreserves
<1>4. CASE broken # 0
  <2>1. SectionOK' /\ section'.file = to
    BY <1>1, <1>2, BeginTypes
  <2>2. to \notin intact
    BY <1>1, NullStays DEF Registered, Named
  <2>3. /\ broken' > 0 /\ section.file \notin intact /\ added' = added
    BY <1>1, <1>2, <1>4 DEF IInv, StepOK, Begin
  <2>4. QED
    BY <1>1, <1>2, <2>1, <2>2, <2>3, Afterwards
<1>5. QED
  BY <1>3, <1>4

-----------------------------------------------------------------------------
(* The hunks. *)

LEMMA HunkStep ==
  ASSUME IInv, NEW start \in 1..LastLine, NEW old \in 0..MaxHunk, NEW new \in 0..MaxHunk,
         Hunk(start, old, new)
  PROVE  IInv'
<1>1. parser \in Parsers /\ section \in Sections /\ broken \in Nat
  BY DEF IInv, StepOK, SectionOK
<1>2. /\ BetweenHunks /\ section.file # None
      /\ start + new <= LastLine + 1
      /\ section' = [section EXCEPT !.old = old, !.new = new, !.next = start, !.text = TRUE]
      /\ parser' = ParseLine(parser, HunkLine(Written(old), start, Written(new)))
      /\ UNCHANGED <<added, changed, broken, intact>>
  BY DEF Hunk
<1>3. /\ section' \in Sections
      /\ section'.file = section.file /\ section'.old = old /\ section'.new = new
      /\ section'.next = start
  <2>1. old \in Nat /\ new \in Nat /\ start \in Nat
    OBVIOUS
  <2>2. [section EXCEPT !.old = old, !.new = new, !.next = start, !.text = TRUE] \in Sections
    BY ONLY <1>1, <2>1 DEF Sections
  <2>3. QED
    BY <1>1, <1>2, <2>2 DEF Sections
<1>4. SectionOK'
  BY <1>2, <1>3 DEF IInv, SectionOK
<1>5. CASE broken = 0
  <2>1. Count(Written(old)) = old /\ Count(Written(new)) = new
    BY DEF Count, Written, Omitted
  <2>2. parser' = [parser EXCEPT !.old_remaining = old, !.line_no = start, !.new_remaining = new]
    <3>1. parser' = Header(parser, HunkLine(Written(old), start, Written(new)))
      BY <1>2, <1>5, OutOfBody
    <3>2. QED
      BY <2>1, <3>1 DEF Header, HunkLine
  <2>3. old \in Int /\ new \in Int /\ start \in Int
    OBVIOUS
  <2>4. parser' \in Parsers
    <3>1. [parser EXCEPT !.old_remaining = old, !.line_no = start, !.new_remaining = new] \in Parsers
      BY ONLY <1>1, <2>3 DEF Parsers
    <3>2. QED
      BY <2>2, <3>1
  <2>5. /\ parser'.old_remaining = old /\ parser'.new_remaining = new /\ parser'.line_no = start
        /\ parser'.files = parser.files /\ parser'.ranges = parser.ranges
        /\ parser'.current = parser.current
    BY <1>1, <2>2 DEF Parsers
  <2>6. StepOK'
    BY <1>2, <1>3, <1>5, <2>4, <2>5 DEF IInv, StepOK
  <2>7. KnownOK'
    BY <1>2, <2>5 DEF IInv, KnownOK
  <2>8. QED
    BY <1>4, <2>6, <2>7 DEF IInv
<1>6. CASE broken # 0
  <2>1. Written(old) \in Int /\ start \in Int /\ Written(new) \in Int
    BY DEF Written, Omitted
  <2>2. Grows(parser, parser')
    BY <1>1, <1>2, <2>1, LineGrows, Lines
  <2>3. broken' > 0 /\ section.file \notin intact
    BY <1>1, <1>2, <1>6 DEF IInv, StepOK
  <2>4. QED
    BY <1>2, <1>3, <1>4, <2>2, <2>3, Afterwards
<1>7. QED
  BY <1>5, <1>6

LEMMA AddedStep ==
  ASSUME IInv, Added
  PROVE  IInv'
<1>1. section \in Sections
  BY DEF IInv, SectionOK
<1>2. /\ section.new > 0
      /\ section' = [section EXCEPT !.new = @ - 1, !.next = @ + 1, !.text = TRUE]
      /\ added' = added \cup {<<section.file, section.next>>}
      /\ UNCHANGED <<changed, broken, intact>>
  BY DEF Added
<1>3. OldLines("+") = 0 /\ NewLines("+") = 1
  BY DEF OldLines, NewLines
<1>4. PICK l : parser' = ParseLine(parser, l) /\ IsLine(l) /\ l.first = "+"
  <2>1. PICK l \in {BodyLine("+")} \cup {FileLine(NewSide(path)) : path \in Named} :
          parser' = ParseLine(parser, l)
    BY DEF Added
  <2>2. IsLine(l) /\ l.first = "+"
    BY Lines
  <2>3. QED
    BY <2>1, <2>2
<1>5. /\ section' \in Sections /\ section'.file = section.file
      /\ section'.old = section.old - 0 /\ section'.new = section.new - 1
      /\ section'.next = section.next + 1
      /\ section.old >= 0 /\ section.new >= 1
  <2>1. section.old \in Nat /\ section.new - 1 \in Nat /\ section.next + 1 \in Nat
    BY <1>1, <1>2 DEF Sections
  <2>2. [section EXCEPT !.new = section.new - 1, !.next = section.next + 1, !.text = TRUE] \in Sections
    BY ONLY <1>1, <2>1 DEF Sections
  <2>3. /\ section'.file = section.file /\ section'.old = section.old
        /\ section'.new = section.new - 1 /\ section'.next = section.next + 1
    BY <1>1, <1>2 DEF Sections
  <2>4. section' \in Sections
    BY <1>2, <2>2
  <2>5. section.old - 0 = section.old /\ section.old >= 0 /\ section.new >= 1
    BY <1>1, <1>2, <2>1 DEF Sections
  <2>6. QED
    BY <2>3, <2>4, <2>5
<1>6. QED
  BY <1>2, <1>3, <1>4, <1>5, BodyPreserves

LEMMA RemovedStep ==
  ASSUME IInv, Removed
  PROVE  IInv'
<1>1. section \in Sections
  BY DEF IInv, SectionOK
<1>2. /\ section.old > 0 /\ parser' = ParseLine(parser, BodyLine("-"))
      /\ section' = [section EXCEPT !.old = @ - 1, !.text = TRUE]
      /\ UNCHANGED <<added, changed, broken, intact>>
  BY DEF Removed
<1>3. OldLines("-") = 1 /\ NewLines("-") = 0
  BY DEF OldLines, NewLines
<1>4. /\ section' \in Sections /\ section'.file = section.file
      /\ section'.old = section.old - 1 /\ section'.new = section.new - 0
      /\ section'.next = section.next + 0
      /\ section.old >= 1 /\ section.new >= 0
  <2>1. section.old - 1 \in Nat
    BY <1>1, <1>2 DEF Sections
  <2>2. [section EXCEPT !.old = section.old - 1, !.text = TRUE] \in Sections
    BY ONLY <1>1, <2>1 DEF Sections
  <2>3. QED
    BY <1>1, <1>2, <2>2 DEF Sections
<1>5. QED
  BY <1>2, <1>3, <1>4, Lines, BodyPreserves

LEMMA ContextStep ==
  ASSUME IInv, Context
  PROVE  IInv'
<1>1. section \in Sections
  BY DEF IInv, SectionOK
<1>2. /\ section.old > 0 /\ section.new > 0 /\ parser' = ParseLine(parser, BodyLine("blank"))
      /\ section' = [section EXCEPT !.old = @ - 1, !.new = @ - 1, !.next = @ + 1, !.text = TRUE]
      /\ UNCHANGED <<added, changed, broken, intact>>
  BY DEF Context
<1>3. OldLines("blank") = 1 /\ NewLines("blank") = 1
  BY DEF OldLines, NewLines
<1>4. /\ section' \in Sections /\ section'.file = section.file
      /\ section'.old = section.old - 1 /\ section'.new = section.new - 1
      /\ section'.next = section.next + 1
      /\ section.old >= 1 /\ section.new >= 1
  <2>1. section.old \in Nat /\ section.new \in Nat /\ section.old - 1 \in Nat
        /\ section.new - 1 \in Nat /\ section.next + 1 \in Nat
    BY <1>1, <1>2 DEF Sections
  <2>2. [section EXCEPT !.old = section.old - 1, !.new = section.new - 1,
                        !.next = section.next + 1, !.text = TRUE] \in Sections
    BY ONLY <1>1, <2>1 DEF Sections
  <2>3. /\ section'.file = section.file /\ section'.old = section.old - 1
        /\ section'.new = section.new - 1 /\ section'.next = section.next + 1
    BY <1>1, <1>2 DEF Sections
  <2>4. QED
    BY <1>2, <2>1, <2>2, <2>3
<1>5. QED
  BY <1>2, <1>3, <1>4, Lines, BodyPreserves

(* The parser skips the marker in a body and ignores it elsewhere. *)
LEMMA NoNewlineStep ==
  ASSUME IInv, NoNewline
  PROVE  IInv'
<1>1. /\ parser' = ParseLine(parser, BodyLine("\\"))
      /\ section.file # None
      /\ section' = [section EXCEPT !.text = FALSE]
      /\ UNCHANGED <<added, changed, broken, intact>>
  BY DEF NoNewline
<1>2. InBody(parser, BodyLine("\\")) = parser
  BY DEF InBody, BodyLine, Marker
<1>3. Header(parser, BodyLine("\\")) = parser
  BY DEF Header, BodyLine
<1>4. parser' = parser
  BY <1>1, <1>2, <1>3 DEF ParseLine
<1>5. /\ section' \in Sections /\ section'.file = section.file /\ section'.old = section.old
      /\ section'.new = section.new /\ section'.next = section.next
  BY <1>1 DEF IInv, SectionOK, Sections
<1>6. QED
  BY <1>1, <1>4, <1>5 DEF IInv, SectionOK, StepOK, KnownOK

LEMMA RestStep ==
  ASSUME IInv, NEW l \in RestLines, Rest(l)
  PROVE  IInv'
<1>1. /\ parser \in Parsers /\ broken \in 0..Breaks
      /\ intact \subseteq changed
  BY DEF IInv, StepOK, SectionOK
<1>2. /\ broken < Breaks /\ broken' = broken + 1 /\ parser' = ParseLine(parser, l)
      /\ intact' = intact \ {section.file}
      /\ UNCHANGED <<section, added, changed>>
  BY DEF Rest
<1>3. IsLine(l)
  <2>1. \A n \in Claimed : n \in Int
    OBVIOUS
  <2>2. QED
    BY <2>1, Lines DEF RestLines
<1>4. SectionOK'
  BY <1>1, <1>2 DEF IInv, SectionOK, BetweenHunks
<1>5. Grows(parser, parser')
  BY <1>1, <1>2, <1>3, LineGrows
<1>6. broken' > 0
  BY <1>1, <1>2
<1>7. QED
  BY <1>2, <1>4, <1>5, <1>6, Afterwards

-----------------------------------------------------------------------------

LEMMA Start == DiffInit => IInv
<1> SUFFICES ASSUME DiffInit PROVE IInv
  OBVIOUS
<1>1. SectionOK
  BY DEF DiffInit, SectionOK, Sections, BetweenHunks
<1>2. StepOK
  BY DEF DiffInit, StepOK, Parsers, Anything
<1>3. KnownOK
  BY DEF DiffInit, KnownOK
<1>4. QED
  BY <1>1, <1>2, <1>3 DEF IInv

LEMMA Step == IInv /\ [DiffNext]_diffVars => IInv'
<1> SUFFICES ASSUME IInv, [DiffNext]_diffVars PROVE IInv'
  OBVIOUS
<1>1. ASSUME NEW path \in Paths, TextFile(path) PROVE IInv'
  BY <1>1, TextFileStep
<1>2. ASSUME NEW path \in Paths, BinaryFile(path) PROVE IInv'
  BY <1>2, BinaryFileStep
<1>3. ASSUME NEW path \in Paths, RenamedFile(path) PROVE IInv'
  BY <1>3, RenamedFileStep
<1>4. CASE DeletedFile \/ DeletedBinary
  BY <1>4, DeletedStep
<1>5. ASSUME NEW start \in 1..LastLine, NEW old \in 0..MaxHunk, NEW new \in 0..MaxHunk,
             Hunk(start, old, new)
      PROVE  IInv'
  BY <1>5, HunkStep
<1>6. CASE Added
  BY <1>6, AddedStep
<1>7. CASE Removed
  BY <1>7, RemovedStep
<1>8. CASE Context
  BY <1>8, ContextStep
<1>9. CASE NoNewline
  BY <1>9, NoNewlineStep
<1>10. ASSUME NEW l \in RestLines, Rest(l) PROVE IInv'
  BY <1>10, RestStep
<1>11. CASE UNCHANGED diffVars
  BY <1>11 DEF diffVars, IInv, SectionOK, StepOK, KnownOK, BetweenHunks
<1>12. QED
  BY <1>1, <1>2, <1>3, <1>4, <1>5, <1>6, <1>7, <1>8, <1>9, <1>10, <1>11 DEF DiffNext

LEMMA Inductive == DiffSpec => []IInv
<1>1. QED
  BY Start, Step, PTL DEF DiffSpec

(* Every state has its types, whatever the lines of the files say and      *)
(* wherever splitlines breaks them.                                        *)
THEOREM DiffTypeCorrect == DiffSpec => []DiffTypeOK
<1>1. ASSUME IInv PROVE DiffTypeOK
  <2>1. /\ section \in Sections /\ parser \in Parsers
        /\ section.old <= MaxHunk /\ section.new <= MaxHunk
        /\ broken \in 0..Breaks /\ intact \subseteq changed /\ changed \subseteq Paths
    BY <1>1 DEF IInv, SectionOK, StepOK
  <2>2. QED
    BY <2>1 DEF Sections, Parsers, Anything, Registered, DiffTypeOK
<1>2. QED
  BY <1>1, Inductive, PTL

(* As long as splitlines breaks no line, the hunk bookkeeping of           *)
(* parse_diff is in step with the diff, for any number of files and lines. *)
THEOREM BookkeepingInStep == DiffSpec => []InStep
<1>1. IInv => InStep
  BY DEF IInv, StepOK, InStep
<1>2. QED
  BY <1>1, Inductive, PTL

(* As long as splitlines breaks no line, one that only looks like the      *)
(* header of a file never registers one.                                   *)
THEOREM TextNamesNoFile == DiffSpec => []NoPhantom
<1>1. IInv => NoPhantom
  BY DEF IInv, KnownOK, NoPhantom
<1>2. QED
  BY <1>1, Inductive, PTL

(* What validate_findings says of a line of a file is right until a line   *)
(* is broken; after that, however many are broken and whatever their rests *)
(* read as, no claim about an added line of a file before the first is     *)
(* dropped or annotated.                                                   *)
THEOREM ClaimsGrounded == DiffSpec => []JudgedByTheDiff
<1>1. ASSUME IInv PROVE JudgedByTheDiff
  <2> SUFFICES ASSUME NEW path \in intact, NEW line \in 1..LastLine
               PROVE  LET verdict == Verdict(path, line)
                          near == Near({n \in 1..LastLine : <<path, n>> \in added}, line)
                      IN /\ near => verdict = "kept"
                         /\ ~near => verdict \in IF broken = 0 THEN {"annotated"}
                                                ELSE {"annotated", "kept"}
    BY DEF JudgedByTheDiff
  <2> DEFINE lines == {n \in 0..(LastLine + 1) : <<path, n>> \in parser.ranges}
             really == {n \in 1..LastLine : <<path, n>> \in added}
  <2>1. path \in Paths /\ path \in parser.files
    BY <1>1 DEF IInv, SectionOK, KnownOK
  <2>2. Verdict(path, line) = IF Near(lines, line) THEN "kept" ELSE "annotated"
    BY <2>1 DEF Verdict
  <2>3. really \subseteq lines
    BY <1>1, <2>1 DEF IInv, KnownOK
  <2>4. broken = 0 => lines = really
    <3>1. \A n : <<path, n>> \in added => n \in 1..LastLine
      BY <1>1 DEF IInv, SectionOK
    <3>2. broken = 0 => \A n \in Int : <<path, n>> \in parser.ranges <=> <<path, n>> \in added
      BY <1>1, <2>1 DEF IInv, KnownOK
    <3>3. QED
      BY <3>1, <3>2
  <2> HIDE DEF lines
  <2>5. Near(really, line) => Near(lines, line)
    BY <2>3 DEF Near
  <2>6. QED
    BY <2>2, <2>4, <2>5
<1>2. QED
  BY <1>1, Inductive, PTL
==============================================================================
