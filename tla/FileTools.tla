----------------------------- MODULE FileTools -----------------------------
(***************************************************************************)
(* The text that a model is shown and the text that it changes: read_tool  *)
(* shows a file a page at a time, truncate keeps the end of a command's    *)
(* output, edit_tool replaces pieces of a file by exact match.  A text is  *)
(* a sequence of characters; some take two bytes.  A file tool runs in one *)
(* piece of the kernel's event loop, so each is one step.  The byte order  *)
(* mark that edit_tool strips and restores is left out.                    *)
(***************************************************************************)
EXTENDS Naturals, SequencesExt, FiniteSetsExt

CONSTANTS Chars,        \* the characters
          LF, CR,       \* line feed, carriage return
          Wide,         \* characters of two bytes
          FileTexts,    \* bound: the files there can be
          Edits,        \* bound: records [old, new]
          MaxEdits,     \* bound: the edits of one call
          Limits,       \* bound: the `limit` of a read call
          MaxLines, MaxBytes

ASSUME FileToolsAssumption ==
    /\ MaxLines \in Nat \ {0} /\ MaxBytes \in Nat \ {0} /\ MaxEdits \in Nat
    /\ Limits \subseteq Nat \ {0}
    /\ {LF, CR} \subseteq Chars \ Wide /\ LF # CR
    /\ FileTexts \subseteq Seq(Chars) /\ Edits \subseteq [old : Seq(Chars), new : Seq(Chars)]

VARIABLES
    file,       \* the file's text
    before,     \* history: its text when the call came
    tool,       \* which tool has answered
    edits,      \* what an edit call asked
    taken,      \* the edit was accepted
    shown,      \* what the model has been shown
    offset      \* the next offset that the model is told to read at; 0 is none

fileVars == <<file, before, tool, edits, taken, shown, offset>>

FileToolsTypeOK ==
    /\ before \in FileTexts /\ tool \in {"none", "edit", "read", "tail"}
    /\ \A i \in DOMAIN edits : edits[i] \in Edits
    /\ taken \in BOOLEAN /\ offset \in 0..(Len(file) + 1) /\ (taken => tool = "edit")

FileToolsInit ==
    /\ file \in FileTexts /\ before = file /\ tool = "none" /\ edits = << >> /\ taken = FALSE
    /\ shown = << >> /\ offset = 1

-----------------------------------------------------------------------------
(* Lines and bytes.                                                        *)
MatchesAt(text, piece, i) ==
    i + Len(piece) <= Len(text) + 1 /\ \A k \in 1..Len(piece) : text[i + k - 1] = piece[k]

\* str.replace("\r\n", "\n").replace("\r", "\n")
NormalizeToLf(text) ==
    FlattenSeq([i \in 1..Len(text) |->
        IF MatchesAt(text, <<CR, LF>>, i) THEN << >>
        ELSE IF text[i] = CR THEN <<LF>> ELSE <<text[i]>>])

Join(lines) == FlattenSeq([i \in 1..Len(lines) |-> IF i = 1 THEN lines[i] ELSE <<LF>> \o lines[i]])

\* str.split("\n"): one line more than there are line feeds.
Lines(text) ==
    LET split[i \in 0..Len(text)] ==
            IF i = 0 THEN << << >> >>
            ELSE IF text[i] = LF THEN Append(split[i - 1], << >>)
            ELSE Append(Front(split[i - 1]), Append(Last(split[i - 1]), text[i]))
    IN  split[Len(text)]

CountedLines(text) ==
    IF text = << >> THEN << >> ELSE IF Last(text) = LF THEN Front(Lines(text)) ELSE Lines(text)

Bytes(text) == Len(text) + Cardinality({i \in 1..Len(text) : text[i] \in Wide})
Fits(text) == Len(CountedLines(text)) <= MaxLines /\ Bytes(text) <= MaxBytes

-----------------------------------------------------------------------------
(* truncate_head and truncate_tail: whole lines, as many as both limits    *)
(* leave room for.                                                         *)
LineBytes(lines, i, first) == Bytes(lines[i]) + (IF i = first THEN 0 ELSE 1)

\* The bytes of the first i lines.
HeadBytes(lines) ==
    LET took[i \in 0..Len(lines)] == IF i = 0 THEN 0 ELSE took[i - 1] + LineBytes(lines, i, 1)
    IN  took

\* How many lines the loop takes, forwards, until one does not fit.
HeadCount(lines) ==
    Max({i \in 0..Len(lines) : i <= MaxLines /\ HeadBytes(lines)[i] <= MaxBytes})

TruncateHead(text) == Join(SubSeq(CountedLines(text), 1, HeadCount(CountedLines(text))))

\* The loop of truncate_tail, from the last line: a line costs a byte more for
\* its newline, but for the first one taken.
TailLine(lines, i) == LineBytes(lines, i, Len(lines))

\* The bytes of the last n lines.
TailBytes(lines) ==
    LET took[n \in 0..Len(lines)] ==
            IF n = 0 THEN 0 ELSE took[n - 1] + TailLine(lines, Len(lines) + 1 - n)
    IN  took

TailCount(lines) ==
    Max({n \in 0..Len(lines) : n <= MaxLines /\ TailBytes(lines)[n] <= MaxBytes})

\* The last line's end, when that line alone is too long: MaxBytes bytes, less
\* those that continue a character which began before.
Encode(text) == FlattenSeq([i \in 1..Len(text) |->
    IF text[i] \in Wide THEN <<[of |-> i, lead |-> TRUE], [of |-> i, lead |-> FALSE]>>
    ELSE <<[of |-> i, lead |-> TRUE]>>])
EndOf(line) ==
    LET buf == Encode(line)
        kept == {k \in (Len(buf) - MaxBytes + 1)..Len(buf) : buf[k].lead}
    IN  IF kept = {} THEN << >> ELSE SubSeq(line, buf[Min(kept)].of, Len(line))

TruncateTail(text) ==
    LET lines == CountedLines(text)
        count == TailCount(lines)
    IN  IF Fits(text) THEN text
        ELSE IF count = 0 THEN EndOf(Last(lines))
        ELSE Join(SubSeq(lines, Len(lines) - count + 1, Len(lines)))

-----------------------------------------------------------------------------
(* read_tool.run.  The file is opened in text mode, so every line ending   *)
(* is read as a line feed.                                                 *)
Readable == NormalizeToLf(file)
FileLines == Lines(Readable)
Selected(limit) == Join(SubSeq(FileLines, offset, Min({offset + limit - 1, Len(FileLines)})))

\* Mutant of NextOffset: the last line shown is counted twice.
NextOffByOne(limit) ==
    IF ~Fits(Selected(limit)) THEN offset + HeadCount(CountedLines(Selected(limit))) - 1
    ELSE IF offset + limit - 1 < Len(FileLines) THEN offset + limit ELSE 0
\* Mutant of NextOffset: a footer after the last page too.
NextAlways(limit) == offset + limit
\* The offset in the footer: after the lines shown, whichever limit cut them.
NextOffset(limit) ==
    IF ~Fits(Selected(limit)) THEN offset + HeadCount(CountedLines(Selected(limit)))
    ELSE IF offset + limit - 1 < Len(FileLines) THEN offset + limit ELSE 0

TooLong(limit) == ~Fits(Selected(limit)) /\ Bytes(Head(CountedLines(Selected(limit)))) > MaxBytes
Page(limit) == IF Fits(Selected(limit)) THEN Selected(limit) ELSE TruncateHead(Selected(limit))
Shows(page) == shown' = IF offset = 1 THEN page ELSE shown \o <<LF>> \o page

\* A call, and the next one at the offset that the footer of this one names.
ReadsPage(limit) ==
    /\ tool \in {"none", "read"} /\ offset # 0 /\ offset <= Len(FileLines) /\ ~TooLong(limit)
    /\ Shows(Page(limit)) /\ offset' = NextOffset(limit) /\ tool' = "read"
    /\ UNCHANGED <<file, before, edits, taken>>

\* sed -n 'np' | head -c MaxBytes: sed counts the line feeds of the file itself, and
\* head cuts; of a character that it cuts in two, nothing readable is left.
Beginning(line) ==
    SubSeq(line, 1, Max({i \in 0..Len(line) : Bytes(SubSeq(line, 1, i)) <= MaxBytes}))
SedPrints(n) == IF n <= Len(Lines(file)) THEN Beginning(Lines(file)[n]) ELSE << >>

\* A line over the byte limit is not shown: the model is told to print it with
\* that command.  It does, and goes on with the next line by itself.
ReadsWithSed(limit) ==
    /\ tool \in {"none", "read"} /\ offset # 0 /\ offset <= Len(FileLines) /\ TooLong(limit)
    /\ Shows(SedPrints(offset)) /\ offset' = (IF offset < Len(FileLines) THEN offset + 1 ELSE 0)
    /\ tool' = "read" /\ UNCHANGED <<file, before, edits, taken>>

\* cap_tail_for_model, of a command that prints the file.
ShowsOutput ==
    /\ tool = "none" /\ tool' = "tail" /\ shown' = TruncateTail(file)
    /\ UNCHANGED <<file, before, edits, taken, offset>>

-----------------------------------------------------------------------------
(* edit_tool.run.                                                          *)
DetectLineEnding(text) ==
    LET crlf == {i \in 1..Len(text) : MatchesAt(text, <<CR, LF>>, i)}
        lf == {i \in 1..Len(text) : text[i] = LF}
    IN  IF crlf # {} /\ Min(crlf) < Min(lf) THEN <<CR, LF>> ELSE <<LF>>

RestoreLineEndings(text, ending) ==
    FlattenSeq([i \in 1..Len(text) |-> IF text[i] = LF THEN ending ELSE <<text[i]>>])

\* str.count: occurrences that do not overlap, from the left.
Count(text, piece) ==
    LET from[i \in 1..(Len(text) + Len(piece) + 1)] ==
            IF i + Len(piece) > Len(text) + 1 THEN 0
            ELSE IF MatchesAt(text, piece, i) THEN 1 + from[i + Len(piece)] ELSE from[i + 1]
    IN  from[1]
Index(text, piece) == Min({i \in 1..Len(text) : MatchesAt(text, piece, i)})

Normal(edit) == [old |-> NormalizeToLf(edit.old), new |-> NormalizeToLf(edit.new)]
Region(text, edit) == [at |-> Index(text, edit.old), size |-> Len(edit.old), new |-> edit.new]

\* list.sort is stable: regions at one place stay in the order of their edits.
Before(regions, i, j) ==
    regions[i].at < regions[j].at \/ (regions[i].at = regions[j].at /\ i < j)
Rank(regions, i) == 1 + Cardinality({j \in DOMAIN regions : Before(regions, j, i)})
InOrder(regions) ==
    [n \in DOMAIN regions |-> regions[CHOOSE i \in DOMAIN regions : Rank(regions, i) = n]]

NeverApart(regions) == TRUE      \* Mutant of Apart: overlapping edits are not refused.
Apart(regions) == \A i \in 2..Len(regions) : regions[i - 1].at + regions[i - 1].size <= regions[i].at

\* The splices, from the last region to the first, so that offsets stay valid.
Splice(text, r) == SubSeq(text, 1, r.at - 1) \o r.new \o SubSeq(text, r.at + r.size, Len(text))
ApplyEdits(text, regions) ==
    LET spliced[n \in 0..Len(regions)] ==
            IF n = 0 THEN text ELSE Splice(spliced[n - 1], regions[Len(regions) + 1 - n])
    IN  spliced[Len(regions)]

Matched(text, es) == \A i \in DOMAIN es : es[i].old # << >> /\ Count(text, es[i].old) = 1
Accepted(text, es) ==
    /\ Matched(text, es)
    /\ LET regions == InOrder([i \in DOMAIN es |-> Region(text, es[i])])
       IN  Apart(regions) /\ ApplyEdits(text, regions) # text
Edited(text, es) == ApplyEdits(text, InOrder([i \in DOMAIN es |-> Region(text, es[i])]))

EditsFile(es) ==
    LET normal == [i \in DOMAIN es |-> Normal(es[i])]
    IN  /\ tool = "none" /\ tool' = "edit" /\ edits' = es
        /\ taken' = Accepted(NormalizeToLf(file), normal)
        /\ file' = IF Accepted(NormalizeToLf(file), normal)
                   THEN RestoreLineEndings(Edited(NormalizeToLf(file), normal), DetectLineEnding(file))
                   ELSE file
        /\ UNCHANGED <<before, shown, offset>>

FileToolsNext ==
    \/ \E limit \in Limits : ReadsPage(limit) \/ ReadsWithSed(limit)
    \/ ShowsOutput
    \/ \E n \in 1..MaxEdits : \E es \in [1..n -> Edits] : EditsFile(es)

FileToolsSpec == FileToolsInit /\ [][FileToolsNext]_fileVars

-----------------------------------------------------------------------------
\* A model that follows the footers has seen every line that the byte limit has
\* room for, whole, once, in its place, whatever limits it asks for and whichever
\* of the two limits cut each page; and no footer sends it past the file's last
\* line.  In the place of a longer line it has what the command of its notice
\* prints, and no more: MaxBytes of it at most (read_tool.py:90-140).
ShownLines == [n \in 1..Len(FileLines) |->
    IF Bytes(FileLines[n]) <= MaxBytes THEN FileLines[n] ELSE SedPrints(n)]
ReadsAll ==
    tool = "read" =>
        IF offset = 0 THEN shown = Join(ShownLines)
        ELSE offset <= Len(FileLines) /\ shown = Join(SubSeq(ShownLines, 1, offset - 1))

\* What is kept of an output is the longest run of its last lines that fits both
\* limits; where the last line alone is too long, the longest end of it that fits
\* (truncate.py:123-182).
TailIsLongest ==
    tool = "tail" =>
        LET lines == CountedLines(file)
            ends == {Join(SubSeq(lines, i, Len(lines))) : i \in
                        {j \in 1..Len(lines) : j + MaxLines > Len(lines)}}
            good == {t \in ends : Bytes(t) <= MaxBytes}
            line == Last(lines)
            parts == {SubSeq(line, i, Len(line)) : i \in 1..(Len(line) + 1)}
            Longest(ts) == CHOOSE t \in ts : \A u \in ts : Len(u) <= Len(t)
        IN  shown = IF Fits(file) THEN file
                    ELSE IF good # {} THEN Longest(good)
                    ELSE Longest({t \in parts : Bytes(t) <= MaxBytes})

\* What the model is shown of a text is what it is told it is shown: a page is
\* followed by the line that the footer names, and an output is cut as little as
\* the two limits allow (read_tool.py:90-140, truncate.py:123-182).
ShownRight == ReadsAll /\ TailIsLongest

\* An accepted call rewrites disjoint regions of the text it was matched
\* against, one for each edit, and leaves every other character in its place
\* (edit_tool.py:132-190).
Rewritten(text, es, off) ==
    FlattenSeq([p \in 1..Len(text) |->
        IF \E i \in DOMAIN es : off[i] = p THEN es[CHOOSE i \in DOMAIN es : off[i] = p].new
        ELSE IF \E i \in DOMAIN es : p \in off[i]..(off[i] + Len(es[i].old) - 1) THEN << >>
        ELSE <<text[p]>>])
EditedExactly ==
    taken =>
        LET text == NormalizeToLf(before)
            es == [i \in DOMAIN edits |-> Normal(edits[i])]
            Apply(off, i) == off[i]..(off[i] + Len(es[i].old) - 1)
        IN  \E off \in [DOMAIN es -> 1..Len(text)] :
                /\ \A i \in DOMAIN es : MatchesAt(text, es[i].old, off[i])
                /\ \A i, j \in DOMAIN es : i # j => Apply(off, i) \cap Apply(off, j) = {}
                /\ NormalizeToLf(file) = Rewritten(text, es, off)

\* "Line N is ..., exceeds ...: sed -n 'Np'" (read_tool.py:113-116): the command
\* prints the beginning of the line that the notice is about.
SedShowsLine ==
    \A n \in DOMAIN FileLines :
        Bytes(FileLines[n]) > MaxBytes => SedPrints(n) = Beginning(FileLines[n])

\* "Every edits[].oldText ... must be unique" (edit_tool.py:3-4): one place only
\* where it matches.
OldTextUnique ==
    taken => \A i \in DOMAIN edits :
        Cardinality({p \in 1..Len(NormalizeToLf(before)) :
            MatchesAt(NormalizeToLf(before), NormalizeToLf(edits[i].old), p)}) = 1

\* "BOM and CRLF are stripped/normalized before matching and restored on write"
\* (edit_tool.py:6-7): an edit that is about no line ending changes none.
EndingsRestored ==
    taken /\ (\A i \in DOMAIN edits : \A c \in {LF, CR} :
                 c \notin Range(edits[i].old) /\ c \notin Range(edits[i].new)) =>
        LET Endings(t) == SelectSeq(t, LAMBDA c : c \in {LF, CR})
        IN  Endings(file) = Endings(before)
=============================================================================
