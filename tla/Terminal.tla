------------------------------ MODULE Terminal ------------------------------
(***************************************************************************)
(* The terminal emulator in which the user interface shows an attached pty *)
(* session (src/internal/tui/attachterm/model.go).  The parser hands it    *)
(* one control function at a time; each action is one control function.    *)
(* A cell is blank, a glyph of one or two columns in some style, or the    *)
(* second column of a wide glyph.                                          *)
(***************************************************************************)
EXTENDS Integers

CONSTANTS
    Widths, Heights,  \* sizes the window may be given
    Counts,           \* the numeric parameters a program sends
    Styles,           \* the renditions that SGR selects
    PlainStyle,
    MaxPrints,        \* bound on the glyphs and tabs of a run
    MaxResizes        \* bound on the changes of size of a run

ASSUME TerminalAssumption ==
    /\ Widths \subseteq Nat /\ Widths # {}
    /\ Heights \subseteq Nat /\ Heights # {}
    /\ Counts \subseteq Nat
    /\ PlainStyle \in Styles
    /\ MaxPrints \in Nat /\ MaxResizes \in Nat

VARIABLES
    width, height,
    primary, alt, useAlt,     \* the two screen buffers and which is active
    cursorX, cursorY,         \* cursorX = width: the next glyph wraps
    savedX, savedY,           \* one saved position for both buffers
    scrollTop, scrollBottom,  \* the scroll region
    style,
    prints, resizes           \* what has been used of the bounds

screenVars == <<primary, alt, useAlt>>
cursorVars == <<cursorX, cursorY>>
savedVars == <<savedX, savedY>>
marginVars == <<scrollTop, scrollBottom>>
sizeVars == <<width, height, resizes>>
termVars == <<screenVars, cursorVars, savedVars, marginVars, sizeVars,
              style, prints>>

TabWidth == 8

Blank == [kind |-> "blank"]
Tail == [kind |-> "tail"]
Glyph(s, columns) ==
    [kind |-> IF columns = 2 THEN "wide" ELSE "narrow", style |-> s]
Cells == {Blank, Tail} \union [kind : {"narrow", "wide"}, style : Styles]

AtLeastOne(n) == IF n > 1 THEN n ELSE 1
Lesser(a, b) == IF a < b THEN a ELSE b
Clamp(v, low, high) == IF v < low THEN low ELSE IF v > high THEN high ELSE v

Rows == 0 .. height - 1
Columns == 0 .. width - 1
BlankRow == [x \in Columns |-> Blank]
BlankScreen(w, h) == [y \in 0 .. h - 1 |-> [x \in 0 .. w - 1 |-> Blank]]
Screens(w, h) == [0 .. h - 1 -> [0 .. w - 1 -> Cells]]

(***************************************************************************)
(* The screen buffer of the library.  A row whose columns a to b are       *)
(* overwritten loses the other half of a wide glyph cut at either edge.    *)
(***************************************************************************)
Overwrite(row, a, b, new) ==
    [x \in DOMAIN row |->
        IF x \in a .. b THEN new[x]
        ELSE IF \/ a <= b /\ x = a - 1 /\ row[x].kind = "wide" /\ row[a] = Tail
                \/ a <= b /\ x = b + 1 /\ row[x] = Tail /\ row[b].kind = "wide"
        THEN Blank ELSE row[x]]

EraseColumns(row, a, b) == Overwrite(row, a, b, [x \in a .. b |-> Blank])

\* InsertLineArea and DeleteLineArea: n lines at y, within the lines lo to hi.
InsertLineArea(screen, y, n, lo, hi) ==
    [r \in DOMAIN screen |->
        IF y \notin lo .. hi \/ r \notin y .. hi THEN screen[r]
        ELSE IF r - n >= y THEN screen[r - n] ELSE BlankRow]

DeleteLineArea(screen, y, n, lo, hi) ==
    [r \in DOMAIN screen |->
        IF y \notin lo .. hi \/ r \notin y .. hi THEN screen[r]
        ELSE IF r + n <= hi THEN screen[r + n] ELSE BlankRow]

InsertCells(row, x, n) ==
    [c \in DOMAIN row |-> IF c < x THEN row[c]
                          ELSE IF c - n >= x THEN row[c - n] ELSE Blank]

DeleteCells(row, x, n) ==
    [c \in DOMAIN row |-> IF c < x THEN row[c]
                          ELSE IF c + n < width THEN row[c + n] ELSE Blank]

ResizedScreen(screen, w, h) ==
    [y \in 0 .. h - 1 |-> [x \in 0 .. w - 1 |->
        IF y \in Rows /\ x \in Columns THEN screen[y][x] ELSE Blank]]

(***************************************************************************)
(* The parts the control functions share.                                  *)
(***************************************************************************)
TermInit ==
    /\ \E w \in Widths, h \in Heights :
        /\ width = AtLeastOne(w)
        /\ height = AtLeastOne(h)
    /\ primary = BlankScreen(width, height)
    /\ alt = BlankScreen(width, height)
    /\ useAlt = FALSE
    /\ cursorX = 0 /\ cursorY = 0
    /\ savedX = 0 /\ savedY = 0
    /\ scrollTop = 0 /\ scrollBottom = height - 1
    /\ style = PlainStyle
    /\ prints = 0 /\ resizes = 0

Active == IF useAlt THEN alt ELSE primary

Draw(screen) ==
    /\ primary' = IF useAlt THEN primary ELSE screen
    /\ alt' = IF useAlt THEN screen ELSE alt
    /\ UNCHANGED useAlt

DrawRow(row) == Draw([Active EXCEPT ![cursorY] = row])

MoveCursor(x, y) ==
    /\ cursorX' = Clamp(x, 0, width - 1)
    /\ cursorY' = Clamp(y, 0, height - 1)

\* A seeded fault: the last line of the screen for that of the region.
IndexedLineScreen ==
    IF cursorY = height - 1 THEN cursorY
    ELSE Clamp(cursorY + 1, 0, height - 1)

\* Where a line feed leaves the cursor's line and the screen.  Only a cursor
\* that stands on the last line of the region scrolls it.
IndexedLine ==
    IF cursorY = scrollBottom THEN cursorY
    ELSE Clamp(cursorY + 1, 0, height - 1)

IndexedScreen ==
    IF cursorY = scrollBottom
    THEN DeleteLineArea(Active, scrollTop, 1, scrollTop, scrollBottom)
    ELSE Active

FullMargins == scrollTop' = 0 /\ scrollBottom' = height - 1
SaveCursor == savedX' = cursorX /\ savedY' = cursorY

(***************************************************************************)
(* Text and C0 controls.                                                   *)
(***************************************************************************)

\* printRune: wraps when the cursor is past the last column or the glyph does
\* not fit, drops a glyph wider than the screen (after the first wrap).
PrintRune(columns) ==
    LET wraps == cursorX >= width \/ (columns <= width /\ cursorX + columns > width)
        x == IF wraps THEN 0 ELSE cursorX
        y == IF wraps THEN IndexedLine ELSE cursorY
        screen == IF wraps THEN IndexedScreen ELSE Active
        glyph == [c \in x .. x + columns - 1 |->
                    IF c = x THEN Glyph(style, columns) ELSE Tail]
    IN  /\ prints < MaxPrints
        /\ prints' = prints + 1
        /\ cursorY' = y
        /\ IF columns > width
           THEN cursorX' = x /\ Draw(screen)
           ELSE /\ cursorX' = Lesser(x + columns, width)
                /\ Draw([screen EXCEPT
                           ![y] = Overwrite(@, x, x + columns - 1, glyph)])
        /\ UNCHANGED <<savedVars, marginVars, sizeVars, style>>

Backspace ==
    /\ cursorX > 0
    /\ cursorX' = cursorX - 1
    /\ UNCHANGED <<screenVars, cursorY, savedVars, marginVars, sizeVars,
                   style, prints>>

\* A tab prints spaces up to the next stop or the end of the line.
TabStop ==
    LET stop == Lesser((cursorX \div TabWidth + 1) * TabWidth, width)
    IN  /\ cursorX < stop
        /\ prints < MaxPrints
        /\ prints' = prints + 1
        /\ cursorX' = stop
        /\ DrawRow(Overwrite(Active[cursorY], cursorX, stop - 1,
                             [x \in cursorX .. stop - 1 |-> Glyph(style, 1)]))
        /\ UNCHANGED <<cursorY, savedVars, marginVars, sizeVars, style>>

CarriageReturn ==
    /\ cursorX' = 0
    /\ UNCHANGED <<screenVars, cursorY, savedVars, marginVars, sizeVars,
                   style, prints>>

\* newLine, and ESC E: both go to the first column.
NewLine ==
    /\ cursorX' = 0
    /\ cursorY' = IndexedLine
    /\ Draw(IndexedScreen)
    /\ UNCHANGED <<savedVars, marginVars, sizeVars, style, prints>>

(***************************************************************************)
(* Escape sequences.                                                       *)
(***************************************************************************)
Index ==
    /\ cursorY' = IndexedLine
    /\ Draw(IndexedScreen)
    /\ UNCHANGED <<cursorX, savedVars, marginVars, sizeVars, style, prints>>

ReverseIndex ==
    /\ IF cursorY = scrollTop
       THEN /\ Draw(InsertLineArea(Active, scrollTop, 1, scrollTop, scrollBottom))
            /\ UNCHANGED cursorY
       ELSE /\ cursorY' = Clamp(cursorY - 1, 0, height - 1)
            /\ UNCHANGED screenVars
    /\ UNCHANGED <<cursorX, savedVars, marginVars, sizeVars, style, prints>>

Save ==
    /\ SaveCursor
    /\ UNCHANGED <<screenVars, cursorVars, marginVars, sizeVars, style, prints>>

Restore ==
    /\ MoveCursor(savedX, savedY)
    /\ UNCHANGED <<screenVars, savedVars, marginVars, sizeVars, style, prints>>

Reset ==
    /\ primary' = BlankScreen(width, height)
    /\ alt' = BlankScreen(width, height)
    /\ useAlt' = FALSE
    /\ cursorX' = 0 /\ cursorY' = 0
    /\ savedX' = 0 /\ savedY' = 0
    /\ FullMargins
    /\ style' = PlainStyle
    /\ UNCHANGED <<sizeVars, prints>>

(***************************************************************************)
(* Control sequences (handleCsi).                                          *)
(***************************************************************************)

\* A, B: lines; E, F: lines, to the first column; C, D: columns.
MoveLines(n) ==
    /\ cursorY' \in {Clamp(cursorY - n, 0, height - 1),
                     Clamp(cursorY + n, 0, height - 1)}
    /\ cursorX' \in {cursorX, 0}
    /\ UNCHANGED <<screenVars, savedVars, marginVars, sizeVars, style, prints>>

MoveColumns(n) ==
    /\ cursorX' \in {Clamp(cursorX - n, 0, width - 1),
                     Clamp(cursorX + n, 0, width - 1)}
    /\ UNCHANGED <<screenVars, cursorY, savedVars, marginVars, sizeVars,
                   style, prints>>

\* G gives a column, H and f a line and a column, counted from 1.
ToColumn(n) ==
    /\ cursorX' = Clamp(n - 1, 0, width - 1)
    /\ UNCHANGED <<screenVars, cursorY, savedVars, marginVars, sizeVars,
                   style, prints>>

ToPosition(row, column) ==
    /\ MoveCursor(column - 1, row - 1)
    /\ UNCHANGED <<screenVars, savedVars, marginVars, sizeVars, style, prints>>

\* J: from the cursor, to the cursor, or everything, which homes the cursor.
EraseDisplay(mode) ==
    /\ IF mode \in {2, 3}
       THEN MoveCursor(0, 0) /\ Draw(BlankScreen(width, height))
       ELSE /\ UNCHANGED cursorVars
            /\ Draw([y \in Rows |->
                 IF y = cursorY
                 THEN IF mode = 1
                      THEN EraseColumns(Active[y], 0, Lesser(cursorX, width - 1))
                      ELSE EraseColumns(Active[y], cursorX, width - 1)
                 ELSE IF (y < cursorY) = (mode = 1)
                 THEN BlankRow ELSE Active[y]])
    /\ UNCHANGED <<savedVars, marginVars, sizeVars, style, prints>>

EraseLine(mode) ==
    /\ DrawRow(EraseColumns(Active[cursorY],
                            IF mode \in {1, 2} THEN 0 ELSE cursorX,
                            IF mode = 1 THEN Lesser(cursorX, width - 1)
                                        ELSE width - 1))
    /\ UNCHANGED <<cursorVars, savedVars, marginVars, sizeVars, style, prints>>

EraseCharacters(n) ==
    /\ DrawRow(EraseColumns(Active[cursorY], cursorX,
                            Lesser(width, cursorX + AtLeastOne(n)) - 1))
    /\ UNCHANGED <<cursorVars, savedVars, marginVars, sizeVars, style, prints>>

\* L and M work at the cursor and only inside the scroll region; S and T on the
\* whole region, one line at least.
EditLines(n) ==
    /\ \/ Draw(InsertLineArea(Active, cursorY, n, scrollTop, scrollBottom))
       \/ Draw(DeleteLineArea(Active, cursorY, n, scrollTop, scrollBottom))
    /\ UNCHANGED <<cursorVars, savedVars, marginVars, sizeVars, style, prints>>

ScrollRegion(n) ==
    LET count == AtLeastOne(n)
    IN  /\ \/ Draw(DeleteLineArea(Active, scrollTop, count, scrollTop, scrollBottom))
           \/ Draw(InsertLineArea(Active, scrollTop, count, scrollTop, scrollBottom))
        /\ UNCHANGED <<cursorVars, savedVars, marginVars, sizeVars, style, prints>>

\* @ and P.
EditCells(n) ==
    /\ \/ DrawRow(InsertCells(Active[cursorY], cursorX, n))
       \/ DrawRow(DeleteCells(Active[cursorY], cursorX, n))
    /\ UNCHANGED <<cursorVars, savedVars, marginVars, sizeVars, style, prints>>

SelectStyle(s) ==
    /\ style' = s
    /\ UNCHANGED <<screenVars, cursorVars, savedVars, marginVars, sizeVars, prints>>

\* r: a region that does not fit gives the whole screen back and leaves the
\* cursor, one that fits homes it.
SetMargins(top, bottom) ==
    /\ IF top < 1 \/ bottom < top \/ bottom > height
       THEN FullMargins /\ UNCHANGED cursorVars
       ELSE /\ scrollTop' = top - 1
            /\ scrollBottom' = bottom - 1
            /\ MoveCursor(0, 0)
    /\ UNCHANGED <<screenVars, savedVars, sizeVars, style, prints>>

\* A seeded fault: the screen is cleared before the buffers are switched.
EnterAltScreenClearsFirst ==
    /\ ~useAlt
    /\ SaveCursor
    /\ useAlt' = TRUE
    /\ primary' = BlankScreen(width, height)
    /\ cursorX' = 0 /\ cursorY' = 0
    /\ FullMargins
    /\ UNCHANGED <<alt, sizeVars, style, prints>>

EnterAltScreen ==
    /\ ~useAlt
    /\ SaveCursor
    /\ useAlt' = TRUE
    /\ alt' = BlankScreen(width, height)
    /\ cursorX' = 0 /\ cursorY' = 0
    /\ FullMargins
    /\ UNCHANGED <<primary, sizeVars, style, prints>>

LeaveAltScreen ==
    /\ useAlt
    /\ useAlt' = FALSE
    /\ MoveCursor(savedX, savedY)
    /\ FullMargins
    /\ UNCHANGED <<primary, alt, savedVars, sizeVars, style, prints>>

(***************************************************************************)
(* A new window size.  A region that still fits is kept, also when the     *)
(* screen grows below it.                                                  *)
(***************************************************************************)

\* A seeded fault: the bottom margin is not checked against the top one.
ResizedMarginsTopOnly(h) ==
    /\ scrollTop' = IF scrollTop >= h THEN 0 ELSE scrollTop
    /\ scrollBottom' = scrollBottom

ResizedMargins(h) ==
    LET top == IF scrollTop >= h THEN 0 ELSE scrollTop
    IN  /\ scrollTop' = top
        /\ scrollBottom' = IF scrollBottom >= h \/ scrollBottom < top
                           THEN h - 1 ELSE scrollBottom

Resize(wanted, high) ==
    LET w == AtLeastOne(wanted)
        h == AtLeastOne(high)
    IN  /\ w # width \/ h # height
        /\ resizes < MaxResizes
        /\ resizes' = resizes + 1
        /\ width' = w /\ height' = h
        /\ primary' = ResizedScreen(primary, w, h)
        /\ alt' = ResizedScreen(alt, w, h)
        /\ cursorX' = Clamp(cursorX, 0, w - 1)
        /\ cursorY' = Clamp(cursorY, 0, h - 1)
        /\ savedX' = Clamp(savedX, 0, w - 1)
        /\ savedY' = Clamp(savedY, 0, h - 1)
        /\ ResizedMargins(h)
        /\ UNCHANGED <<useAlt, style, prints>>

TextStep ==
    \/ \E columns \in {1, 2} : PrintRune(columns)
    \/ Backspace
    \/ TabStop
    \/ CarriageReturn
    \/ NewLine
    \/ Index
    \/ ReverseIndex

ControlStep ==
    \/ Save \/ Restore
    \/ EnterAltScreen \/ LeaveAltScreen
    \/ \E mode \in 0 .. 3 : EraseDisplay(mode) \/ EraseLine(mode)
    \/ \E n \in Counts :
        \/ MoveLines(n) \/ MoveColumns(n) \/ ToColumn(n)
        \/ EraseCharacters(n) \/ EditLines(n) \/ EditCells(n) \/ ScrollRegion(n)
    \/ \E m, n \in Counts : ToPosition(m, n) \/ SetMargins(m, n)
    \/ \E s \in Styles : SelectStyle(s)

SizeStep == \E w \in Widths, h \in Heights : Resize(w, h)

TermNext == TextStep \/ ControlStep \/ Reset \/ SizeStep

TermSpec == TermInit /\ [][TermNext]_termVars

(***************************************************************************)
(* Properties.                                                             *)
(***************************************************************************)

\* Both buffers always have the size of the window, the cursor stands on the
\* screen or in the wrap position behind it, a saved position can be restored,
\* and the scroll region is a non-empty part of the screen: every index into a
\* buffer that a control function computes after a resize is inside it.
TermTypeOK ==
    /\ width \in Nat \ {0} /\ height \in Nat \ {0}
    /\ primary \in Screens(width, height)
    /\ alt \in Screens(width, height)
    /\ useAlt \in BOOLEAN
    /\ cursorX \in 0 .. width /\ cursorY \in Rows
    /\ savedX \in 0 .. width /\ savedY \in Rows
    /\ scrollTop \in Rows
    /\ scrollBottom \in scrollTop .. height - 1
    /\ style \in Styles
    /\ prints \in 0 .. MaxPrints /\ resizes \in 0 .. MaxResizes

\* What a full-screen program does on the alternate screen, on the way in and on
\* the way out included, never touches the primary one (model_test.go:23): only a
\* reset or a new window size does.
PrimarySurvivesAlt ==
    [][(useAlt \/ useAlt') /\ primary' # primary => Reset \/ SizeStep]_termVars

InRegion == cursorY \in scrollTop .. scrollBottom

\* Text that starts inside the scroll region stays inside it, however it wraps
\* and scrolls: the cursor does not leave the region and the lines outside it (a
\* status line, a header) keep what they show.
TextStaysInMargins ==
    [][TextStep /\ InRegion =>
        /\ InRegion'
        /\ \A y \in Rows \ (scrollTop .. scrollBottom) : Active'[y] = Active[y]]_termVars

=============================================================================
