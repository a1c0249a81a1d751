--------------------------- MODULE TerminalProofs ---------------------------
(***************************************************************************)
(* Proofs about Terminal, for windows of every size, every parameter and   *)
(* any number of control functions.                                        *)
(***************************************************************************)
EXTENDS Terminal, TLAPS

LEMMA BlankIsACell == Blank \in Cells /\ Tail \in Cells
BY DEF Cells

LEMMA GlyphIsACell ==
    ASSUME NEW s \in Styles, NEW n \in {1, 2}
    PROVE  Glyph(s, n) \in Cells
BY DEF Cells, Glyph

LEMMA ClampIsBetween ==
    ASSUME NEW v \in Int, NEW low \in Int, NEW high \in Int, low <= high
    PROVE  Clamp(v, low, high) \in low .. high
BY DEF Clamp

LEMMA AtLeastOneIsPositive ==
    ASSUME NEW n \in Nat
    PROVE  AtLeastOne(n) \in Nat \ {0}
BY DEF AtLeastOne

(***************************************************************************)
(* Buffers keep their shape.                                               *)
(***************************************************************************)
LEMMA OverwriteIsARow ==
    ASSUME NEW w \in Nat, NEW row \in [0 .. w - 1 -> Cells],
           NEW a \in Int, NEW b \in Int, NEW new \in [a .. b -> Cells]
    PROVE  Overwrite(row, a, b, new) \in [0 .. w - 1 -> Cells]
<1>1. DOMAIN row = 0 .. w - 1
  OBVIOUS
<1>2. ASSUME NEW x \in 0 .. w - 1
      PROVE  /\ row[x] \in Cells
             /\ x \in a .. b => new[x] \in Cells
  OBVIOUS
<1> QED
  BY <1>1, <1>2, BlankIsACell DEF Overwrite

LEMMA EraseIsARow ==
    ASSUME NEW w \in Nat, NEW row \in [0 .. w - 1 -> Cells],
           NEW a \in Int, NEW b \in Int
    PROVE  EraseColumns(row, a, b) \in [0 .. w - 1 -> Cells]
<1>1. [x \in a .. b |-> Blank] \in [a .. b -> Cells]
  BY BlankIsACell
<1> QED
  BY <1>1, OverwriteIsARow DEF EraseColumns

LEMMA BlankScreenIsAScreen ==
    ASSUME NEW w \in Nat, NEW h \in Nat
    PROVE  BlankScreen(w, h) \in Screens(w, h)
BY BlankIsACell DEF BlankScreen, Screens

LEMMA BlankRowIsARow == BlankRow \in [0 .. width - 1 -> Cells]
BY BlankIsACell DEF BlankRow, Columns

LEMMA RowOfAScreen ==
    ASSUME NEW screen \in Screens(width, height), NEW y \in 0 .. height - 1
    PROVE  screen[y] \in [0 .. width - 1 -> Cells]
BY DEF Screens

LEMMA RowReplaced ==
    ASSUME NEW screen \in Screens(width, height), NEW y \in 0 .. height - 1,
           NEW row \in [0 .. width - 1 -> Cells]
    PROVE  [screen EXCEPT ![y] = row] \in Screens(width, height)
BY DEF Screens

\* Lines moved within a region that lies on the screen come from the screen.
LEMMA LinesStayAScreen ==
    ASSUME height \in Nat, NEW screen \in Screens(width, height),
           NEW y \in Int, NEW n \in Nat,
           NEW lo \in 0 .. height - 1, NEW hi \in lo .. height - 1
    PROVE  /\ InsertLineArea(screen, y, n, lo, hi) \in Screens(width, height)
           /\ DeleteLineArea(screen, y, n, lo, hi) \in Screens(width, height)
<1> DEFINE Row == [0 .. width - 1 -> Cells]
<1>1. DOMAIN screen = 0 .. height - 1 /\ \A r \in 0 .. height - 1 : screen[r] \in Row
  BY DEF Screens
<1>2. BlankRow \in Row
  BY BlankRowIsARow
<1> HIDE DEF Row
<1>3. ASSUME NEW r \in 0 .. height - 1
      PROVE  /\ (IF y \notin lo .. hi \/ r \notin y .. hi THEN screen[r]
                 ELSE IF r - n >= y THEN screen[r - n] ELSE BlankRow) \in Row
             /\ (IF y \notin lo .. hi \/ r \notin y .. hi THEN screen[r]
                 ELSE IF r + n <= hi THEN screen[r + n] ELSE BlankRow) \in Row
  <2>1. CASE y \notin lo .. hi \/ r \notin y .. hi
    BY <1>1, <2>1
  <2>2. CASE y \in lo .. hi /\ r \in y .. hi
    <3>1. r - n >= y => r - n \in 0 .. height - 1
      BY <2>2
    <3>2. r + n <= hi => r + n \in 0 .. height - 1
      BY <2>2
    <3> QED
      BY <1>1, <1>2, <2>2, <3>1, <3>2
  <2> QED
    BY <2>1, <2>2
<1> QED
  BY <1>1, <1>3 DEF InsertLineArea, DeleteLineArea, Screens, Row

LEMMA CellsStayARow ==
    ASSUME width \in Nat, NEW row \in [0 .. width - 1 -> Cells],
           NEW x \in Nat, NEW n \in Nat
    PROVE  /\ InsertCells(row, x, n) \in [0 .. width - 1 -> Cells]
           /\ DeleteCells(row, x, n) \in [0 .. width - 1 -> Cells]
<1>1. DOMAIN row = 0 .. width - 1
  OBVIOUS
<1>2. ASSUME NEW c \in 0 .. width - 1
      PROVE  /\ (IF c < x THEN row[c]
                 ELSE IF c - n >= x THEN row[c - n] ELSE Blank) \in Cells
             /\ (IF c < x THEN row[c]
                 ELSE IF c + n < width THEN row[c + n] ELSE Blank) \in Cells
  <2>1. c - n >= x => c - n \in 0 .. width - 1
    OBVIOUS
  <2>2. c + n < width => c + n \in 0 .. width - 1
    OBVIOUS
  <2> QED
    BY <2>1, <2>2, BlankIsACell
<1> QED
  BY <1>1, <1>2 DEF InsertCells, DeleteCells

LEMMA ResizedIsAScreen ==
    ASSUME NEW w \in Nat, NEW h \in Nat, NEW screen \in Screens(width, height)
    PROVE  ResizedScreen(screen, w, h) \in Screens(w, h)
<1>1. ASSUME NEW y \in 0 .. h - 1, NEW x \in 0 .. w - 1
      PROVE  (IF y \in Rows /\ x \in Columns THEN screen[y][x] ELSE Blank) \in Cells
  BY BlankIsACell DEF Screens, Rows, Columns
<1> QED
  BY <1>1 DEF ResizedScreen, Screens

(***************************************************************************)
(* Parts of a step.                                                        *)
(***************************************************************************)
LEMMA ActiveIsAScreen ==
    ASSUME TermTypeOK
    PROVE  Active \in Screens(width, height)
BY DEF TermTypeOK, Active

\* Drawing on the active buffer keeps both buffers in shape.
LEMMA DrawKeepsScreens ==
    ASSUME TermTypeOK, NEW screen \in Screens(width, height), Draw(screen),
           UNCHANGED sizeVars
    PROVE  /\ primary' \in Screens(width', height')
           /\ alt' \in Screens(width', height')
           /\ useAlt' \in BOOLEAN
BY DEF TermTypeOK, Draw, Screens, sizeVars

LEMMA DrawRowKeepsScreens ==
    ASSUME TermTypeOK, NEW row \in [0 .. width - 1 -> Cells], DrawRow(row),
           UNCHANGED sizeVars
    PROVE  /\ primary' \in Screens(width', height')
           /\ alt' \in Screens(width', height')
           /\ useAlt' \in BOOLEAN
<1>1. cursorY \in 0 .. height - 1
  BY DEF TermTypeOK, Rows
<1>2. [Active EXCEPT ![cursorY] = row] \in Screens(width, height)
  BY <1>1, ActiveIsAScreen, RowReplaced
<1> QED
  BY <1>2, DrawKeepsScreens DEF DrawRow

LEMMA ActiveRow ==
    ASSUME TermTypeOK
    PROVE  Active[cursorY] \in [0 .. width - 1 -> Cells]
BY ActiveIsAScreen, RowOfAScreen DEF TermTypeOK, Rows

\* A line feed keeps the cursor on the screen and the screen in shape.
LEMMA IndexStaysOnScreen ==
    ASSUME TermTypeOK
    PROVE  /\ IndexedLine \in 0 .. height - 1
           /\ IndexedScreen \in Screens(width, height)
<1>1. IndexedLine \in 0 .. height - 1
  BY DEF TermTypeOK, Rows, IndexedLine, Clamp
<1>2. IndexedScreen \in Screens(width, height)
  <2>1. /\ height \in Nat
        /\ scrollTop \in 0 .. height - 1
        /\ scrollBottom \in scrollTop .. height - 1
        /\ scrollTop \in Int
        /\ 1 \in Nat
    BY DEF TermTypeOK, Rows
  <2> QED
    BY <2>1, ActiveIsAScreen, LinesStayAScreen DEF IndexedScreen
<1> QED
  BY <1>1, <1>2

\* A step that keeps the size, the margins and the saved position is type
\* correct when its cursor is on the screen and the buffers are in shape.
LEMMA TypeOfCursorAndScreen ==
    ASSUME TermTypeOK, UNCHANGED <<sizeVars, marginVars, savedVars>>,
           cursorX' \in 0 .. width, cursorY' \in 0 .. height - 1,
           primary' \in Screens(width', height'), alt' \in Screens(width', height'),
           useAlt' \in BOOLEAN, style' \in Styles, prints' \in 0 .. MaxPrints
    PROVE  TermTypeOK'
BY DEF TermTypeOK, Rows, sizeVars, marginVars, savedVars

LEMMA ScreensUnchanged ==
    ASSUME TermTypeOK, UNCHANGED <<screenVars, sizeVars>>
    PROVE  /\ primary' \in Screens(width', height')
           /\ alt' \in Screens(width', height')
           /\ useAlt' \in BOOLEAN
BY DEF TermTypeOK, screenVars, sizeVars, Screens

(***************************************************************************)
(* Type correctness.                                                       *)
(***************************************************************************)
LEMMA TypeInit == TermInit => TermTypeOK
<1> SUFFICES ASSUME TermInit PROVE TermTypeOK
  OBVIOUS
<1>1. width \in Nat \ {0} /\ height \in Nat \ {0}
  BY TerminalAssumption, AtLeastOneIsPositive DEF TermInit
<1>2. BlankScreen(width, height) \in Screens(width, height)
  BY <1>1, BlankScreenIsAScreen
<1>3. primary \in Screens(width, height) /\ alt \in Screens(width, height)
  BY <1>2 DEF TermInit
<1>4. /\ cursorX \in 0 .. width /\ cursorY \in Rows
      /\ savedX \in 0 .. width /\ savedY \in Rows
      /\ scrollTop \in Rows /\ scrollBottom \in scrollTop .. height - 1
      /\ prints \in 0 .. MaxPrints /\ resizes \in 0 .. MaxResizes
  BY <1>1, TerminalAssumption DEF TermInit, Rows
<1>5. useAlt \in BOOLEAN /\ style \in Styles
  BY TerminalAssumption DEF TermInit
<1> QED
  BY <1>1, <1>3, <1>4, <1>5 DEF TermTypeOK

LEMMA PrintType ==
    ASSUME TermTypeOK, NEW columns \in {1, 2}, PrintRune(columns)
    PROVE  TermTypeOK'
<1> DEFINE wraps == cursorX >= width \/ (columns <= width /\ cursorX + columns > width)
           x == IF wraps THEN 0 ELSE cursorX
           y == IF wraps THEN IndexedLine ELSE cursorY
           screen == IF wraps THEN IndexedScreen ELSE Active
           glyph == [c \in x .. x + columns - 1 |->
                       IF c = x THEN Glyph(style, columns) ELSE Tail]
           row == Overwrite(screen[y], x, x + columns - 1, glyph)
<1>1. /\ y \in 0 .. height - 1
      /\ screen \in Screens(width, height)
  BY IndexStaysOnScreen, ActiveIsAScreen DEF TermTypeOK, Rows
<1>2. x \in 0 .. width - 1
  BY DEF TermTypeOK
<1>3. glyph \in [x .. x + columns - 1 -> Cells]
  BY GlyphIsACell, BlankIsACell DEF TermTypeOK
<1>4. [screen EXCEPT ![y] = row] \in Screens(width, height)
  <2>1. screen[y] \in [0 .. width - 1 -> Cells]
    BY <1>1, RowOfAScreen
  <2>2. x \in Int /\ x + columns - 1 \in Int /\ width \in Nat
    BY <1>2 DEF TermTypeOK
  <2>3. row \in [0 .. width - 1 -> Cells]
    BY <1>3, <2>1, <2>2, OverwriteIsARow
  <2> QED
    BY <1>1, <2>3, RowReplaced
<1>5. UNCHANGED sizeVars /\ UNCHANGED <<marginVars, savedVars>> /\ style' = style
  BY DEF PrintRune
<1>6. /\ cursorY' = y
      /\ prints < MaxPrints /\ prints' = prints + 1
      /\ IF columns > width
         THEN cursorX' = x /\ Draw(screen)
         ELSE /\ cursorX' = Lesser(x + columns, width)
              /\ Draw([screen EXCEPT ![y] = row])
  BY DEF PrintRune
<1>7. cursorX' \in 0 .. width
  BY <1>2, <1>6 DEF Lesser, TermTypeOK
<1>8. prints' \in 0 .. MaxPrints /\ style' \in Styles
  BY <1>5, <1>6, TerminalAssumption DEF TermTypeOK
<1>9. /\ primary' \in Screens(width', height')
      /\ alt' \in Screens(width', height')
      /\ useAlt' \in BOOLEAN
  BY <1>1, <1>4, <1>5, <1>6, DrawKeepsScreens
<1> HIDE DEF x, y, screen, row, glyph
<1> QED
  BY <1>1, <1>5, <1>6, <1>7, <1>8, <1>9, TypeOfCursorAndScreen

LEMMA TabType ==
    ASSUME TermTypeOK, TabStop
    PROVE  TermTypeOK'
<1> DEFINE stop == Lesser((cursorX \div TabWidth + 1) * TabWidth, width)
           spaces == [x \in cursorX .. stop - 1 |-> Glyph(style, 1)]
<1>1. stop \in 0 .. width
  BY DEF TermTypeOK, Lesser, TabWidth
<1>2. /\ cursorX' = stop /\ cursorY' = cursorY
      /\ prints < MaxPrints /\ prints' = prints + 1 /\ style' = style
      /\ UNCHANGED <<savedVars, marginVars, sizeVars>>
      /\ DrawRow(Overwrite(Active[cursorY], cursorX, stop - 1, spaces))
  BY DEF TabStop
<1>3. spaces \in [cursorX .. stop - 1 -> Cells]
  BY GlyphIsACell DEF TermTypeOK
<1> HIDE DEF stop, spaces
<1>4. Overwrite(Active[cursorY], cursorX, stop - 1, spaces) \in [0 .. width - 1 -> Cells]
  <2>1. cursorX \in Int /\ stop - 1 \in Int /\ width \in Nat
    BY <1>1 DEF TermTypeOK
  <2> QED
    BY <1>3, <2>1, ActiveRow, OverwriteIsARow
<1>5. /\ primary' \in Screens(width', height')
      /\ alt' \in Screens(width', height')
      /\ useAlt' \in BOOLEAN
  BY <1>2, <1>4, DrawRowKeepsScreens
<1>6. cursorY' \in 0 .. height - 1 /\ prints' \in 0 .. MaxPrints /\ style' \in Styles
  BY <1>2, TerminalAssumption DEF TermTypeOK, Rows
<1> QED
  BY <1>1, <1>2, <1>5, <1>6, TypeOfCursorAndScreen

LEMMA TextType ==
    ASSUME TermTypeOK, TextStep
    PROVE  TermTypeOK'
<1>1. CASE \E columns \in {1, 2} : PrintRune(columns)
  BY <1>1, PrintType
<1>2. CASE TabStop
  BY <1>2, TabType
<1>3. CASE Backspace \/ CarriageReturn
  <2>1. cursorX' \in 0 .. width /\ cursorY' \in 0 .. height - 1
    BY <1>3 DEF Backspace, CarriageReturn, TermTypeOK, Rows
  <2>2. /\ UNCHANGED <<screenVars, sizeVars, marginVars, savedVars>>
        /\ style' \in Styles /\ prints' \in 0 .. MaxPrints
    BY <1>3 DEF Backspace, CarriageReturn, TermTypeOK
  <2> QED
    BY <2>1, <2>2, ScreensUnchanged, TypeOfCursorAndScreen
<1>4. CASE NewLine \/ Index
  <2>1. cursorX' \in 0 .. width /\ cursorY' \in 0 .. height - 1
    BY <1>4, IndexStaysOnScreen DEF NewLine, Index, TermTypeOK
  <2>2. /\ UNCHANGED <<sizeVars, marginVars, savedVars>>
        /\ style' \in Styles /\ prints' \in 0 .. MaxPrints
        /\ Draw(IndexedScreen)
    BY <1>4 DEF NewLine, Index, TermTypeOK
  <2> QED
    BY <2>1, <2>2, IndexStaysOnScreen, DrawKeepsScreens, TypeOfCursorAndScreen
<1>5. CASE ReverseIndex
  <2>1. cursorX' \in 0 .. width /\ cursorY' \in 0 .. height - 1
    BY <1>5 DEF ReverseIndex, TermTypeOK, Rows, Clamp
  <2>2. /\ UNCHANGED <<sizeVars, marginVars, savedVars>>
        /\ style' \in Styles /\ prints' \in 0 .. MaxPrints
    BY <1>5 DEF ReverseIndex, TermTypeOK
  <2>3. \/ Draw(InsertLineArea(Active, scrollTop, 1, scrollTop, scrollBottom))
        \/ UNCHANGED screenVars
    BY <1>5 DEF ReverseIndex
  <2>4. InsertLineArea(Active, scrollTop, 1, scrollTop, scrollBottom)
          \in Screens(width, height)
    <3>1. /\ height \in Nat /\ scrollTop \in Int /\ 1 \in Nat
          /\ scrollTop \in 0 .. height - 1
          /\ scrollBottom \in scrollTop .. height - 1
      BY DEF TermTypeOK, Rows
    <3> QED
      BY <3>1, ActiveIsAScreen, LinesStayAScreen
  <2> QED
    BY <2>1, <2>2, <2>3, <2>4, DrawKeepsScreens, ScreensUnchanged,
       TypeOfCursorAndScreen
<1> QED
  BY <1>1, <1>2, <1>3, <1>4, <1>5 DEF TextStep

LEMMA MoveType ==
    ASSUME TermTypeOK, NEW m \in Counts, NEW n \in Counts,
           MoveLines(n) \/ MoveColumns(n) \/ ToColumn(n) \/ ToPosition(m, n)
    PROVE  TermTypeOK'
<1>1. m \in Nat /\ n \in Nat
  BY TerminalAssumption
<1>2. cursorX' \in 0 .. width /\ cursorY' \in 0 .. height - 1
  BY <1>1 DEF MoveLines, MoveColumns, ToColumn, ToPosition, MoveCursor, Clamp,
              TermTypeOK, Rows
<1>3. /\ UNCHANGED <<screenVars, sizeVars, marginVars, savedVars>>
      /\ style' \in Styles /\ prints' \in 0 .. MaxPrints
  BY DEF MoveLines, MoveColumns, ToColumn, ToPosition, TermTypeOK
<1> QED
  BY <1>2, <1>3, ScreensUnchanged, TypeOfCursorAndScreen

LEMMA EraseType ==
    ASSUME TermTypeOK, NEW mode \in 0 .. 3, EraseDisplay(mode) \/ EraseLine(mode)
    PROVE  TermTypeOK'
<1>0. /\ width \in Nat /\ height \in Nat
      /\ cursorX \in Int /\ Lesser(cursorX, width - 1) \in Int /\ width - 1 \in Int
  BY DEF TermTypeOK, Lesser
<1>1. UNCHANGED <<sizeVars, marginVars, savedVars>>
  BY DEF EraseDisplay, EraseLine
<1>2. style' \in Styles /\ prints' \in 0 .. MaxPrints
  BY DEF EraseDisplay, EraseLine, TermTypeOK
<1>3. cursorX' \in 0 .. width /\ cursorY' \in 0 .. height - 1
  BY DEF EraseDisplay, EraseLine, MoveCursor, Clamp, TermTypeOK, Rows, cursorVars
<1>4. CASE EraseLine(mode)
  <2>1. EraseColumns(Active[cursorY],
                     IF mode \in {1, 2} THEN 0 ELSE cursorX,
                     IF mode = 1 THEN Lesser(cursorX, width - 1) ELSE width - 1)
          \in [0 .. width - 1 -> Cells]
    BY <1>0, ActiveRow, EraseIsARow
  <2> QED
    BY <1>1, <1>2, <1>3, <1>4, <2>1, DrawRowKeepsScreens, TypeOfCursorAndScreen
       DEF EraseLine
<1>5. CASE EraseDisplay(mode)
  <2> DEFINE screen == [y \in Rows |->
                 IF y = cursorY
                 THEN IF mode = 1
                      THEN EraseColumns(Active[y], 0, Lesser(cursorX, width - 1))
                      ELSE EraseColumns(Active[y], cursorX, width - 1)
                 ELSE IF (y < cursorY) = (mode = 1)
                 THEN BlankRow ELSE Active[y]]
  <2>1. BlankScreen(width, height) \in Screens(width, height)
    BY <1>0, BlankScreenIsAScreen
  <2>2. screen \in Screens(width, height)
    <3>1. ASSUME NEW y \in Rows
          PROVE  Active[y] \in [0 .. width - 1 -> Cells]
      BY ActiveIsAScreen, RowOfAScreen DEF Rows
    <3>2. ASSUME NEW y \in Rows
          PROVE  /\ EraseColumns(Active[y], 0, Lesser(cursorX, width - 1))
                      \in [0 .. width - 1 -> Cells]
                 /\ EraseColumns(Active[y], cursorX, width - 1)
                      \in [0 .. width - 1 -> Cells]
      BY <1>0, <3>1, EraseIsARow
    <3> QED
      BY <3>1, <3>2, BlankRowIsARow DEF Screens, Rows
  <2>3. Draw(BlankScreen(width, height)) \/ Draw(screen)
    BY <1>5 DEF EraseDisplay
  <2> HIDE DEF screen
  <2> QED
    BY <1>1, <1>2, <1>3, <2>1, <2>2, <2>3, DrawKeepsScreens, TypeOfCursorAndScreen
<1> QED
  BY <1>4, <1>5

LEMMA EditType ==
    ASSUME TermTypeOK, NEW n \in Counts,
           EraseCharacters(n) \/ EditLines(n) \/ EditCells(n) \/ ScrollRegion(n)
    PROVE  TermTypeOK'
<1>0. /\ n \in Nat /\ AtLeastOne(n) \in Nat
      /\ width \in Nat /\ height \in Nat
      /\ cursorX \in Nat /\ cursorY \in Int /\ scrollTop \in Int
      /\ scrollTop \in 0 .. height - 1 /\ scrollBottom \in scrollTop .. height - 1
      /\ Lesser(width, cursorX + AtLeastOne(n)) - 1 \in Int
  BY TerminalAssumption DEF TermTypeOK, Rows, AtLeastOne, Lesser
<1>1. UNCHANGED <<sizeVars, marginVars, savedVars>>
  BY DEF EraseCharacters, EditLines, EditCells, ScrollRegion
<1>2. style' \in Styles /\ prints' \in 0 .. MaxPrints
  BY DEF EraseCharacters, EditLines, EditCells, ScrollRegion, TermTypeOK
<1>3. cursorX' \in 0 .. width /\ cursorY' \in 0 .. height - 1
  BY DEF EraseCharacters, EditLines, EditCells, ScrollRegion, TermTypeOK, Rows,
         cursorVars
<1>4. CASE EraseCharacters(n) \/ EditCells(n)
  <2> DEFINE erased == EraseColumns(Active[cursorY], cursorX,
                                    Lesser(width, cursorX + AtLeastOne(n)) - 1)
             longer == InsertCells(Active[cursorY], cursorX, n)
             shorter == DeleteCells(Active[cursorY], cursorX, n)
  <2>1. erased \in [0 .. width - 1 -> Cells]
    BY <1>0, ActiveRow, EraseIsARow
  <2>2. /\ longer \in [0 .. width - 1 -> Cells]
        /\ shorter \in [0 .. width - 1 -> Cells]
    <3>1. Active[cursorY] \in [0 .. width - 1 -> Cells] /\ cursorX \in Int
      BY <1>0, ActiveRow
    <3> QED
      BY <1>0, <3>1, CellsStayARow
  <2>3. DrawRow(erased) \/ DrawRow(longer) \/ DrawRow(shorter)
    BY <1>4 DEF EraseCharacters, EditCells
  <2> HIDE DEF erased, longer, shorter
  <2> QED
    BY <1>1, <1>2, <1>3, <2>1, <2>2, <2>3, DrawRowKeepsScreens, TypeOfCursorAndScreen
<1>5. CASE EditLines(n) \/ ScrollRegion(n)
  <2>1. \E screen \in Screens(width, height) : Draw(screen)
    BY <1>0, <1>5, ActiveIsAScreen, LinesStayAScreen DEF EditLines, ScrollRegion
  <2> QED
    BY <1>1, <1>2, <1>3, <2>1, DrawKeepsScreens, TypeOfCursorAndScreen
<1> QED
  BY <1>4, <1>5

LEMMA CursorType ==
    ASSUME TermTypeOK, Save \/ Restore
    PROVE  TermTypeOK'
<1>1. /\ cursorX' \in 0 .. width /\ cursorY' \in 0 .. height - 1
      /\ savedX' \in 0 .. width /\ savedY' \in 0 .. height - 1
  BY DEF Save, Restore, SaveCursor, MoveCursor, Clamp, TermTypeOK, Rows,
         cursorVars, savedVars
<1>2. /\ UNCHANGED <<screenVars, sizeVars, marginVars>>
      /\ style' = style /\ prints' = prints
  BY DEF Save, Restore
<1> QED
  BY <1>1, <1>2, ScreensUnchanged DEF TermTypeOK, Rows, sizeVars, marginVars

LEMMA MarginsType ==
    ASSUME TermTypeOK, NEW m \in Counts, NEW n \in Counts, SetMargins(m, n)
    PROVE  TermTypeOK'
<1>1. m \in Nat /\ n \in Nat
  BY TerminalAssumption
<1>2. /\ cursorX' \in 0 .. width /\ cursorY' \in 0 .. height - 1
      /\ scrollTop' \in 0 .. height - 1 /\ scrollBottom' \in scrollTop' .. height - 1
  BY <1>1 DEF SetMargins, FullMargins, MoveCursor, Clamp, TermTypeOK, Rows, cursorVars
<1>3. /\ UNCHANGED <<screenVars, sizeVars, savedVars>>
      /\ style' = style /\ prints' = prints
  BY DEF SetMargins
<1> QED
  BY <1>2, <1>3, ScreensUnchanged DEF TermTypeOK, Rows, sizeVars, savedVars

LEMMA BufferType ==
    ASSUME TermTypeOK, EnterAltScreen \/ LeaveAltScreen \/ Reset
    PROVE  TermTypeOK'
<1>1. UNCHANGED sizeVars /\ prints' = prints
  BY DEF EnterAltScreen, LeaveAltScreen, Reset
<1>2. style' \in Styles
  BY TerminalAssumption DEF EnterAltScreen, LeaveAltScreen, Reset, TermTypeOK
<1>3. BlankScreen(width, height) \in Screens(width, height)
  BY BlankScreenIsAScreen DEF TermTypeOK
<1>4. primary' \in Screens(width, height) /\ alt' \in Screens(width, height)
  BY <1>3 DEF EnterAltScreen, LeaveAltScreen, Reset, TermTypeOK
<1>5. useAlt' \in BOOLEAN
  BY DEF EnterAltScreen, LeaveAltScreen, Reset
<1>6. /\ cursorX' \in 0 .. width /\ cursorY' \in 0 .. height - 1
      /\ savedX' \in 0 .. width /\ savedY' \in 0 .. height - 1
      /\ scrollTop' = 0 /\ scrollBottom' = height - 1
  BY DEF EnterAltScreen, LeaveAltScreen, Reset, FullMargins, SaveCursor, MoveCursor,
         Clamp, TermTypeOK, Rows, savedVars
<1>7. /\ width' = width /\ height' = height /\ resizes' = resizes
      /\ width \in Nat \ {0} /\ height \in Nat \ {0}
      /\ prints \in 0 .. MaxPrints /\ resizes \in 0 .. MaxResizes
  BY <1>1 DEF TermTypeOK, sizeVars
<1>8. scrollTop' \in Rows' /\ scrollBottom' \in scrollTop' .. height' - 1
  BY <1>6, <1>7 DEF Rows
<1> QED
  BY <1>1, <1>2, <1>4, <1>5, <1>6, <1>7, <1>8 DEF TermTypeOK, Rows

LEMMA ResizeType ==
    ASSUME TermTypeOK, SizeStep
    PROVE  TermTypeOK'
<1>1. PICK w \in Widths, h \in Heights : Resize(w, h)
  BY DEF SizeStep
<1>2. /\ width' \in Nat \ {0} /\ height' \in Nat \ {0}
      /\ width' = AtLeastOne(w) /\ height' = AtLeastOne(h)
  BY <1>1, TerminalAssumption, AtLeastOneIsPositive DEF Resize
<1>3. primary' \in Screens(width', height') /\ alt' \in Screens(width', height')
  BY <1>1, <1>2, ResizedIsAScreen DEF Resize, TermTypeOK
<1>4. /\ cursorX' \in 0 .. width' /\ cursorY' \in 0 .. height' - 1
      /\ savedX' \in 0 .. width' /\ savedY' \in 0 .. height' - 1
  BY <1>1, <1>2 DEF Resize, Clamp, TermTypeOK, Rows
<1>5. scrollTop' \in 0 .. height' - 1 /\ scrollBottom' \in scrollTop' .. height' - 1
  BY <1>1, <1>2 DEF Resize, ResizedMargins, TermTypeOK, Rows
<1>6. resizes' \in 0 .. MaxResizes
  BY <1>1, TerminalAssumption DEF Resize, TermTypeOK
<1>7. useAlt' = useAlt /\ style' = style /\ prints' = prints
  BY <1>1 DEF Resize
<1> QED
  BY <1>2, <1>3, <1>4, <1>5, <1>6, <1>7 DEF TermTypeOK, Rows

LEMMA StyleType ==
    ASSUME TermTypeOK, NEW s \in Styles, SelectStyle(s)
    PROVE  TermTypeOK'
<1>1. /\ UNCHANGED <<screenVars, cursorVars, savedVars, marginVars, sizeVars>>
      /\ style' = s /\ prints' = prints
  BY DEF SelectStyle
<1> QED
  BY <1>1, ScreensUnchanged
     DEF TermTypeOK, Rows, cursorVars, savedVars, marginVars, sizeVars

LEMMA TypeStep == TermTypeOK /\ [TermNext]_termVars => TermTypeOK'
<1> SUFFICES ASSUME TermTypeOK, [TermNext]_termVars PROVE TermTypeOK'
  OBVIOUS
<1>1. CASE TextStep
  BY <1>1, TextType
<1>2. CASE ControlStep
  BY <1>2, CursorType, BufferType, EraseType, MoveType, EditType, MarginsType,
     StyleType DEF ControlStep
<1>3. CASE Reset \/ SizeStep
  BY <1>3, BufferType, ResizeType
<1>4. CASE UNCHANGED termVars
  BY <1>4, ScreensUnchanged
     DEF TermTypeOK, Rows, termVars, cursorVars, savedVars, marginVars, sizeVars
<1> QED
  BY <1>1, <1>2, <1>3, <1>4 DEF TermNext

\* Whatever a program prints, moves, erases, scrolls or saves, and whatever size
\* the window gets, the cursor, the saved position and the scroll region of
\* attachterm.Model stay on the screen and both buffers have its size.
THEOREM TerminalTypeCorrect == TermSpec => []TermTypeOK
<1>1. TermInit => TermTypeOK
  BY TypeInit
<1>2. TermTypeOK /\ [TermNext]_termVars => TermTypeOK'
  BY TypeStep
<1> QED
  BY <1>1, <1>2, PTL DEF TermSpec

(***************************************************************************)
(* The primary screen and the scroll region.                               *)
(***************************************************************************)
LEMMA PrimaryStep ==
    [TermNext]_termVars =>
        ((useAlt \/ useAlt') /\ primary' # primary => Reset \/ SizeStep)
<1> SUFFICES ASSUME [TermNext]_termVars, useAlt \/ useAlt', ~Reset, ~SizeStep
             PROVE  primary' = primary
  OBVIOUS
<1>1. ASSUME NEW screen, Draw(screen) PROVE primary' = primary
  BY <1>1 DEF Draw
<1>2. ASSUME NEW row, DrawRow(row) PROVE primary' = primary
  BY <1>1, <1>2 DEF DrawRow
<1>3. CASE TextStep
  <2>1. ASSUME NEW columns \in {1, 2}, PrintRune(columns) PROVE primary' = primary
    BY <1>1, <2>1 DEF PrintRune
  <2> QED
    BY <1>1, <1>2, <1>3, <2>1
       DEF TextStep, Backspace, TabStop, CarriageReturn, NewLine, Index,
           ReverseIndex, screenVars
<1>4. CASE ControlStep
  <2>1. CASE Save \/ Restore \/ EnterAltScreen \/ LeaveAltScreen
    BY <2>1 DEF Save, Restore, EnterAltScreen, LeaveAltScreen, screenVars
  <2>2. ASSUME NEW mode \in 0 .. 3, EraseDisplay(mode) \/ EraseLine(mode)
        PROVE  primary' = primary
    BY <1>1, <1>2, <2>2 DEF EraseDisplay, EraseLine
  <2>3. ASSUME NEW n \in Counts,
               \/ MoveLines(n) \/ MoveColumns(n) \/ ToColumn(n)
               \/ EraseCharacters(n) \/ EditLines(n) \/ EditCells(n)
               \/ ScrollRegion(n)
        PROVE  primary' = primary
    BY <1>1, <1>2, <2>3
       DEF MoveLines, MoveColumns, ToColumn, EraseCharacters, EditLines, EditCells,
           ScrollRegion, screenVars
  <2>4. ASSUME NEW m \in Counts, NEW n \in Counts, ToPosition(m, n) \/ SetMargins(m, n)
        PROVE  primary' = primary
    BY <2>4 DEF ToPosition, SetMargins, screenVars
  <2>5. ASSUME NEW s \in Styles, SelectStyle(s) PROVE primary' = primary
    BY <2>5 DEF SelectStyle, screenVars
  <2> QED
    BY <1>4, <2>1, <2>2, <2>3, <2>4, <2>5 DEF ControlStep
<1>5. CASE UNCHANGED termVars
  BY <1>5 DEF termVars, screenVars
<1> QED
  BY <1>3, <1>4, <1>5 DEF TermNext

\* Of all control functions only a reset, or a new window size, changes the
\* primary buffer while the alternate one is shown, entered or left.
THEOREM PrimaryIsKept == TermSpec => PrimarySurvivesAlt
<1>1. [TermNext]_termVars =>
        [(useAlt \/ useAlt') /\ primary' # primary => Reset \/ SizeStep]_termVars
  BY PrimaryStep
<1> QED
  BY <1>1, PTL DEF TermSpec, PrimarySurvivesAlt

\* Lines outside a region come out of a line edit of the region as they were.
LEMMA LinesOutsideAreKept ==
    ASSUME NEW screen, NEW y, NEW n, NEW lo, NEW hi,
           NEW r \in DOMAIN screen, r \notin lo .. hi,
           y \in lo .. hi => r \notin y .. hi
    PROVE  /\ InsertLineArea(screen, y, n, lo, hi)[r] = screen[r]
           /\ DeleteLineArea(screen, y, n, lo, hi)[r] = screen[r]
BY DEF InsertLineArea, DeleteLineArea

LEMMA DrawIsActive ==
    ASSUME NEW screen, Draw(screen)
    PROVE  Active' = screen
BY DEF Draw, Active

\* A line feed inside the region stays inside it and spares the other lines.
LEMMA IndexStaysInRegion ==
    ASSUME TermTypeOK, InRegion
    PROVE  /\ IndexedLine \in scrollTop .. scrollBottom
           /\ \A r \in Rows \ (scrollTop .. scrollBottom) : IndexedScreen[r] = Active[r]
<1>1. IndexedLine \in scrollTop .. scrollBottom
  BY DEF TermTypeOK, InRegion, IndexedLine, Clamp, Rows
<1>2. ASSUME NEW r \in Rows \ (scrollTop .. scrollBottom)
      PROVE  IndexedScreen[r] = Active[r]
  <2>1. r \in DOMAIN Active
    BY ActiveIsAScreen DEF Screens, Rows
  <2> QED
    BY <2>1, LinesOutsideAreKept DEF IndexedScreen
<1> QED
  BY <1>1, <1>2

LEMMA TextInRegion ==
    ASSUME TermTypeOK, TextStep, InRegion
    PROVE  /\ InRegion'
           /\ \A y \in Rows \ (scrollTop .. scrollBottom) : Active'[y] = Active[y]
<1>1. CASE \E columns \in {1, 2} : PrintRune(columns)
  <2> PICK columns \in {1, 2} : PrintRune(columns)
    BY <1>1
  <2> DEFINE wraps == cursorX >= width \/ (columns <= width /\ cursorX + columns > width)
             x == IF wraps THEN 0 ELSE cursorX
             y == IF wraps THEN IndexedLine ELSE cursorY
             screen == IF wraps THEN IndexedScreen ELSE Active
             glyph == [c \in x .. x + columns - 1 |->
                         IF c = x THEN Glyph(style, columns) ELSE Tail]
             row == Overwrite(screen[y], x, x + columns - 1, glyph)
  <2>1. y \in scrollTop .. scrollBottom
    BY IndexStaysInRegion DEF InRegion
  <2>2. \A r \in Rows \ (scrollTop .. scrollBottom) : screen[r] = Active[r]
    BY IndexStaysInRegion
  <2>3. cursorY' = y /\ UNCHANGED marginVars
    BY DEF PrintRune
  <2>4. Draw(screen) \/ Draw([screen EXCEPT ![y] = row])
    BY DEF PrintRune
  <2>5. DOMAIN screen = Rows
    BY ActiveIsAScreen, IndexStaysOnScreen DEF Screens, Rows
  <2> HIDE DEF y, screen, row
  <2>6. \A r \in Rows \ (scrollTop .. scrollBottom) : Active'[r] = Active[r]
    <3>1. CASE Active' = screen
      BY <2>2, <3>1
    <3>2. CASE Active' = [screen EXCEPT ![y] = row]
      BY <2>1, <2>2, <2>5, <3>2
    <3> QED
      BY <2>4, <3>1, <3>2, DrawIsActive
  <2> QED
    BY <2>1, <2>3, <2>6 DEF InRegion, marginVars
<1>2. CASE NewLine \/ Index
  <2>1. cursorY' = IndexedLine /\ Active' = IndexedScreen /\ UNCHANGED marginVars
    BY <1>2, DrawIsActive DEF NewLine, Index
  <2> QED
    BY <2>1, IndexStaysInRegion DEF InRegion, marginVars
<1>3. CASE ReverseIndex
  <2>1. UNCHANGED marginVars
    BY <1>3 DEF ReverseIndex
  <2>2. CASE cursorY = scrollTop
    <3>1. /\ Active' = InsertLineArea(Active, scrollTop, 1, scrollTop, scrollBottom)
          /\ cursorY' = cursorY
      BY <1>3, <2>2, DrawIsActive DEF ReverseIndex
    <3>2. ASSUME NEW r \in Rows \ (scrollTop .. scrollBottom)
          PROVE  Active'[r] = Active[r]
      <4>1. r \in DOMAIN Active
        BY ActiveIsAScreen DEF Screens, Rows
      <4> QED
        BY <3>1, <4>1, LinesOutsideAreKept
    <3> QED
      BY <2>1, <3>1, <3>2 DEF InRegion, marginVars
  <2>3. CASE cursorY # scrollTop
    <3>1. Active' = Active
      BY <1>3, <2>3 DEF ReverseIndex, screenVars, Active
    <3>2. cursorY' \in scrollTop .. scrollBottom
      BY <1>3, <2>3 DEF ReverseIndex, InRegion, TermTypeOK, Rows, Clamp
    <3> QED
      BY <2>1, <3>1, <3>2 DEF InRegion, marginVars
  <2> QED
    BY <2>2, <2>3
<1>4. CASE TabStop
  <2> PICK row : DrawRow(row)
    BY <1>4 DEF TabStop
  <2>1. Active' = [Active EXCEPT ![cursorY] = row]
    BY DrawIsActive DEF DrawRow
  <2>2. DOMAIN Active = Rows
    BY ActiveIsAScreen DEF Screens, Rows
  <2>3. cursorY' = cursorY /\ UNCHANGED marginVars
    BY <1>4 DEF TabStop
  <2> QED
    BY <2>1, <2>2, <2>3 DEF InRegion, marginVars
<1>5. CASE Backspace \/ CarriageReturn
  BY <1>5 DEF Backspace, CarriageReturn, InRegion, marginVars, screenVars, Active
<1> QED
  BY <1>1, <1>2, <1>3, <1>4, <1>5 DEF TextStep

\* Printing, wrapping, feeding and scrolling from inside the scroll region never
\* leaves it and never changes a line outside it.
THEOREM MarginsHoldText == TermSpec => TextStaysInMargins
<1>1. TermTypeOK /\ [TermNext]_termVars =>
        [TextStep /\ InRegion =>
           /\ InRegion'
           /\ \A y \in Rows \ (scrollTop .. scrollBottom) :
                Active'[y] = Active[y]]_termVars
  BY TextInRegion
<1>2. TermSpec => []TermTypeOK
  BY TerminalTypeCorrect
<1> QED
  BY <1>1, <1>2, PTL DEF TermSpec, TextStaysInMargins
=============================================================================
