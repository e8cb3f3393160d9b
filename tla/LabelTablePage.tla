--------------------------- MODULE LabelTablePage ---------------------------
(***************************************************************************)
(* A table on a label: its rows, columns and cells, and the widths of the  *)
(* columns (TableProperties in                                             *)
(* ui/src/components/label-editor/element-properties.tsx, the operations   *)
(* in ui/src/lib/label-types.ts).  The cells are one list, row after row.  *)
(* Widths are whole numbers of the grid they are rounded to; the height is *)
(* left out.                                                               *)
(***************************************************************************)
EXTENDS Integers, Sequences, SequencesExt

CONSTANTS TableRowsMax, TableColsMax,
          TableWidths,        \* of a new table: a column's, the least, the most
          MaxTableWidth       \* bound: wider tables get no more columns

VARIABLES ui, net

Rounded(v, k)    == (2 * v + k) \div (2 * k)
AtMost(v, most)  == IF v > most THEN most ELSE v
AtLeast(v, least) == IF v < least THEN least ELSE v

clampTableRows(n) == AtLeast(AtMost(n, TableRowsMax), 1)
clampTableCols(n) == AtLeast(AtMost(n, TableColsMax), 1)

(***************************************************************************)
(* Cells: fixed text, or a value of the product; 0 is the empty text and   *)
(* the serial number.                                                      *)
(***************************************************************************)
Cell(source, value) == [source |-> source, value |-> value]
EmptyCell == Cell("static", 0)

createTableCells(rows, cols) == [i \in 1 .. rows * cols |-> EmptyCell]

CellAt(cells, cols, r, c) == cells[r * cols + c + 1]

(* The cells of a table of the given size, by row and column.              *)
Filled(rows, cols, F(_, _)) ==
    [i \in 1 .. rows * cols |-> F((i - 1) \div cols, (i - 1) % cols)]

resizeTableCells(cells, oldRows, oldCols, newRows, newCols) ==
    LET kept(r, c) == r < oldRows /\ c < oldCols /\ r * oldCols + c < Len(cells)
    IN Filled(newRows, newCols,
              LAMBDA r, c : IF kept(r, c) THEN CellAt(cells, oldCols, r, c) ELSE EmptyCell)

insertTableRow(cells, rows, cols, at) ==
    SubSeq(cells, 1, at * cols) \o createTableCells(1, cols) \o
    SubSeq(cells, at * cols + 1, rows * cols)

(* Mutant: the rows are read with the new number of columns.               *)
insertColNewStride(cells, rows, cols, at) ==
    Filled(rows, cols + 1,
           LAMBDA r, c : IF c = at THEN EmptyCell
                         ELSE LET i == r * (cols + 1) + (IF c < at THEN c ELSE c - 1) + 1
                              IN IF i <= Len(cells) THEN cells[i] ELSE EmptyCell)

insertTableCol(cells, rows, cols, at) ==
    Filled(rows, cols + 1,
           LAMBDA r, c : IF c = at THEN EmptyCell
                         ELSE CellAt(cells, cols, r, IF c < at THEN c ELSE c - 1))

removeTableRow(cells, rows, cols, at) ==
    SubSeq(cells, 1, at * cols) \o SubSeq(cells, (at + 1) * cols + 1, rows * cols)

removeTableCol(cells, rows, cols, at) ==
    Filled(rows, cols - 1,
           LAMBDA r, c : CellAt(cells, cols, r, IF c < at THEN c ELSE c + 1))

(***************************************************************************)
(* Widths: rounded each, the last takes what is left                       *)
(***************************************************************************)
SumOf(widths) == FoldSeq(LAMBDA a, b : a + b, 0, widths)

fixColWidthsSum(widths, total) ==
    IF widths = <<>> THEN widths
    ELSE [widths EXCEPT ![Len(widths)] = @ + total - SumOf(widths)]

equalTableColWidths(cols, total) ==
    fixColWidthsSum([i \in 1 .. cols |-> Rounded(total, cols)], total)

Scaled(widths, num, den, total) ==
    fixColWidthsSum([i \in DOMAIN widths |-> Rounded(widths[i] * num, den)], total)

normalizeTableColWidths(cols, total, widths) ==
    IF Len(widths) # cols \/ SumOf(widths) <= 0 THEN equalTableColWidths(cols, total)
    ELSE Scaled(widths, total, SumOf(widths), total)

scaleTableColWidthsToWidth(cols, oldWidth, widths, newWidth) ==
    Scaled(normalizeTableColWidths(cols, oldWidth, widths), newWidth, oldWidth, newWidth)

(* Columns that go leave their width to the last that stays; columns that  *)
(* come are as wide as the others on average.                              *)
resizeTableColWidths(t, newCols) ==
    LET current == normalizeTableColWidths(t.cols, t.width, t.colWidths)
        kept    == SubSeq(current, 1, newCols)
        average == Rounded(SumOf(current), t.cols)
        wider   == current \o [i \in 1 .. newCols - t.cols |-> average]
    IN IF newCols < t.cols
       THEN <<fixColWidthsSum(kept, SumOf(current)), t.width>>
       ELSE <<wider, SumOf(wider)>>

insertTableColWidths(t, at, inserted) ==
    LET current == normalizeTableColWidths(t.cols, t.width, t.colWidths)
    IN <<InsertAt(current, at + 1, inserted), t.width + inserted>>

removeTableColWidths(t, at) ==
    LET current == normalizeTableColWidths(t.cols, t.width, t.colWidths)
    IN <<RemoveAt(current, at + 1), AtLeast(t.width - current[at + 1], 1)>>

(***************************************************************************)
(* The table of the template                                               *)
(***************************************************************************)
Table(rows, cols, cells, widths, width) ==
    [rows |-> rows, cols |-> cols, cells |-> cells, colWidths |-> widths, width |-> width]

(* Mutant: cells and sizes of the template are believed.                   *)
normalizeWidthsOnly(t) ==
    LET rows == clampTableRows(t.rows)
        cols == clampTableCols(t.cols)
    IN Table(rows, cols, t.cells,
             normalizeTableColWidths(cols, t.width, t.colWidths), t.width)

normalizeElement(t) ==
    LET rows == clampTableRows(t.rows)
        cols == clampTableCols(t.cols)
    IN Table(rows, cols,
             IF Len(t.cells) = rows * cols THEN t.cells
             ELSE resizeTableCells(t.cells, t.rows, t.cols, rows, cols),
             normalizeTableColWidths(cols, t.width, t.colWidths), t.width)

(* When a table changes its width the editor scales the widths it had, and *)
(* drops those it is given.                                                *)
updateElement(old, t) ==
    IF t.width = old.width THEN normalizeElement(t)
    ELSE normalizeElement([t EXCEPT !.colWidths =
             scaleTableColWidthsToWidth(old.cols, old.width, old.colWidths, t.width)])

createTableElement(rows, cols) ==
    LET r == clampTableRows(rows)
        c == clampTableCols(cols)
        width == AtMost(AtLeast(c * TableWidths[1], TableWidths[2]), TableWidths[3])
    IN normalizeElement(Table(r, c, createTableCells(r, c),
                              equalTableColWidths(c, width), width))

Fresh(t) == [table |-> t, row |-> 0, col |-> 0]

TypeOK ==
    /\ ui.table.rows \in 1 .. TableRowsMax /\ ui.table.cols \in 1 .. TableColsMax
    /\ ui.row \in 0 .. TableRowsMax - 1 /\ ui.col \in 0 .. TableColsMax - 1
    /\ \A i \in DOMAIN ui.table.cells :
          ui.table.cells[i] \in [source: {"static", "backend"}, value: 0 .. 1]

(* A new table of the size that is asked for, or one of a template, whose  *)
(* lists need not fit.                                                     *)
Mount ==
    /\ net' = <<>>
    /\ \/ \E r, c \in {0, 2} : ui' = Fresh(createTableElement(r, c))
       \/ \E r \in {2, TableRowsMax + 1}, n \in {3, 4}, ws \in {<<>>, <<1, 2>>} :
             ui' = Fresh(normalizeElement(
                      Table(r, 2, [i \in 1 .. n |-> Cell("static", i % 2)], ws, 4)))

(***************************************************************************)
(* TableProperties                                                         *)
(***************************************************************************)
safeRow == AtMost(ui.row, ui.table.rows - 1)
safeCol == AtMost(ui.col, ui.table.cols - 1)
Selected == CellAt(ui.table.cells, ui.table.cols, safeRow, safeCol)

Patch(t, row, col) ==
    /\ ui' = [table |-> updateElement(ui.table, normalizeElement(t)), row |-> row, col |-> col]
    /\ UNCHANGED net

selectCell ==
    /\ \E r \in 0 .. ui.table.rows - 1, c \in 0 .. ui.table.cols - 1 :
          ui' = [ui EXCEPT !.row = r, !.col = c]
    /\ UNCHANGED net

patchCell(cell) ==
    Patch([ui.table EXCEPT !.cells[safeRow * ui.table.cols + safeCol + 1] = cell], ui.row, ui.col)

editCell == Selected.source = "static" /\ patchCell(Cell("static", 1))

(* The text is gone once the cell is bound, and the other way round.       *)
setCellDataSource(source) ==
    patchCell(IF Selected.source = source THEN Selected ELSE Cell(source, 0))

setRows(n) ==
    LET t == ui.table
        r == clampTableRows(n)
    IN /\ r # t.rows
       /\ Patch([t EXCEPT !.rows = r, !.cells = resizeTableCells(@, t.rows, t.cols, r, t.cols)],
                AtMost(ui.row, r - 1), ui.col)

setCols(n) ==
    LET t == ui.table
        c == clampTableCols(n)
        resized == resizeTableColWidths(t, c)
    IN /\ c # t.cols /\ t.width <= MaxTableWidth
       /\ Patch([t EXCEPT !.cols = c, !.cells = resizeTableCells(@, t.rows, t.cols, t.rows, c),
                          !.colWidths = resized[1], !.width = resized[2]],
                ui.row, AtMost(ui.col, c - 1))

insertRow(at) ==
    LET t == ui.table
    IN /\ t.rows < TableRowsMax
       /\ Patch([t EXCEPT !.rows = @ + 1, !.cells = insertTableRow(@, t.rows, t.cols, at)],
                IF at <= safeRow THEN safeRow + 1 ELSE safeRow, ui.col)

insertCol(at) ==
    LET t == ui.table
        ws == insertTableColWidths(t, at, t.colWidths[safeCol + 1])
    IN /\ t.cols < TableColsMax /\ t.width <= MaxTableWidth
       /\ Patch([t EXCEPT !.cols = @ + 1, !.cells = insertTableCol(@, t.rows, t.cols, at),
                          !.colWidths = ws[1], !.width = ws[2]],
                ui.row, IF at <= safeCol THEN safeCol + 1 ELSE safeCol)

deleteRow ==
    LET t == ui.table
    IN /\ t.rows > 1
       /\ Patch([t EXCEPT !.rows = @ - 1, !.cells = removeTableRow(@, t.rows, t.cols, safeRow)],
                AtMost(ui.row, t.rows - 2), ui.col)

deleteCol ==
    LET t == ui.table
        ws == removeTableColWidths(t, safeCol)
    IN /\ t.cols > 1
       /\ Patch([t EXCEPT !.cols = @ - 1, !.cells = removeTableCol(@, t.rows, t.cols, safeCol),
                          !.colWidths = ws[1], !.width = ws[2]],
                ui.row, AtMost(ui.col, t.cols - 2))

setColWidth ==
    LET ws == [ui.table.colWidths EXCEPT ![safeCol + 1] = 1]
    IN /\ ui.table.width <= MaxTableWidth
       /\ Patch([ui.table EXCEPT !.colWidths = ws, !.width = SumOf(ws)], ui.row, ui.col)

equalizeColWidths ==
    Patch([ui.table EXCEPT !.colWidths = equalTableColWidths(ui.table.cols, ui.table.width)],
          ui.row, ui.col)

Inserting == insertRow(safeRow) \/ insertRow(safeRow + 1)
             \/ insertCol(safeCol) \/ insertCol(safeCol + 1)
Sizing    == \E n \in 0 .. TableRowsMax + 1 : setRows(n) \/ setCols(n)
Editing   == selectCell \/ editCell \/ \E s \in {"static", "backend"} : setCellDataSource(s)

Next ==
    \/ Editing \/ Inserting \/ Sizing \/ deleteRow \/ deleteCol
    \/ setColWidth \/ equalizeColWidths

(* Whatever was in the template and whatever was done to it: a cell for    *)
(* every place, and columns that make up the width.                        *)
TableConsistent ==
    LET t == ui.table
    IN /\ Len(t.cells) = t.rows * t.cols
       /\ Len(t.colWidths) = t.cols /\ SumOf(t.colWidths) = t.width

(* A row or a column that comes or goes leaves every other cell its        *)
(* content and its place among the rest; the selected cell stays selected  *)
(* when a row or a column is put before or after it.                       *)
SameBut(few, many, at, byRow) ==
    LET after(i) == IF i < at THEN i ELSE i + 1
    IN \A r \in 0 .. few.rows - 1, c \in 0 .. few.cols - 1 :
          CellAt(few.cells, few.cols, r, c) =
          CellAt(many.cells, many.cols, IF byRow THEN after(r) ELSE r,
                                        IF byRow THEN c ELSE after(c))

CellsKept ==
    LET t == ui.table
        u == ui'.table
    IN /\ u.rows = t.rows + 1 => \E at \in 0 .. t.rows : SameBut(t, u, at, TRUE)
       /\ u.cols = t.cols + 1 => \E at \in 0 .. t.cols : SameBut(t, u, at, FALSE)
       /\ u.rows = t.rows - 1 => \E at \in 0 .. u.rows : SameBut(u, t, at, TRUE)
       /\ u.cols = t.cols - 1 => \E at \in 0 .. u.cols : SameBut(u, t, at, FALSE)
       /\ u.rows + u.cols = t.rows + t.cols + 1 => Selected' = Selected
=============================================================================
