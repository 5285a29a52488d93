------------------------------ MODULE CsvImport ------------------------------
(***************************************************************************)
(* Items imported from a table: which rows can become items, where they go *)
(* and what the command that makes them asks for.  A cell stands for what  *)
(* can be read in it.  Column 0 is no column.  Of the columns of an item   *)
(* the model has those that can refuse a row or that plans depend on; a    *)
(* frequency refuses a row the way a quantity does.  The size limits of    *)
(* files and snapshots are left out.                                       *)
(***************************************************************************)
EXTENDS Inventory

CONSTANTS
  NameOf,  \* the names of the spaces, [Loc -> Name]; renaming is left out
  Blank    \* the text of an empty cell

Field == {"name", "quantity", "category", "location"}

\* What a cell says: a text (a code, or the names of spaces from the outside
\* in), a class of items, a quantity; 0 is no positive decimal.
BlankCell(kind) == [text |-> Blank, kind |-> kind, number |-> 1]

Mapped(mapping) == {f \in Field : mapping[f] # 0}

\* rowCell
Cell(row, column, kind) ==
  IF column \in DOMAIN row THEN row[column] ELSE BlankCell(kind)

-----------------------------------------------------------------------------
(* Which space a text names. *)

\* locationNamePath, through active spaces.
PathTo(w, l) ==
  LET path[m \in Loc] ==
        IF w[m].parent \in Live(w) THEN Append(path[w[m].parent], NameOf[m])
        ELSE <<NameOf[m]>>
  IN path[l]

\* matchCsvLocation: codes before paths before names, and only one space.
Matching(w, text) ==
  LET coded == {l \in Live(w) : w[l].code = text}
      there == {l \in Live(w) : PathTo(w, l) = text}
      named == {l \in Live(w) : <<NameOf[l]>> = text}
  IN IF coded # {} THEN coded ELSE IF there # {} THEN there ELSE named

\* suggestedCsvLocationAssignments; Top stands for none.
Suggested(w, texts) ==
  [t \in texts |-> IF t # Blank /\ Cardinality(Matching(w, t)) = 1
                   THEN CHOOSE l \in Matching(w, t) : TRUE ELSE Top]

-----------------------------------------------------------------------------
(* A table is [columns, kind (of a row that says none), rows], rows of     *)
(* cells.  Its rows go where the text of their location is assigned, which *)
(* is blank for all when no column says one.                               *)

TextsIn(table, column) ==
  {Cell(row, column, table.kind).text : row \in ToSet(table.rows)}

\* mappingIssues
MappingIssues(w, table, mapping, assigned) ==
  ({"NO_DATA_ROWS"} \X (IF table.rows = << >> THEN {0} ELSE {}))
  \cup ({"NAME_COLUMN_REQUIRED"} \X ({mapping["name"]} \cap {0}))
  \cup {<<IF f = "location" THEN "LOCATION_COLUMN_REQUIRED"
          ELSE "INVALID_COLUMN", mapping[f]>> :
           f \in {g \in Mapped(mapping) : mapping[g] \notin 1..table.columns}}
  \cup ({"DESTINATION_REQUIRED"} \X
          (IF mapping["location"] = 0 /\ \E t \in DOMAIN assigned :
                                           assigned[t] \notin Live(w)
           THEN {0} ELSE {}))
  \cup ({"DUPLICATE_COLUMN_MAPPING"} \X {mapping[f] : f \in
          {g \in Mapped(mapping) : \E h \in Mapped(mapping) \ {g} :
             mapping[h] = mapping[g]}})

\* rowDestination
Destination(w, table, mapping, assigned, row) ==
  {assigned[Cell(row, mapping["location"], table.kind).text]} \cap Live(w)

\* planRows: what makes a row no item.
RowFaults(w, table, mapping, assigned, row) ==
  {f \in {"extra columns", "name", "quantity", "location"} :
     CASE f = "extra columns" -> Len(row) > table.columns
       [] f = "name"     -> Cell(row, mapping["name"], table.kind).text = Blank
       [] f = "quantity" -> Cell(row, mapping["quantity"], table.kind).number = 0
       [] f = "location" -> Destination(w, table, mapping, assigned, row) = {}}

\* createItem, for a row without faults.
ItemOf(w, table, mapping, assigned, row, now) ==
  [loc |-> CHOOSE l \in Destination(w, table, mapping, assigned, row) : TRUE,
   qty |-> Cell(row, mapping["quantity"], table.kind).number,
   kind |-> Cell(row, mapping["category"], table.kind).kind,
   order |-> now, stamp |-> now]

\* planCsvImport: the items of the rows that have no fault, once what is wrong
\* with all rows is put right; it asks to reopen spaces that are counted.
PlanImport(w, table, mapping, assigned, now) ==
  LET ready == IF MappingIssues(w, table, mapping, assigned) # {} THEN << >>
               ELSE Picked(table.rows, {i \in DOMAIN table.rows :
                      RowFaults(w, table, mapping, assigned, table.rows[i]) = {}})
      items == [i \in DOMAIN ready |->
                  ItemOf(w, table, mapping, assigned, ready[i], now)]
  IN [items |-> items,
      reopen |-> \E i \in DOMAIN items : w[items[i].loc].status \in Complete]
=============================================================================
