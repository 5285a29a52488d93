------------------------- MODULE MCWorkspaceHistory -------------------------
(* Workspaces and commands for TLC. *)
EXTENDS WorkspaceHistory

CONSTANTS room, shelf, bin, box, nook,    \* spaces
          spare,                          \* one that does not exist yet
          jar, tin, lamp, extra,          \* items; extra does not exist yet
          plan1, plan2,                   \* plans
          c1, c2, c3, c4, c5,             \* codes
          soup, tool,                     \* kinds
          blank, high, low                \* texts: nothing, names of spaces

S(parent, status, code) ==
  [parent |-> parent, archived |-> 0, status |-> status, code |-> code,
   order |-> 0, stamp |-> 0]

I(loc, qty, kind) ==
  [loc |-> loc, qty |-> qty, kind |-> kind, order |-> 0, stamp |-> 0]

\* A room with a shelf and a bin; a box and an archived nook on the shelf;
\* equivalent items in the box and the bin.
Layout(shelfStatus, binStatus, boxStatus) ==
  [r \in Records |->
     CASE r = Home  -> [order |-> 0]
       [] r = room  -> S(Top, "in_progress", c1)
       [] r = shelf -> S(room, shelfStatus, c2)
       [] r = bin   -> S(room, binStatus, c3)
       [] r = box   -> S(shelf, boxStatus, c4)
       [] r = nook  -> [S(shelf, "uncounted", c5) EXCEPT !.archived = -1]
       [] r = jar   -> I(box, 2, soup)
       [] r = tin   -> I(bin, 1, soup)
       [] r = lamp  -> I(box, 1, tool)
       [] OTHER     -> Gone]

Fresh   == Layout("in_progress", "in_progress", "in_progress")
Counted == Layout("counted", "counted", "counted")
Started1 == Layout("uncounted", "in_progress", "counted")

SpaceCommands == {"rename", "space.create", "space.order", "space.code",
                  "space.move", "space.archive", "space.delete",
                  "capture.empty", "capture.status"}
ItemCommands  == {"item.create", "item.update", "item.order",
                  "item.bulkUpdate", "item.delete", "item.move",
                  "item.bulkMove"}
PlanCommands  == {"plan.create", "plan.status", "plan.step"}
HistoryCommands == {"history.pluck", "history.batch"}

Try(w, commands, depth) == [start |-> w, commands |-> commands, depth |-> depth]

\* Any two commands on spaces and items; changes of the forest and their undo;
\* a plan made, disturbed, carried out and undone; tables imported; edits undone
\* and redone, also for long enough that receipts are forgotten too.
MCScope ==
  {Try(w, SpaceCommands \cup ItemCommands, 2) : w \in {Fresh, Started1}}
  \cup {Try(Fresh, {"space.create", "space.code", "space.move",
              "space.archive", "space.delete", "history.pluck"}, 3)}
  \cup {Try(Counted, PlanCommands \cup {c, "history.pluck"}, 3) :
          c \in {"space.move", "item.move"}}
  \cup {Try(Counted, {"item.import", "capture.status", "space.archive",
              "space.move", "history.batch"}, 2)}
  \cup {Try(Fresh, HistoryCommands \cup {"item.update", "item.bulkMove"}, 3),
        Try(Fresh, HistoryCommands \cup {"item.update", "item.order"}, 4),
        Try(Fresh, {"item.update", "history.pluck"}, 6)}

MCRoute == {<<<<tin, shelf>>, <<jar, bin>>>>, <<<<box, bin>>, <<tin, shelf>>>>,
            <<<<lamp, shelf>>>>, <<<<tin, box>>, <<jar, shelf>>>>}

\* The shelf and the box have one name; the bin is known by it too, inside the
\* room.
MCNameOf == [l \in Loc |-> IF l \in {shelf, box, nook} THEN high ELSE low]

Says(text, kind, number) == [text |-> text, kind |-> kind, number |-> number]

\* Names, quantities, classes and spaces: by code, by path, by a name that is
\* ambiguous or becomes so; rows without a name or a quantity, a long row.
MCTables ==
  LET row(n, q, k, text) == <<Says(n, soup, 1), Says(blank, soup, q),
                              Says(blank, k, 1), Says(text, soup, 1)>>
      table(rows) == [columns |-> 4, kind |-> soup, rows |-> rows]
  IN {table(<<row(high, 2, tool, c4), row(low, 0, soup, c3)>>),
      table(<<row(high, 1, soup, <<low, high>>), row(blank, 1, tool, c2)>>),
      table(<<row(low, 1, tool, <<high>>) \o row(low, 1, tool, c2),
              SubSeq(row(low, 1, soup, c2), 1, 3)>>)}

MCMappings ==
  {[name |-> n, quantity |-> 2, category |-> k, location |-> l] :
     n \in {0, 1}, k \in {0, 3}, l \in {0, 4}}
  \cup {[name |-> 1, quantity |-> 2, category |-> 2, location |-> 5]}

MCSelections == {[areas |-> Whole, pins |-> {}], [areas |-> {shelf}, pins |-> {}],
                 [areas |-> {room}, pins |-> {}], [areas |-> {room}, pins |-> {lamp}]}
=============================================================================
