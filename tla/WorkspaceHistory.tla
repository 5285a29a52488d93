-------------------------- MODULE WorkspaceHistory --------------------------
(***************************************************************************)
(* One workspace under a sequence of accepted commands: applyCommand with  *)
(* the compaction the server runs after it.  Every command is one action;  *)
(* its guard is what the code refuses otherwise, and a refused command     *)
(* changes nothing.  Commands write patches to the inventory and leave an  *)
(* activity; undo and redo apply the patches of activities again and leave *)
(* an audit event.                                                         *)
(***************************************************************************)
EXTENDS CsvImport

CONSTANTS
  Scope   \* [start, commands, depth]: a sound workspace without history, the
          \* commands tried from it and how many of them (bounds)

VARIABLES
  content,    \* the records
  history,    \* activities, audit events, receipts
  revision,   \* workspace.revision; also the id of the last command
  trail,      \* the contents after each revision: for the properties, to tell
              \* the ids that were ever used and what a user was shown
  scope

vars == <<content, history, revision, trail, scope>>

Records == Loc \cup Item \cup Plan \cup {Home}

Now == revision + 1

Offered(command) == command \in scope.commands /\ revision < scope.depth

PatchFields == {"", "parent", "archived", "status", "code", "order", "loc",
                "qty", "kind", "steps"}

\* The records have the fields commands.ts gives them, no item is empty, and
\* history names only commands that were accepted.
TypeOK ==
  /\ \A l \in Loc : content[l] = Gone \/ content[l] \in Space
  /\ \A x \in Item : content[x] = Gone \/ content[x] \in Stock
  /\ \A p \in Plan : content[p] = Gone \/ content[p] \in MovePlan
  /\ \A a \in ToSet(history.activities) :
       /\ a.id \in 1..revision /\ a.status \in {"applied", "undone"}
       /\ \A p \in ToSet(a.patches) : p.of \in Records /\ p.field \in PatchFields
  /\ \A e \in ToSet(history.audit) :
       /\ e.id \in 1..revision /\ e.type \in {"undo", "redo"}
       /\ e.targets \in Seq(1..revision)
  /\ history.receipts \in Seq(1..revision)
  /\ revision = Len(trail) - 1

\* New ids are random: one that was ever used is never used again.
Unused(R) == {r \in R : \A i \in DOMAIN trail : trail[i][r] = Gone}

\* expectationConflicts: what a command was made for is as its user saw it.
AsShown(w, expected) ==
  \A e \in expected : /\ content[e[1]] # Gone
                       /\ content[e[1]][e[2]] = w[e[1]][e[2]]

-----------------------------------------------------------------------------
(* What an accepted command leaves. *)

Commit(v, h, activityIds, auditIds) ==
  /\ content' = v
  /\ history' = Compacted(h, activityIds, auditIds)
  /\ revision' = Now
  /\ trail' = Append(trail, v)
  /\ UNCHANGED scope

Write(ps) ==
  Commit(PatchedAll(content, ps),
         [history EXCEPT !.activities = Append(@,
            [id |-> Now, patches |-> Meaningful(ps), status |-> "applied"])],
         {Now}, {})

-----------------------------------------------------------------------------
(* Spaces. *)

\* workspace.rename
RenameWorkspace ==
  /\ Offered("rename")
  /\ Write(<<Set(content, Home, "order", Now)>>)

\* location.create
CreateSpace(l, parent, code) ==
  /\ Offered("space.create")
  /\ l \in Unused(Loc)
  /\ CodeIsFree(content, code, l)
  /\ parent \in Live(content) \cup {Top}
  /\ ContentsEditable(content, {parent})
  /\ Write(Invalidation(content, {}, {parent})
           \o <<Put(l, [parent |-> parent, archived |-> 0, code |-> code,
                        status |-> "uncounted", order |-> Now,
                        stamp |-> Now])>>
           \o InProgress(content, Started(content, {parent}), Now))

\* location.reorder, and location.update of what nothing else depends on.
ReorderSpace(l) ==
  /\ Offered("space.order")
  /\ l \in Live(content)
  /\ Write(SetEach(content, {l}, "order", [m \in {l} |-> Now], Now))

\* location.update of the physical code.
RecodeSpace(l, code) ==
  /\ Offered("space.code")
  /\ l \in Live(content)
  /\ code # content[l].code /\ CodeIsFree(content, code, l)
  /\ Write(SetEach(content, {l}, "code", [m \in {l} |-> code], Now))

\* location.move, and location.update of the parent.
MoveSpace(l, parent, reopen) ==
  LET from == content[l].parent IN
  /\ Offered("space.move")
  /\ l \in Live(content)
  /\ parent # from /\ MayLieIn(content, l, parent)
  /\ MayMove(content, {from}, parent, reopen)
  /\ Write(<<Set(content, l, "parent", parent)>>
           \o Invalidation(content, {}, {l, parent})
           \o <<Set(content, l, "stamp", Now)>>
           \o MoveProgress(content, {from}, parent, reopen, Now))

\* Mutation of Archivable: nested spaces are not looked at.
ArchivableWithoutDescendants(l) ==
  l \in Live(content) /\ Contents(content, l) = {}

Archivable(l) ==
  /\ l \in Live(content)
  /\ (Within(content, l) \ {l}) \cap Live(content) = {}
  /\ Contents(content, l) = {}

\* location.archive
ArchiveSpace(l) ==
  LET up == {content[l].parent} IN
  /\ Offered("space.archive")
  /\ Archivable(l)
  /\ ContentsEditable(content, up)
  /\ Write(SetEach(content, {l}, "archived", [m \in {l} |-> Now], Now)
           \o Invalidation(content, {}, {l} \cup up))

Restorable(l) ==
  /\ l \in Locs(content) \ Live(content)
  /\ CodeIsFree(content, content[l].code, l)
  /\ MayLieIn(content, l, content[l].parent)

\* location.archive with archived = false
RestoreSpace(l) ==
  LET up == {content[l].parent} IN
  /\ Offered("space.archive")
  /\ Restorable(l)
  /\ ContentsEditable(content, up)
  /\ Write(SetEach(content, {l}, "archived", [m \in {l} |-> 0], Now)
           \o Invalidation(content, {}, {l} \cup up)
           \o InProgress(content, Started(content, up), Now))

\* location.delete of the subtree the user reviewed.
DeleteSpace(l) ==
  LET down == Within(content, l)
      inside == UNION {Contents(content, m) : m \in down}
  IN
  /\ Offered("space.delete")
  /\ l \in Locs(content)
  /\ ContentsEditable(content,
       {content[m].parent : m \in down \cap Live(content)}
         \cup {content[x].loc : x \in inside})
  /\ Write(Invalidation(content, inside, down)
           \o TakeOutAll(content, inside)
           \o TakeOutAll(content, down \ {l})
           \o <<TakeOut(content, l)>>)

\* capture.empty of the items the user reviewed.
EmptySpace(l) ==
  LET inside == Contents(content, l) IN
  /\ Offered("capture.empty")
  /\ l \in Live(content)
  /\ Children(content, l) = {} /\ inside # {}
  /\ Write(Invalidation(content, inside, {l})
           \o TakeOutAll(content, inside)
           \o SetEach(content, {l}, "status", [m \in {l} |-> "known_empty"],
                      Now))

\* capture.status
Capture(l, status) ==
  /\ Offered("capture.status")
  /\ l \in Live(content)
  /\ status # content[l].status
  /\ status = "known_empty" =>
       Children(content, l) \cup Contents(content, l) = {}
  /\ Write(Invalidation(content, {}, {l})
           \o SetEach(content, {l}, "status", [m \in {l} |-> status], Now))

-----------------------------------------------------------------------------
(* Items. *)

\* item.create and item.bulkCreate (which alone may reopen): these items.
AddItems(new, reopen) ==
  LET ids == SetToSeq(Unused(Item))
      ls  == {x.loc : x \in ToSet(new)}
      open == {l \in ls : content[l].status = "uncounted"
                          \/ (reopen /\ content[l].status \in Complete)}
  IN
  /\ new # << >> /\ Len(new) <= Len(ids)
  /\ ls \subseteq Live(content)
  /\ reopen \/ ContentsEditable(content, ls)
  /\ Write(Invalidation(content, {}, ls)
           \o [i \in DOMAIN new |-> Put(ids[i], new[i])]
           \o InProgress(content, open, Now))

CreateItems(ls, kind, reopen) ==
  LET at == SetToSeq(ls) IN
  /\ Offered("item.create")
  /\ AddItems([i \in DOMAIN at |-> [loc |-> at[i], qty |-> 1, kind |-> kind,
                                    order |-> Now, stamp |-> Now]], reopen)

\* item.bulkCreate as CsvImportDialog makes it, from the state it shows.
ImportItems(table, mapping, assigned, shown) ==
  LET w == trail[shown]
      plan == PlanImport(w, table, mapping, assigned, Now)
  IN
  /\ AsShown(w, {x.loc : x \in ToSet(plan.items)} \X {"status"})
  /\ AddItems(plan.items, plan.reopen)

\* item.update, for fields plans depend on.
UpdateItem(x, field, v) ==
  /\ Offered("item.update")
  /\ x \in Items(content)
  /\ content[x][field] # v
  /\ content[x].loc \in Live(content)
  /\ ContentsEditable(content, {content[x].loc})
  /\ Write(Invalidation(content, {x}, {content[x].loc})
           \o SetEach(content, {x}, field, [y \in {x} |-> v], Now))

\* item.reorder, and item.update of what nothing else depends on.
ReorderItem(x) ==
  /\ Offered("item.order")
  /\ x \in Items(content)
  /\ ContentsEditable(content, {content[x].loc})
  /\ Write(SetEach(content, {x}, "order", [y \in {x} |-> Now], Now))

\* planBulkEdit: the items that it changes, when all are there.
PlanBulkEdit(w, X, kind) ==
  IF X \subseteq Items(w) /\ {w[x].loc : x \in X} \subseteq Live(w)
  THEN {x \in X : w[x].kind # kind} ELSE {}

\* item.bulkUpdate as BulkEditDialog makes it: it reopens the spaces, and is
\* refused when they or the items are not as they were shown.
BulkUpdate(X, kind, shown) ==
  LET w  == trail[shown]
      Y  == PlanBulkEdit(w, X, kind)
      at == {w[x].loc : x \in Y}
  IN
  /\ Offered("item.bulkUpdate")
  /\ Y # {}
  /\ AsShown(w, (Y \X {"loc", "kind"}) \cup (at \X {"status", "archived"}))
  /\ Write(Invalidation(content, Y, at)
           \o SetEach(content, Y, "kind", [x \in Y |-> kind], Now)
           \o InProgress(content, Reopened(content, at, Top), Now))

\* item.delete
DeleteItem(x) ==
  /\ Offered("item.delete")
  /\ x \in Items(content)
  /\ ContentsEditable(content, {content[x].loc})
  /\ Write(Invalidation(content, {x}, {content[x].loc})
           \o <<TakeOut(content, x)>>)

\* item.move, of all or of a part.
MoveItem(x, to, q, reopen) ==
  LET from == content[x].loc
      split == CHOOSE y \in Unused(Item) : TRUE
  IN
  /\ Offered("item.move")
  /\ x \in Items(content) /\ to \in Live(content) /\ to # from
  /\ q \in 1..content[x].qty
  /\ q < content[x].qty => Unused(Item) # {}
  /\ MayMove(content, {from}, to, reopen)
  /\ Write(Invalidation(content, {x}, {from, to})
           \o MoveParts(content, x, to, q, split, Now)
           \o MoveProgress(content, {from}, to, reopen, Now))

\* item.bulkMove; items that are already there stay.
BulkMove(X, to, reopen) ==
  LET Y  == {x \in X : content[x].loc # to}
      at == {content[x].loc : x \in Y}
  IN
  /\ Offered("item.bulkMove")
  /\ X \subseteq Items(content) /\ to \in Live(content) /\ Y # {}
  /\ MayMove(content, at, to, reopen)
  /\ Write(Invalidation(content, Y, at \cup {to})
           \o BulkMoveParts(content, Y, to, Now)
           \o MoveProgress(content, at, to, reopen, Now))

-----------------------------------------------------------------------------
(* Plans. *)

\* generatePlan, as far as it does not weigh: a step for each pair <<what,
\* to>> of the route, each made for what the steps before it leave.
Projected(route) ==
  LET after[n \in 0..Len(route)] ==
        IF n = 0 THEN [w |-> content, steps |-> << >>]
        ELSE LET w == after[n - 1].w
                 what == route[n][1]
                 here == IF what \in Item THEN "loc" ELSE "parent"
             IN [w |-> [w EXCEPT ![what] = [@ EXCEPT ![here] = route[n][2]]],
                 steps |-> Append(after[n - 1].steps,
                   [what |-> what, from |-> w[what][here], to |-> route[n][2],
                    qty |-> IF what \in Item THEN w[what].qty ELSE 0,
                    done |-> 0])]
  IN after

\* Which routes the planner may come up with: containers of at least two
\* items first, nothing moved twice.
Plannable(route, s) ==
  LET before(i) == Projected(route)[i - 1].w
      carried(i) == UNION {Contents(before(i), m) :
                             m \in Within(before(i), route[i][1])}
  IN
  /\ \A i \in DOMAIN route :
       /\ route[i][2] \in Live(content) \ Room
       /\ content[route[i][2]].status \in Complete
       /\ CanReceive(content, s, route[i][2])
       /\ route[i][1] \in Loc =>
            /\ route[i][1] \in Box /\ content[route[i][1]].status = "counted"
            /\ content[route[i][1]].parent # Top
            /\ route[i][2] \notin Within(before(i), route[i][1])
            /\ Cardinality(carried(i)) >= 2
  /\ \A i, j \in DOMAIN route : i < j =>
       /\ route[i][1] # route[j][1]
       /\ route[j][1] \in Loc =>
            route[i][1] \in Loc /\ carried(i) \cap carried(j) = {}
       /\ route[j][1] \notin carried(i)

\* plan.create of a plan the planner proposes; the active one is discarded.
CreatePlan(p, route, s) ==
  LET plan == [status |-> "active", steps |-> Projected(route)[Len(route)].steps,
               selection |-> s]
  IN
  /\ Offered("plan.create")
  /\ p \in Unused(Plan)
  /\ route # << >>
  /\ \A i \in DOMAIN route : route[i][1] \in Items(content) \cup Live(content)
  /\ SelectionExists(content, s)
  /\ Plannable(route, s)
  /\ Executable(content, plan)
  /\ Write(PlanStatusAll(content, ActivePlans(content), "discarded")
           \o <<Put(p, plan)>>)

\* plan.status
MarkPlan(p, status) ==
  /\ Offered("plan.status")
  /\ p \in Plans(content)
  /\ status # content[p].status
  /\ status = "active" => /\ ActivePlans(content) \ {p} = {}
                          /\ Executable(content, content[p])
  /\ status = "completed" => Pending(content[p]) = {}
  /\ Write(PlanStatusAll(content, {p}, status))

\* plan.step.complete: the oldest step that is left.
CompleteStep(p) ==
  LET plan == content[p]
      i    == Min(Pending(plan))
      st   == plan.steps[i]
      done == [plan.steps EXCEPT ![i].done = Now]
  IN
  /\ Offered("plan.step")
  /\ ActivePlans(content) = {p}
  /\ Pending(plan) # {}
  /\ SelectionExists(content, plan.selection)
  /\ StepSelected(content, plan.selection, st)
  /\ StepFresh(content, st)
  /\ Write(StepParts(content, st, Now)
           \o MoveProgress(content, {st.from}, st.to, TRUE, Now)
           \o <<Set(content, p, "steps", done),
                Set(content, p, "status",
                    IF Pending(plan) = {i} THEN "completed" ELSE "active")>>)

-----------------------------------------------------------------------------
(* Undo and redo. *)

Reversed(ps) ==
  [i \in DOMAIN ps |->
     LET p == ps[Len(ps) + 1 - i]
     IN [p EXCEPT !.before = p.after, !.after = p.before]]

\* What an activity does to the inventory in this direction.
Effect(a, undo) == IF undo THEN Reversed(a.patches) ELSE a.patches

\* Mutation of Agrees: the values found do not matter.
AgreesWithAnything(w, p) == p.field = "" \/ w[p.of] # Gone

Agrees(w, p) == ReadAt(w, p) = p.before

\* touchHistoryRecords: what is there after the patches counts as changed.
TouchedBy(w, ps) ==
  LET R == {p.of : p \in {q \in ToSet(ps) : q.field # ""}} IN
  [r \in DOMAIN w |-> IF r \in R \cap (Items(w) \cup Locs(w))
                      THEN [w[r] EXCEPT !.stamp = Now] ELSE w[r]]

\* historyConflicts and the patches of one activity, on a result so far.
Replay(st, a, undo) ==
  LET ps == Effect(a, undo)
      f[i \in 0..Len(ps)] ==
        IF i = 0 THEN st
        ELSE LET s == f[i - 1] IN
             IF s.ok /\ Agrees(s.w, ps[i])
             THEN [ok |-> TRUE, w |-> Patched(s.w, ps[i])]
             ELSE [s EXCEPT !.ok = FALSE]
      end == f[Len(ps)]
  IN [end EXCEPT !.w = IF end.ok THEN TouchedBy(@, a.patches) ELSE @]

\* applyHistoryAction: the activities with these ids, in this order.
Replayed(ids, undo) ==
  LET f[i \in 0..Len(ids)] ==
        IF i = 0 THEN [ok |-> TRUE, w |-> content]
        ELSE LET a == CHOOSE b \in ToSet(history.activities) : b.id = ids[i]
             IN IF a.status = (IF undo THEN "applied" ELSE "undone")
                THEN Replay(f[i - 1], a, undo)
                ELSE [f[i - 1] EXCEPT !.ok = FALSE]
      end == f[Len(ids)]
  IN [end EXCEPT !.ok = @ /\ ValidAfter(content, end.w)]

HistoryCommand(ids, undo) ==
  LET result == Replayed(ids, undo) IN
  /\ result.ok
  /\ Commit(result.w,
       [history EXCEPT
          !.activities = [i \in DOMAIN @ |->
             IF Contains(ids, @[i].id)
             THEN [@[i] EXCEPT !.status = IF undo THEN "undone" ELSE "applied"]
             ELSE @[i]],
          !.audit = Append(@, [id |-> Now, targets |-> ids,
                               type |-> IF undo THEN "undo" ELSE "redo"])],
       ToSet(ids), {Now})

\* history.undo and history.reapply of any one activity.
Pluck(id, undo) ==
  /\ Offered("history.pluck")
  /\ id \in ToSet(IdsOf(history.activities))
  /\ HistoryCommand(<<id>>, undo)

WithStatus(status) ==
  LET as == history.activities
  IN IdsOf(Picked(as, {i \in DOMAIN as : as[i].status = status}))

\* Mutation of NewestApplied: the oldest of them first.
OldestOfNewest(n) ==
  LET ids == WithStatus("applied") IN SubSeq(ids, Len(ids) + 1 - n, Len(ids))

\* history.batchUndo takes the newest applied activities, newest first.
NewestApplied(n) == SubSeq(Reverse(WithStatus("applied")), 1, n)

\* history.batchRedo: what was undone last comes first; then what no audit
\* event remembers.
Redoable ==
  LET audit == Reverse(history.audit)
      undos == Picked(audit, {i \in DOMAIN audit : audit[i].type = "undo"})
      named == FlattenSeq([i \in DOMAIN undos |-> Reverse(undos[i].targets)])
      all   == named \o WithStatus("undone")
  IN Picked(all, {i \in DOMAIN all : /\ Contains(WithStatus("undone"), all[i])
                                    /\ \A j \in 1..(i - 1) : all[j] # all[i]})

UndoLast(n) ==
  /\ Offered("history.batch")
  /\ n \in 1..Len(WithStatus("applied"))
  /\ HistoryCommand(NewestApplied(n), TRUE)

RedoLast(n) ==
  /\ Offered("history.batch")
  /\ n \in 1..Len(Redoable)
  /\ HistoryCommand(SubSeq(Redoable, 1, n), FALSE)

-----------------------------------------------------------------------------
CONSTANTS
  Route,      \* the routes and selections plans are proposed with (bounds)
  Selections,
  Tables,     \* the tables that are imported, and how (bounds)
  Mappings,
  MaxQty,     \* the largest quantity a user types in
  MaxBatch    \* the largest number of changes undone or redone at once

\* A table has a list of rows.
ASSUME TablesAssumption ==
  \A table \in Tables : table.rows \in Seq(ToSet(table.rows))

Init ==
  /\ scope \in Scope
  /\ content = scope.start
  /\ history = EmptyHistory
  /\ revision = 0
  /\ trail = <<content>>

SpaceCommand ==
  \/ RenameWorkspace
  \/ \E l \in Loc :
       \/ \E parent \in Loc \cup {Top} :
            \/ \E code \in Code : CreateSpace(l, parent, code)
            \/ \E reopen \in BOOLEAN : MoveSpace(l, parent, reopen)
       \/ \E code \in Code : RecodeSpace(l, code)
       \/ ReorderSpace(l) \/ ArchiveSpace(l) \/ RestoreSpace(l)
       \/ DeleteSpace(l) \/ EmptySpace(l)
       \/ \E status \in Status : Capture(l, status)

\* A user assigns the spaces suggested when the file was chosen, or others.
ImportCommand ==
  /\ Offered("item.import")
  /\ \E table \in Tables, mapping \in Mappings, shown \in DOMAIN trail :
       LET texts == TextsIn(table, mapping["location"]) IN
       \E assigned \in {Suggested(trail[i], texts) : i \in 1..shown}
                       \cup {[t \in texts |-> l] : l \in Loc} :
         ImportItems(table, mapping, assigned, shown)

ItemCommand ==
  \/ \E l, m \in Loc, kind \in Kind, reopen \in BOOLEAN :
       CreateItems({l, m}, kind, reopen)
  \/ \E x \in Item :
       \/ \E q \in 1..MaxQty : UpdateItem(x, "qty", q)
       \/ \E kind \in Kind : UpdateItem(x, "kind", kind)
       \/ ReorderItem(x) \/ DeleteItem(x)
       \/ \E to \in Loc, q \in 1..(2 * MaxQty), reopen \in BOOLEAN :
            MoveItem(x, to, q, reopen)
  \/ \E x, y \in Item :
       \/ \E kind \in Kind, shown \in DOMAIN trail :
            BulkUpdate({x, y}, kind, shown)
       \/ \E to \in Loc, reopen \in BOOLEAN : BulkMove({x, y}, to, reopen)

PlanCommand ==
  \E p \in Plan :
    \/ \E route \in Route, s \in Selections : CreatePlan(p, route, s)
    \/ \E status \in {"active", "completed", "discarded"} : MarkPlan(p, status)
    \/ CompleteStep(p)

Next ==
  \/ SpaceCommand \/ ItemCommand \/ ImportCommand \/ PlanCommand
  \/ \E id \in 1..revision, undo \in BOOLEAN : Pluck(id, undo)
  \/ \E n \in 1..MaxBatch : UndoLast(n) \/ RedoLast(n)

Spec == Init /\ [][Next]_vars

-----------------------------------------------------------------------------
(* Properties. *)

\* No sequence of commands, undone and redone in any order, leaves the forest
\* with a cycle, a reference to nothing, two active spaces with one code, an
\* active space in an archived one, contents in a space known to be empty or a
\* second active plan; and audit events name activities that exist.  Only the
\* moves of a plan that has been started may be out of date.
SoundInventory ==
  /\ Forest(content) /\ NothingDangles(content)
  /\ CodesUnique(content) /\ NoStepIsCyclic(content)
  /\ \A issue \in LegacyIssues(content) :
       /\ issue[1] = "STALE_ITEM"
       /\ Pending(content[issue[2][1]]) # DOMAIN content[issue[2][1]].steps
  /\ \A e \in ToSet(history.audit) :
       ToSet(e.targets) \subseteq ToSet(IdsOf(history.activities))

\* An active plan nothing of which is done can be carried out: every change
\* that would make one of its moves stale, or carry a move over the border of
\* its areas, has discarded it (planInvalidationPatches).
PlanMatchesUntilStarted ==
  \A p \in ActivePlans(content) :
    Pending(content[p]) = DOMAIN content[p].steps
      => Executable(content, content[p])

Written ==
  UNION {{<<p.of, p.field>> : p \in ToSet(a.patches)} :
           a \in ToSet(history.activities)}

WritesTo(r, field) ==
  FlattenSeq([i \in DOMAIN history.activities |->
    LET a  == history.activities[i]
        ps == SelectSeq(a.patches, LAMBDA p : p.of = r /\ p.field = field)
    IN [j \in DOMAIN ps |->
          [applied |-> a.status = "applied", v |-> ps[j].after]]])

\* Every field holds what the newest change that is applied to it left there,
\* or its first value: undoing and reapplying in any order never mixes two
\* changes (historyConflicts).  Values that return make no conflict, so this
\* is about fields whose values all differ, in logs that are complete.
AppliedHistoryExplains ==
  Len(history.activities) + Len(history.audit) = revision =>
    \A rf \in {w \in Written : <<w[1], "">> \notin Written} :
      LET r == rf[1]
          f == rf[2]
          ws == WritesTo(r, f)
          on == SelectSeq(ws, LAMBDA x : x.applied)
          first == trail[1][r][f]
      IN Cardinality({ws[i].v : i \in DOMAIN ws} \cup {first}) = Len(ws) + 1 =>
           content[r][f] = IF on = << >> THEN first ELSE on[Len(on)].v

\* The n last commands were changes, and are applied.
LastAreChanges(n) ==
  /\ n <= Len(history.activities)
  /\ \A i \in 1..n :
       LET a == history.activities[Len(history.activities) + 1 - i]
       IN a.id = revision + 1 - i /\ a.status = "applied"

\* A record that one of the n last changes made or took away and another of
\* them touched.
Recreated(n) ==
  LET last == SubSeq(Reverse(history.activities), 1, n) IN
  \E i, j \in DOMAIN last :
    /\ i # j
    /\ \E p \in ToSet(last[i].patches), q \in ToSet(last[j].patches) :
         p.of = q.of /\ p.field = "" /\ p.of \notin Plan

Undoable(n) == LastAreChanges(n) /\ Sound(trail[Len(trail) - n])

\* The n last changes can be undone at once, when that leads to a state that
\* had nothing wrong with it (historyConflicts, validateSnapshot).
RecentEditsCanBeUndone ==
  \A n \in 1..MaxBatch :
    Undoable(n) /\ ~ Recreated(n) => Replayed(NewestApplied(n), TRUE).ok

\* Compaction never takes what the accepted command just did: its activity, or
\* its audit event and the activities that names.  Audit events and receipts stay
\* within their limits; so do activities and patches unless only what may not go
\* is left, and the size unless nothing else is left but the newest receipt.
AcceptedChangeKept ==
  LET last == history.audit[Len(history.audit)]
      own == IF history.audit # << >> /\ last.id = revision
             THEN {revision} \cup ToSet(last.targets) ELSE {revision}
      activities == ToSet(IdsOf(history.activities))
      events == ToSet(IdsOf(history.audit))
  IN revision > 0 =>
       /\ own \subseteq activities \cup events
       /\ Len(history.audit) <= AuditLimit
       /\ Len(history.receipts) <= ReceiptLimit
       /\ \/ /\ Len(history.activities) <= ActivityLimit
             /\ PatchesIn(history.activities) <= PatchLimit
          \/ activities \subseteq own
       /\ \/ Size(history) <= SizeLimit
          \/ activities \cup events \subseteq own /\ Len(history.receipts) <= 1

\* The places of what compaction took.
Lost(before, after) ==
  {i \in DOMAIN before : before[i].id \notin ToSet(IdsOf(after))}

\* What an entry with n patches or targets weighs more than the receipt in its
\* place, if that took no other's.
Saved(n) == 2 + n - (IF Len(history'.receipts) < ReceiptLimit THEN 1 ELSE 0)

\* Nothing is taken without need: with the newest of the activities that were,
\* history would be over a limit; so it would with the newest of the audit
\* events, of those that still name an activity, when no activity was taken; and
\* so it would with a receipt more (minimalRemovalCount, compactBytes).
LostOfNeed ==
  LET activities == Lost(history.activities, history'.activities)
      a == history.activities[Max(activities)]
      left == ToSet(IdsOf(history'.activities))
      events == {i \in Lost(history.audit, history'.audit) :
                   ToSet(history.audit[i].targets) \cap left # {}}
      e == history.audit[Max(events)]
      receipts == ToSet(history.receipts) \ ToSet(history'.receipts)
      TooLarge(more) == Size(history') + more > SizeLimit
  IN /\ activities # {} =>
          \/ Len(history'.activities) + 1 > ActivityLimit
          \/ PatchesIn(history'.activities) + Len(a.patches) > PatchLimit
          \/ TooLarge(Saved(Len(a.patches)))
     /\ activities = {} /\ events # {} =>
          \/ Len(history'.audit) + 1 > AuditLimit
          \/ TooLarge(Saved(Len(e.targets)))
     /\ receipts # {} =>
          Len(history'.receipts) + 1 > ReceiptLimit \/ TooLarge(1)

\* compactWorkspaceHistory takes what it must and no more: every step keeps what
\* its command just did and is within the limits as far as that allows
\* (AcceptedChangeKept), and what it takes, it has to take.
CompactedAsNeeded ==
  [][AcceptedChangeKept' /\ LostOfNeed]_vars
=============================================================================
