----------------------------- MODULE Inventory ------------------------------
(***************************************************************************)
(* What a workspace holds and how commands change it: the spaces (a        *)
(* forest), the items in them, the move plans, and the patches a command   *)
(* writes.  A record that does not exist is Gone.  A time is the number of *)
(* the command, 0 is never.  Of a record's fields the model keeps those other *)
(* fields depend on; the rest is one field, "order" (its position, but as  *)
(* well its name, description or measurements).  "stamp" stands for the    *)
(* bookkeeping fields updatedAt and version.                               *)
(***************************************************************************)
EXTENDS HistoryRetention

CONSTANTS
  Loc, Item, Plan,   \* ids of spaces, items, plans
  Home,              \* the record of the workspace itself
  Room, Box,         \* the spaces that store nothing, that can be carried
  Top, Gone, Whole,  \* no parent; no record; no restriction to areas
  Code, Kind         \* physical codes; classes of equivalent items

ASSUME InventoryAssumption ==
  /\ Room \cup Box \subseteq Loc
  /\ IsFiniteSet(Loc) /\ IsFiniteSet(Item) /\ IsFiniteSet(Plan)

Status   == {"uncounted", "in_progress", "counted", "known_empty"}
Complete == {"counted", "known_empty"}

Space == [parent : Loc \cup {Top}, archived : Int, status : Status,
          code : Code, order : Nat, stamp : Nat]
Stock == [loc : Loc, qty : Nat \ {0}, kind : Kind, order : Nat, stamp : Nat]
Step  == [what : Loc \cup Item, from : Loc, to : Loc, qty : Nat, done : Nat]

\* locationIds and the pinned ids of PlanSelection.
Selection == [areas : SUBSET Loc \cup {Whole}, pins : SUBSET (Loc \cup Item)]
MovePlan  == [status : {"active", "completed", "discarded"},
              steps : Seq(Step), selection : Selection]

Locs(w)  == {l \in Loc : w[l] # Gone}
Items(w) == {x \in Item : w[x] # Gone}
Plans(w) == {p \in Plan : w[p] # Gone}

\* requireActiveLocation
Live(w) == {l \in Locs(w) : w[l].archived = 0}

ActivePlans(w) == {p \in Plans(w) : w[p].status = "active"}

Pending(plan) == {i \in DOMAIN plan.steps : plan.steps[i].done = 0}

-----------------------------------------------------------------------------
(* The forest. *)

\* l and the spaces it lies in.
Ancestry(w, l) ==
  LET there == Locs(w)
      up[S \in SUBSET Loc] ==
        LET T == S \cup ({w[m].parent : m \in S} \cap there)
        IN IF T = S THEN S ELSE up[T]
  IN up[{l} \cap there]

\* l and its descendants.
Within(w, l) == {m \in Locs(w) : l \in Ancestry(w, m)}

\* The ancestry of l without l, unless l lies in itself.
Above(w, l) == IF w[l].parent = Top THEN {} ELSE Ancestry(w, w[l].parent)

Children(w, l) == {m \in Live(w) : w[m].parent = l}
Contents(w, l) == {x \in Items(w) : w[x].loc = l}

\* validateLocation for a space that is to have this parent and this code.
CodeIsFree(w, code, l) == \A m \in Live(w) \ {l} : w[m].code # code

MayLieIn(w, l, parent) ==
  parent = Top \/ (parent \in Live(w) /\ parent \notin Within(w, l))

-----------------------------------------------------------------------------
(* Patches. *)

Set(w, r, field, v) ==
  [of |-> r, field |-> field, before |-> w[r][field], after |-> v]
Put(r, record)   == [of |-> r, field |-> "", before |-> Gone, after |-> record]
TakeOut(w, r)    == [of |-> r, field |-> "", before |-> w[r], after |-> Gone]

\* readPatchValue: a field of a missing record is undefined.
ReadAt(w, p) ==
  IF p.field = "" \/ w[p.of] = Gone THEN w[p.of] ELSE w[p.of][p.field]

\* applyFieldPatch
Patched(w, p) ==
  IF p.field = "" THEN [w EXCEPT ![p.of] = p.after]
  ELSE [w EXCEPT ![p.of] = [@ EXCEPT ![p.field] = p.after]]

PatchedAll(w, ps) ==
  LET f[i \in 0..Len(ps)] == IF i = 0 THEN w ELSE Patched(f[i - 1], ps[i])
  IN f[Len(ps)]

\* The fields f[r] of the records in R, each record touched.
SetEach(w, R, field, f, now) ==
  LET rs == SetToSeq(R) IN
  [i \in 1..Len(rs) |-> Set(w, rs[i], field, f[rs[i]])]
    \o [i \in 1..Len(rs) |-> Set(w, rs[i], "stamp", now)]

TakeOutAll(w, R) ==
  LET rs == SetToSeq(R) IN [i \in 1..Len(rs) |-> TakeOut(w, rs[i])]

\* meaningfulActivityPatches: bookkeeping is no part of an activity.
Meaningful(ps) == Picked(ps, {i \in DOMAIN ps : ps[i].field # "stamp"})

-----------------------------------------------------------------------------
(* Capture. *)

\* assertCaptureContentsEditable: nothing enters, leaves or changes in a
\* space that is counted.
ContentsEditable(w, ls) ==
  \A l \in ls \cap Locs(w) :
    w[l].archived # 0 \/ w[l].status \notin Complete

InProgress(w, ls, now) ==
  SetEach(w, ls, "status", [l \in ls |-> "in_progress"], now)

\* captureProgressPatches, for the spaces something was added to.
Started(w, ls) ==
  {l \in ls \cap Locs(w) : w[l].status \in {"uncounted", "known_empty"}}

\* moveCaptureProgressPatches and its variants for several spaces: what the
\* caller confirmed to reopen.
Reopened(w, ls, to) ==
  {l \in (ls \cup {to}) \cap Locs(w) :
     w[l].status \in Complete \/ (l = to /\ w[l].status = "uncounted")}

\* What moving something from the spaces ls into the space to does to them.
MoveProgress(w, ls, to, reopen, now) ==
  InProgress(w, IF reopen THEN Reopened(w, ls, to) ELSE Started(w, {to}), now)

MayMove(w, ls, to, reopen) == reopen \/ ContentsEditable(w, ls \cup {to})

-----------------------------------------------------------------------------
(* Plans. *)

Areas(s) == IF s.areas = Whole THEN {} ELSE s.areas

\* resolvePlanSelection
Included(w, s) ==
  {l \in Live(w) : s.areas = Whole \/ Ancestry(w, l) \cap Areas(s) # {}}
PinnedSpaces(w, s) == {l \in Live(w) : Ancestry(w, l) \cap s.pins # {}}
PinnedItems(w, s) ==
  (s.pins \cap Item) \cup {x \in Items(w) : w[x].loc \in PinnedSpaces(w, s)}

\* fixedLocationIds: spaces whose move would carry what must stay.
Fixed(w, s) ==
  LET roots == Areas(s) IN
  PinnedSpaces(w, s)
    \cup UNION {Ancestry(w, w[x].loc) : x \in PinnedItems(w, s) \cap Items(w)}
    \cup UNION {Ancestry(w, l) : l \in s.pins \cap Loc}
    \cup UNION {Ancestry(w, l) : l \in
           {r \in roots \cap Locs(w) : Above(w, r) \cap roots = {}}}

CanMove(w, s, what, from) ==
  /\ from \in Included(w, s)
  /\ IF what \in Item THEN what \notin PinnedItems(w, s)
     ELSE what \in Included(w, s) \ Fixed(w, s)

CanReceive(w, s, l) == l \in Included(w, s) \ PinnedSpaces(w, s)

\* planSelectionIssue: areas and pins still exist.
SelectionExists(w, s) ==
  /\ Areas(s) \subseteq Live(w)
  /\ s.pins \subseteq Live(w) \cup Items(w)

\* planSelectionStepIssue
StepSelected(w, s, st) ==
  CanMove(w, s, st.what, st.from) /\ CanReceive(w, s, st.to)

\* A step whose subject is where the plan says, as much of it, and may go
\* where it says.
StepFresh(w, st) ==
  /\ {st.from, st.to} \subseteq Live(w)
  /\ IF st.what \in Item
     THEN /\ st.what \in Items(w)
          /\ w[st.what].loc = st.from /\ w[st.what].qty = st.qty
     ELSE /\ st.what \in Live(w) /\ w[st.what].parent = st.from
          /\ st.to \notin Within(w, st.what)

\* assertPlanCanActivate, and the checks of plan.create.
Executable(w, plan) ==
  /\ Pending(plan) # {}
  /\ SelectionExists(w, plan.selection)
  /\ \A i \in Pending(plan) :
       /\ plan.steps[i].from # plan.steps[i].to
       /\ StepFresh(w, plan.steps[i])
       /\ StepSelected(w, plan.selection, plan.steps[i])

\* Mutation of Near: a space, and not those it lies in.
NearWithoutParents(w, ls) == ls \cap Locs(w)

Near(w, ls) == UNION {Ancestry(w, l) : l \in ls}

\* planInvalidationPatches: the active plans that a change of these items and
\* spaces makes stale.
Invalidated(w, xs, ls) ==
  LET near == Near(w, ls) IN
  {p \in ActivePlans(w) :
     LET s == w[p].selection IN
        \/ s.pins \cap xs # {}
        \/ (Areas(s) \cup s.pins) \cap near # {}
        \/ ls \cap Fixed(w, s) # {}
        \/ \E i \in Pending(w[p]) :
             LET st == w[p].steps[i] IN
             \/ st.what \in xs \cup near
             \/ {st.from, st.to} \cap near # {}}

\* Without a stamp: plans have none.
PlanStatusAll(w, ps, status) ==
  LET rs == SetToSeq(ps) IN
  [i \in 1..Len(rs) |-> Set(w, rs[i], "status", status)]

Invalidation(w, xs, ls) ==
  PlanStatusAll(w, Invalidated(w, xs, ls), "discarded")

-----------------------------------------------------------------------------
(* Moving items. *)

\* What a move leaves of an item.
Remainder(w, x, rest, now) ==
  IF rest = 0 THEN <<TakeOut(w, x)>>
  ELSE <<Set(w, x, "qty", rest), Set(w, x, "stamp", now)>>

\* moveItemPatches: into an equivalent record at the destination, or the
\* record itself, or a part of it as a new record.
MoveParts(w, x, to, q, split, now) ==
  LET rest == w[x].qty - q
      same == {y \in Contents(w, to) \ {x} : w[y].kind = w[x].kind}
      y == CHOOSE z \in same : TRUE
  IN CASE same # {} ->
            <<Set(w, y, "qty", w[y].qty + q), Set(w, y, "stamp", now)>>
            \o Remainder(w, x, rest, now)
       [] same = {} /\ rest = 0 ->
            <<Set(w, x, "loc", to), Set(w, x, "order", now),
              Set(w, x, "stamp", now)>>
       [] OTHER ->
            Remainder(w, x, rest, now)
            \o <<Put(split, [w[x] EXCEPT !.loc = to, !.qty = q,
                                    !.order = now, !.stamp = now])>>

\* item.bulkMove: one after another, each on what the ones before it left.
BulkMoveParts(w, X, to, now) ==
  LET xs == SetToSeq(X)
      f[i \in 0..Len(xs)] ==
        IF i = 0 THEN << >>
        ELSE LET ps == f[i - 1]
                 v  == PatchedAll(w, ps)
             IN ps \o MoveParts(v, xs[i], to, v[xs[i]].qty, xs[i], now)
  IN f[Len(xs)]

\* What completing a plan's step does to its subject.
StepParts(w, st, now) ==
  IF st.what \in Item THEN MoveParts(w, st.what, st.to, st.qty, st.what, now)
  ELSE <<Set(w, st.what, "parent", st.to), Set(w, st.what, "stamp", now)>>

-----------------------------------------------------------------------------
(* validateSnapshot. *)

Forest(w) ==
  \A l \in Locs(w) : /\ w[l].parent \in Locs(w) \cup {Top}
                     /\ l \notin Above(w, l)

NothingDangles(w) ==
  /\ \A x \in Items(w) : w[x].loc \in Locs(w)
  /\ \A p \in ActivePlans(w) : Pending(w[p]) \cup DOMAIN w[p].steps # {}

CodesUnique(w) == \A l \in Live(w) : CodeIsFree(w, w[l].code, l)

PendingSteps(w) ==
  UNION {{w[p].steps[i] : i \in Pending(w[p])} : p \in ActivePlans(w)}

NoStepIsCyclic(w) ==
  \A st \in PendingSteps(w) :
    /\ st.from # st.to
    /\ st.what \in Locs(w) => st.what \notin Ancestry(w, st.to)

\* Issues that old backups may have (isLegacyCompatibleIssue): <<code, what>>.
SpaceIssues(w) ==
  ({"PARENT_ARCHIVED"} \X {l \in Live(w) : w[l].parent \in Locs(w) \ Live(w)})
  \cup ({"ARCHIVED_LOCATION"} \X
          {x \in Items(w) : w[x].loc \in Locs(w) \ Live(w)})
  \cup ({"NOT_EMPTY"} \X {l \in Locs(w) :
          w[l].status = "known_empty" /\ Children(w, l) \cup Contents(w, l) # {}})

\* What keeps moves of an active plan from being carried out: <<plan, index>>.
StepIssues(w) ==
  LET live  == Live(w)
      there == Items(w)
      todo  == UNION {{<<p, i>> : i \in Pending(w[p])} : p \in ActivePlans(w)}
      At(t) == w[t[1]].steps[t[2]]
  IN
  ({"PLAN_SOURCE"} \X {t \in todo : At(t).from \notin live})
  \cup ({"PLAN_DESTINATION"} \X {t \in todo : At(t).to \notin live})
  \cup ({"PLAN_ITEM"} \X {t \in todo : At(t).what \in Item \ there})
  \cup ({"PLAN_LOCATION"} \X {t \in todo : At(t).what \in Loc \ live})
  \cup ({"STALE_ITEM"} \X {t \in todo :
          /\ At(t).what \in there
          /\ \/ w[At(t).what].loc # At(t).from
             \/ w[At(t).what].qty # At(t).qty})
  \cup ({"STALE_LOCATION"} \X {t \in todo :
          At(t).what \in Locs(w) /\ w[At(t).what].parent # At(t).from})

PlanIssues(w) ==
  ({"MULTIPLE_ACTIVE_PLANS"} \X
     (IF Cardinality(ActivePlans(w)) > 1 THEN {1} ELSE {}))
  \cup ({"PLAN_UNFINISHED"} \X {p \in Plans(w) :
          w[p].status = "completed" /\ Pending(w[p]) # {}})
  \cup ({"PLAN_FINISHED"} \X {p \in ActivePlans(w) : Pending(w[p]) = {}})

LegacyIssues(w) == SpaceIssues(w) \cup StepIssues(w) \cup PlanIssues(w)

SelectionsHold(w) ==
  \A p \in ActivePlans(w) :
    /\ SelectionExists(w, w[p].selection)
    /\ \A i \in Pending(w[p]) :
         StepSelected(w, w[p].selection, w[p].steps[i])

\* No issue at all.
Sound(w) ==
  Forest(w) /\ NothingDangles(w) /\ CodesUnique(w) /\ NoStepIsCyclic(w)
    /\ LegacyIssues(w) = {} /\ SelectionsHold(w)

\* What applyHistoryAction accepts in the place of w: no issue but old ones,
\* counted by code.  Selections are looked at when there is no other issue.
ValidAfter(w, v) ==
  LET issues == LegacyIssues(v)
      Count(I, code) == Cardinality({i \in I : i[1] = code})
  IN
  /\ Forest(v) /\ NothingDangles(v) /\ CodesUnique(v) /\ NoStepIsCyclic(v)
  /\ issues # {} => \A c \in {i[1] : i \in issues} :
                      Count(issues, c) <= Count(LegacyIssues(w), c)
  /\ issues = {} => SelectionsHold(v)
=============================================================================
