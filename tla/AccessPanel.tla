---------------------------- MODULE AccessPanel ----------------------------
(***************************************************************************)
(* src/client/workspace-access-controller.tsx and workspace-access.tsx:    *)
(* the panel in which a member sees its access to the open workspace,      *)
(* hands ownership over, leaves, or deletes the workspace.  It shows what  *)
(* it loaded itself, what a change of its own was answered, and what the   *)
(* copy of the workspace has heard otherwise, whichever is later.  The     *)
(* lists of members and of invite links, paged beside it, are left out.    *)
(***************************************************************************)
EXTENDS BrowserStore

\* data: the access it loaded.  over: what its own transfer was answered
\* (accessOverride).  ended: the workspace was left or deleted here
\* (lifecycleOutcome).  kept: a deletion this device could not store yet and what
\* it says of the workspace (pendingTerminalPersistence).  Each is empty or holds
\* what it says.
NewPanel(w) ==
  [w |-> w, data |-> << >>, over |-> << >>, kept |-> << >>, ended |-> FALSE]

\* visibleWorkspaceAccessData: access heard of otherwise replaces what was loaded
\* when it is later, or of the same time and narrower.
VisibleData(data, acc, who) ==
  LET Narrower == /\ <<acc.m, acc.a, acc.role>> = <<data.m, data.a, data.role>>
                  /\ ShouldApply(data, acc)
      Heard == /\ acc.kind = "server" /\ acc.account = who
               /\ acc.status # "active" \/ Older(data, acc) \/ Narrower
      Ended == acc.status # "active" \/ acc.role = "none"
  IN IF ~Heard THEN <<data>>
     ELSE IF Ended THEN << >>
     ELSE <<[acc EXCEPT !.m = Max({@, data.m}), !.a = Max({@, data.a})]>>

\* The access the panel acts on, if it lets the user act at all.
Offered(panel, acc, who) ==
  LET shown == IF panel.data = << >> THEN << >> ELSE VisibleData(panel.data[1], acc, who)
  IN IF panel.ended \/ acc.status # "active" \/ shown = << >> THEN << >>
     ELSE IF panel.over # << >> /\ Older(shown[1], panel.over[1]) THEN panel.over
     ELSE shown

\* canManageAccess, canDelete and canLeave; the server refuses a last owner.
Allows(offered, kind) ==
  offered # << >> /\ (kind = "leave" \/ offered[1].role = "owner")

\* What the answer to a change says of the caller's own access.  A deletion's
\* answer has no membership revision: the one loaded moves by one.
ConfirmedDeletion(c) ==
  ServerAccess(c.account, c.asked.data.m + 1, c.answer.a, "deleted", c.asked.data.role)
ConfirmedLeave(c) ==
  ServerAccess(c.account, c.answer.m, c.answer.a, "left", c.asked.data.role)
ConfirmedTransfer(c) ==
  ServerAccess(c.account, c.answer.m, c.answer.a, "active", "editor")
=============================================================================
