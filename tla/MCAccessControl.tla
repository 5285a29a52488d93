-------------------------- MODULE MCAccessControl --------------------------
(***************************************************************************)
(* AccessControl on small installations: an administrator, an owner who is *)
(* also charged for the workspace, a second owner, a viewer and an account *)
(* nobody has opened yet.                                                  *)
(***************************************************************************)
EXTENDS AccessControl

CONSTANTS ann, bob, cat, adm, dee, w1, w2, w3, l1, l2, l3, l4,
          sa, sb, sc, sd, se, ia, ib, id, ie, t1, t2, t3, t4, t5

MCAccount == {ann, bob, cat, adm, dee}
MCWorkspace == {w1, w2, w3}
MCLink == {l1, l2, l3, l4}
MCSession == {sa, sb, sc, sd, se}
MCIdentity == {ia, ib, id, ie}
MCSignIn == {t1, t2, t3, t4, t5}

MCDayLimit == [workspace |-> 1, link |-> 1, session |-> 2]
MCWindowLimit == [workspace |-> 2, link |-> 2, session |-> 3]

NoLink == [of |-> w1, by |-> Nobody, role |-> "viewer", expired |-> FALSE,
           state |-> "absent"]

NoTransaction == [state |-> "absent", session |-> Nothing, user |-> Nobody,
                  identity |-> Nothing]

SessionFor(u) ==
  IF u = Nobody THEN NoSession
  ELSE [of |-> u, live |-> TRUE, via |-> Nothing, at |-> -1, end |-> 20]

Before(times, them) ==
  [u \in Account \cup {Nobody} |->
     LET at == IF u \in them THEN times ELSE <<>>
     IN [at |-> at, kept |-> DOMAIN at]]

\* A workspace of two owners, with a viewer and an unused link.
Shared ==
  [status |-> [u \in Account |-> IF u = dee THEN "absent" ELSE "active"],
   admin |-> [u \in Account |-> u = adm],
   accountRevision |-> [u \in Account |-> 0],
   membershipRevision |-> [u \in Account |-> 0],
   identity |-> [i \in Identity |-> CASE i = ia -> ann [] i = ib -> bob
                                      [] i = id -> adm [] i = ie -> Nobody],
   digest |-> [i \in Identity |-> [source |-> Nobody, lifted |-> FALSE]],
   session |-> [x \in Session |->
                  SessionFor(CASE x = sa -> ann [] x = sb -> bob [] x = sc -> cat
                               [] x = sd -> adm [] x = se -> Nobody)],
   oauth |-> [t \in SignIn |-> NoTransaction],
   phase |-> [w \in Workspace |-> IF w = w1 THEN "live" ELSE "absent"],
   access |-> [w \in Workspace |-> 0],
   custodian |-> [w \in Workspace |-> IF w = w1 THEN ann ELSE Nobody],
   role |-> [w \in Workspace |-> [u \in Account |->
               CASE w # w1 -> "none" [] u \in {ann, bob} -> "owner"
                 [] u = cat -> "viewer" [] OTHER -> "none"]],
   link |-> [l \in Link |->
               IF l = l1
               THEN [NoLink EXCEPT !.by = ann, !.role = "editor", !.state = "unused"]
               ELSE NoLink],
   clock |-> 0,
   bytes |-> [w \in Workspace |-> IF w = w1 THEN 1 ELSE 0],
   ledger |-> [account |-> Before(<<-9, -9, -9, -9>>, {Nobody}),
               workspace |-> Before(<<-9>>, {ann}),
               link |-> Before(<<-9>>, {ann}),
               session |-> Before(<<-1>>, {ann, bob, cat, adm})],
   circuit |-> [c \in Circuit |->
                  [paused |-> FALSE, resume |-> {}, again |-> FALSE]],
   accountsPerDay |-> 1]

\* Both owners administer the installation.
TwoAdmins == [Shared EXCEPT !.admin = [u \in Account |-> u \in {ann, bob}],
                            !.link[l1] = NoLink]

NoAdmin == [Shared EXCEPT !.admin = [u \in Account |-> FALSE], !.link[l1] = NoLink]

\* Three workspaces, charged to one owner each; cat, whom its owners charged for
\* w3, is no longer an owner there.
Custodians ==
  [Shared EXCEPT
     !.phase = [w \in Workspace |-> "live"],
     !.bytes = [w \in Workspace |-> 1],
     !.ledger.workspace = Before(<<-9>>, {ann, bob, cat}),
     !.custodian = [w \in Workspace |->
                      CASE w = w1 -> ann [] w = w2 -> bob [] w = w3 -> cat],
     !.role = [w \in Workspace |-> [u \in Account |->
                 CASE w = w1 /\ u \in {ann, bob, cat} -> "owner"
                   [] w = w2 /\ u \in {bob, cat} -> "owner"
                   [] w = w3 /\ u = adm -> "owner"
                   [] w = w3 /\ u = cat -> "viewer"
                   [] OTHER -> "none"]],
     !.link[l1] = NoLink]

\* A sign-in, and a link begun by ann, wait for their callbacks.
Callbacks ==
  [Shared EXCEPT
     !.oauth[t1].state = "open",
     !.oauth[t2] = [NoTransaction EXCEPT !.state = "open", !.session = sa,
                                         !.user = ann],
     !.session[sc] = SessionFor(Nobody),
     !.link[l1] = NoLink]

\* Four sign-ins of ann wait for their sessions.
SigningInOften ==
  [Shared EXCEPT
     !.oauth = [t \in SignIn |->
                  IF t = t5 THEN NoTransaction
                  ELSE [NoTransaction EXCEPT !.state = "resolved", !.user = ann,
                                             !.identity = ia]],
     !.session = [x \in Session |-> NoSession],
     !.ledger.session = Before(<<>>, {}),
     !.link[l1] = NoLink]

\* dee and ann's colleague bob sign in for the first time.
Newcomers ==
  [Shared EXCEPT
     !.status[bob] = "absent", !.role[w1][bob] = "none", !.identity[ib] = Nobody,
     !.session[sb] = NoSession,
     !.oauth = [t \in SignIn |->
        CASE t = t1 -> [NoTransaction EXCEPT !.state = "claimed", !.identity = ib]
          [] t = t2 -> [NoTransaction EXCEPT !.state = "claimed", !.identity = ie]
          [] OTHER -> NoTransaction]]

\* Nobody owns a workspace yet, and cat is not signed in.
Allocating ==
  [Shared EXCEPT
     !.phase = [w \in Workspace |-> "absent"],
     !.bytes = [w \in Workspace |-> 0],
     !.custodian = [w \in Workspace |-> Nobody],
     !.role = [w \in Workspace |-> [u \in Account |-> "none"]],
     !.ledger.workspace = Before(<<>>, {}),
     !.ledger.link = Before(<<>>, {}),
     !.session[sc] = NoSession,
     !.link[l1] = NoLink]

\* Members, invitations and custody; then the same while accounts are stopped,
\* administrators stop each other, and accounts delete themselves; and sign-ins
\* while accounts are stopped, twice with one transaction, and to link.
MCScopes ==
  {[start |-> Shared, until |-> 0, depth |-> 2, circuits |-> {},
    operations |-> {"initialize", "take ownership", "delete workspace",
                    "change role", "remove member", "transfer",
                    "create link", "revoke link", "delete link", "redeem",
                    "expire"}],
   [start |-> Shared, until |-> 0, depth |-> 3, circuits |-> {},
    operations |-> {"change role", "redeem", "create link", "disable",
                    "delete account"}],
   [start |-> TwoAdmins, until |-> 0, depth |-> 3, circuits |-> {},
    operations |-> {"promote", "demote", "disable", "ban", "delete account"}],
   [start |-> NoAdmin, until |-> 0, depth |-> 3, circuits |-> {},
    operations |-> {"bootstrap", "recover", "demote", "revoke session"}],
   [start |-> Custodians, until |-> 0, depth |-> 3, circuits |-> {},
    operations |-> {"delete account", "disable", "remove member"}],
   [start |-> Callbacks, until |-> 0, depth |-> 4, circuits |-> {},
    operations |-> {"claim", "recognize", "link", "enroll", "issue", "ban",
                    "disable", "expire"}],
   [start |-> [Callbacks EXCEPT !.oauth[t2] = NoTransaction],
    until |-> 0, depth |-> 6, circuits |-> {}, operations |-> {"claim", "recognize", "issue"}],
   [start |-> [Callbacks EXCEPT !.oauth[t2] = NoTransaction],
    until |-> 0, depth |-> 5, circuits |-> {}, operations |-> {"claim", "enroll", "ban", "lift", "enable"}],
   [start |-> [Shared EXCEPT !.session[sb] = NoSession], until |-> 0, depth |-> 4,
    circuits |-> {}, operations |-> {"begin", "claim", "link", "unlink", "revoke session"}],
   [start |-> SigningInOften, until |-> 4, depth |-> 5, circuits |-> {},
    operations |-> {"issue", "clean"}],
   [start |-> Newcomers, until |-> 2, depth |-> 3, circuits |-> {"new accounts"},
    operations |-> {"enroll", "set circuit", "set limit"}],
   [start |-> [Allocating EXCEPT !.session[sd] = NoSession], until |-> 4,
    depth |-> 3, circuits |-> {}, operations |-> {"initialize"}],
   [start |-> Allocating, until |-> 2, depth |-> 3, circuits |-> {"new workspaces"},
    operations |-> {"initialize", "set circuit"}],
   [start |-> Custodians, until |-> 1, depth |-> 3, circuits |-> {"snapshot growth"},
    operations |-> {"store", "delete account", "set circuit"}],
   [start |-> [Shared EXCEPT !.session[sb] = NoSession], until |-> 4, depth |-> 3,
    circuits |-> {}, operations |-> {"create link", "expire", "clean"}],
   [start |-> Shared, until |-> 1, depth |-> 3,
    circuits |-> {"guest links", "guest redemptions"},
    operations |-> {"create link", "redeem", "set circuit"}]}

\* Owners of the same workspaces delete their accounts at once.
MCDeletions ==
  {[start |-> Custodians, until |-> 0, depth |-> 3, circuits |-> {},
    operations |-> {"delete account"}]}
=============================================================================
