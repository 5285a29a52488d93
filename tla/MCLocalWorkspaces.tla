------------------------- MODULE MCLocalWorkspaces -------------------------
(***************************************************************************)
(* Instances of LocalWorkspaces: one browser, two accounts, two            *)
(* workspaces, and in each scope the part of the system whose steps race.  *)
(***************************************************************************)
EXTENDS LocalWorkspaces, TLC

CONSTANTS ann, bob, w1, w2, e1, e2, t1, t2

MCOrder == <<w1, w2>>

Rows(annIn, bobIn) == (ann :> annIn) @@ (bob :> bobIn)
In(one, two) == (w1 :> one) @@ (w2 :> two)

\* A shared workspace, and accounts that change under the tab.
Switching ==
  [session |-> ann, members |-> Rows(In("owner", "owner"), In("editor", "none")),
   held |-> {w1}, tabs |-> {t1}, edits |-> {e1, e2},
   changes |-> 0, stamps |-> 2, calls |-> 2,
   may |-> {"switch", "sync", "open"}]

\* The same with lists that tell of the access of either account.
Returning ==
  [session |-> ann, members |-> Rows(In("owner", "none"), In("editor", "none")),
   held |-> {w1}, tabs |-> {t1}, edits |-> {e1},
   changes |-> 0, stamps |-> 1, calls |-> 1,
   may |-> {"switch", "sync", "list"}]

\* Two of them under way at once, with no work to upload.
Overtaking == [Returning EXCEPT !.edits = {}, !.stamps = 0, !.calls = 2]

\* A device-only workspace, and accounts that change.
Backing ==
  [session |-> ann, members |-> Rows(In("none", "none"), In("none", "none")),
   held |-> {}, tabs |-> {t1}, edits |-> {e1},
   changes |-> 1, stamps |-> 3, calls |-> 1,
   may |-> {"switch", "sync", "initialize"}]

\* The same, and the device-only workspace is replaced by another.
Replacing == [Backing EXCEPT !.stamps = 2, !.may = @ \cup {"replace"}]

\* Two tabs remove the copy and download it, while they edit.
Copying ==
  [session |-> ann, members |-> Rows(In("owner", "none"), In("none", "none")),
   held |-> {w1}, tabs |-> {t1, t2}, edits |-> {e1},
   changes |-> 0, stamps |-> 3, calls |-> 2,
   may |-> {"sync", "open", "remove"}]

\* Two tabs open, make and replace workspaces.
Opening ==
  [session |-> ann, members |-> Rows(In("owner", "none"), In("none", "none")),
   held |-> {w1}, tabs |-> {t1, t2}, edits |-> {e1},
   changes |-> 1, stamps |-> 3, calls |-> 1,
   may |-> {"open", "initialize", "replace", "remove"}]

\* The same, while they upload.
Uploading == [Opening EXCEPT !.stamps = 2, !.may = @ \cup {"sync"}]

\* Lists of workspaces while the memberships change.
Listing ==
  [session |-> ann, members |-> Rows(In("owner", "owner"), In("owner", "owner")),
   held |-> {w1, w2}, tabs |-> {t1}, edits |-> {},
   changes |-> 2, stamps |-> 1, calls |-> 2,
   may |-> {"list", "leave", "access", "remove", "sync"}]

\* The account's role changes, and answers say so in any order.
Demoting ==
  [session |-> ann, members |-> Rows(In("owner", "none"), In("owner", "none")),
   held |-> {w1}, tabs |-> {t1}, edits |-> {},
   changes |-> 2, stamps |-> 0, calls |-> 2,
   may |-> {"access", "roles", "fail"}]

\* The same with lists, for fewer changes, or for lists alone.
Narrowing == [Demoting EXCEPT !.changes = 1, !.may = @ \cup {"list"}]
Relisting == [Demoting EXCEPT !.may = {"list", "roles"}]

\* A workspace is deleted while its access is read.
Ending ==
  [session |-> ann, members |-> Rows(In("owner", "none"), In("editor", "none")),
   held |-> {w1}, tabs |-> {t1, t2}, edits |-> {e1},
   changes |-> 1, stamps |-> 1, calls |-> 2,
   may |-> {"sync", "delete", "access"}]

\* The same, and the deletion may not be stored.
Unstored == [Ending EXCEPT !.edits = {}, !.may = {"delete", "access", "fail"}]

\* The ownership is handed over, and the account leaves, while lists are read.
Handing ==
  [session |-> ann, members |-> Rows(In("owner", "none"), In("editor", "none")),
   held |-> {w1}, tabs |-> {t1}, edits |-> {},
   changes |-> 2, stamps |-> 0, calls |-> 2,
   may |-> {"transfer", "leave", "access", "list", "fail"}]

\* The ownership is handed over, and the user signs out before the answer comes.
Parting == [Handing EXCEPT !.may = {"transfer", "access", "switch"}]

\* A panel loaded before the account's other memberships changed deletes.
Outdated ==
  [session |-> ann, members |-> Rows(In("owner", "viewer"), In("editor", "owner")),
   held |-> {w1}, tabs |-> {t1}, edits |-> {},
   changes |-> 2, stamps |-> 0, calls |-> 2,
   may |-> {"delete", "access", "roles"}]

MCScopes == {Switching, Returning, Overtaking, Backing, Replacing, Copying,
             Opening, Uploading, Listing, Demoting, Narrowing, Relisting,
             Ending, Unstored, Handing, Parting, Outdated}
=============================================================================
