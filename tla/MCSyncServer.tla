---------------------------- MODULE MCSyncServer ----------------------------
(***************************************************************************)
(* SyncServer with an owner and an editor, two request slots, two fields   *)
(* and three commands.  e1 and e2 set the same field from blank (one must  *)
(* lose); e3 follows e1 in one batch, sets g and puts f back to blank, so  *)
(* that a forgotten e1 or e2 would find what it expects again.  e2 comes   *)
(* from before server backup, without a basis.  An empty batch refreshes;  *)
(* one of mixed bases is malformed.                                        *)
(***************************************************************************)
EXTENDS SyncServer, TLC

CONSTANTS ann, bob, e1, e2, e3, f, g, blank, r1, r2

AtStart == [m |-> 0, a |-> 0]

Set1 == [id |-> e1, sets |-> f :> e1, expect |-> f :> blank, base |-> 0,
         basis |-> AtStart]
Set2 == [id |-> e2, sets |-> f :> e2, expect |-> f :> blank, base |-> 0,
         basis |-> NoBasis]
Then3 == [id |-> e3, sets |-> (f :> blank) @@ (g :> e3), expect |-> f :> e1,
          base |-> 1, basis |-> AtStart]

MCAccount == {ann, bob}
MCInitialRole == (ann :> "owner") @@ (bob :> "editor")
MCBatch == {<<Set1, Then3>>, <<Set2>>, << >>, <<Set1, Set2>>}
MCSlots == Permutations({r1, r2})
=============================================================================
