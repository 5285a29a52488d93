---------------------------- MODULE MCDeviceSync ----------------------------
(***************************************************************************)
(* Instances of DeviceSync.  Race: an owner's and an editor's device, three*)
(* edits of one field, the owner's setting it back to blank, so that a     *)
(* retried command finds what it expects.  Pair: the same devices, edits   *)
(* of two fields.  Tabs: one device with two tabs.  Solo: one device, one  *)
(* tab.                                                                    *)
(***************************************************************************)
EXTENDS DeviceSync, TLC

CONSTANTS ann, bob, e1, e2, e3, c1, v1, v2, f, g, blank, d1, d2, t1, t2

MCInitialRole == (ann :> "owner") @@ (bob :> "editor")

RaceDeviceOf  == (t1 :> d1) @@ (t2 :> d2)
RaceAccountOf == (d1 :> ann) @@ (d2 :> bob)
RaceAuthorOf  == (e1 :> t2) @@ (e2 :> t2) @@ (e3 :> t1)
RaceFieldOf   == [e \in Originals |-> f]
RaceValueOf   == (e1 :> v1) @@ (e2 :> v2) @@ (e3 :> blank)

PairDeviceOf  == RaceDeviceOf
PairAccountOf == RaceAccountOf
PairAuthorOf  == RaceAuthorOf
PairFieldOf   == (e1 :> f) @@ (e2 :> g) @@ (e3 :> g)
PairValueOf   == (e1 :> v1) @@ (e2 :> v1) @@ (e3 :> v2)

TabsDeviceOf  == (t1 :> d1) @@ (t2 :> d1)
TabsAccountOf == d1 :> bob
TabsAuthorOf  == (e1 :> t1) @@ (e2 :> t2) @@ (e3 :> t1)
TabsFieldOf   == [e \in Originals |-> IF e = e3 THEN g ELSE f]
TabsValueOf   == (e1 :> v1) @@ (e2 :> blank) @@ (e3 :> v1)

\* Without recovery and changes of access, and with both.
MCPlain ==
  {[tabs |-> Tab, edits |-> Originals, listing |-> {}, reviewers |-> {},
    access |-> FALSE]}
MCAll ==
  {[tabs |-> Tab, edits |-> Originals, listing |-> Tab, reviewers |-> Tab,
    access |-> TRUE]}

\* Access changes under one tab, or under two that hear of it in any order; and
\* recovery beside a second tab.
MCCopies ==
  {[tabs |-> {t1}, edits |-> {e1, e3}, listing |-> {t1}, reviewers |-> {},
    access |-> TRUE],
   [tabs |-> Tab, edits |-> {}, listing |-> {t2}, reviewers |-> {},
    access |-> TRUE],
   [tabs |-> Tab, edits |-> {e1, e2}, listing |-> {}, reviewers |-> {t1},
    access |-> FALSE]}

SoloDeviceOf  == t1 :> d1
SoloAccountOf == d1 :> bob
SoloAuthorOf  == [e \in Originals |-> t1]
SoloFieldOf   == [e \in Originals |-> IF e = e1 THEN f ELSE g]
SoloValueOf   == [e \in Originals |-> v1]
=============================================================================
