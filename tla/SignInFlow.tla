----------------------------- MODULE SignInFlow -----------------------------
(***************************************************************************)
(* Signing in and linking an identity with OAuth: beginOAuth stores a      *)
(* transaction; the callback claims it (finishOAuth), finds or creates the *)
(* account (createOrLinkUser) and issues a session (issueSession).  Each   *)
(* of the three commits on its own.  r.item is the transaction, r.identity *)
(* what the provider says, r.session the session of the browser.           *)
(***************************************************************************)
EXTENDS UsageLimits

Stage(d, t) == d.oauth[t].state

\* A transaction without a session signs in; one with a session links.
Links(d, t) == d.oauth[t].session # Nothing

(* beginOAuth *)

MayBegin(d, r) ==
  /\ Stage(d, r.item) = "absent"
  /\ r.session # Nothing =>
       Active(d, r.by) /\ SessionLive(d, r.session, r.by)

Begun(d, r) ==
  [d EXCEPT !.oauth[r.item] =
     [state |-> "open", session |-> r.session, identity |-> Nothing,
      user |-> IF r.session = Nothing THEN Nobody ELSE r.by]]

(* finishOAuth: read while it is open, claimed if nobody has since.  The    *)
(* time of the read decides whether it has expired.                         *)

Unclaimed(d, t) == Stage(d, t) \in {"open", "expired"}

MayClaim(d, r) == Stage(r.seen, r.item) = "open" /\ Unclaimed(d, r.item)

Claimed(d, r) ==
  [d EXCEPT !.oauth[r.item].state = "claimed",
            !.oauth[r.item].identity = r.identity]

-----------------------------------------------------------------------------
(* createOrLinkUser: the ban list is read first.                            *)

Resolved(d, t, u) ==
  [d EXCEPT !.oauth[t].state = "resolved", !.oauth[t].user = u]

MayResolve(d, r) ==
  /\ Stage(d, r.item) = "claimed"
  /\ ~ Banned(r.seen, d.oauth[r.item].identity)

\* The callback comes from the session that began to link, still live.
LinkIntended(d, t) ==
  /\ Active(d, d.oauth[t].user)
  /\ SessionLive(d, d.oauth[t].session, d.oauth[t].user)

\* The identity already belongs to an account.
MayRecognize(d, r) ==
  LET u == d.identity[d.oauth[r.item].identity] IN
  /\ MayResolve(d, r)
  /\ Active(d, u)
  /\ Links(d, r.item) =>
       LinkIntended(r.seen, r.item) /\ u = d.oauth[r.item].user

Recognized(d, r) == Resolved(d, r.item, d.identity[d.oauth[r.item].identity])

\* Mutation of MayLink: the session that asked is not checked again.
MayLinkAsRead(d, r) ==
  LET t == r.item IN
  /\ MayResolve(d, r)
  /\ Links(d, t)
  /\ d.identity[d.oauth[t].identity] = Nobody
  /\ LinkIntended(r.seen, t)
  /\ Cardinality(IdentitiesOf(d, d.oauth[t].user)) < IdentityLimit

MayLink(d, r) ==
  LET t == r.item IN
  /\ MayResolve(d, r)
  /\ Links(d, t)
  /\ d.identity[d.oauth[t].identity] = Nobody
  /\ LinkIntended(r.seen, t) /\ LinkIntended(d, t)
  /\ Cardinality(IdentitiesOf(d, d.oauth[t].user)) < IdentityLimit

IdentityLinked(d, r) ==
  Resolved(WithIdentity(d, d.oauth[r.item].identity, d.oauth[r.item].user),
           r.item, d.oauth[r.item].user)

\* Mutation of MayEnroll: only the refusal that was asked before decides.
MayEnrollAsRead(d, r) ==
  /\ MayResolve(d, r)
  /\ ~ Links(d, r.item)
  /\ d.identity[d.oauth[r.item].identity] = Nobody
  /\ d.status[r.of] = "absent"
  /\ AccountAllowed(r.seen, r.seen.clock)

MayEnroll(d, r) ==
  /\ MayResolve(d, r)
  /\ ~ Links(d, r.item)
  /\ d.identity[d.oauth[r.item].identity] = Nobody
  /\ d.status[r.of] = "absent"
  /\ AccountAllowed(d, r.seen.clock)

Enrolled(d, r) ==
  LET counted == WithCreation(d, "account", Nobody, r.seen.clock)
  IN Resolved([WithIdentity(counted, d.oauth[r.item].identity, r.of)
                 EXCEPT !.status[r.of] = "active"],
              r.item, r.of)

-----------------------------------------------------------------------------
(* issueSession *)

\* Mutation of MayIssue: the account may have been stopped.
MayIssueAnyway(d, r) ==
  /\ Stage(d, r.item) = "resolved" /\ ~ Links(d, r.item)
  /\ d.session[r.session].of = Nobody

MayIssue(d, r) ==
  /\ Stage(d, r.item) = "resolved" /\ ~ Links(d, r.item)
  /\ Active(d, d.oauth[r.item].user)
  /\ SessionAllowed(d, d.oauth[r.item].user, r.seen.clock)
  /\ d.session[r.session].of = Nobody

Issued(d, r) ==
  WithSession([d EXCEPT !.oauth[r.item].state = "done"],
              r.session, d.oauth[r.item].user, r.item, r.seen.clock)
=============================================================================
