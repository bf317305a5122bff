----------------------------- MODULE AuthProofs -----------------------------
(***************************************************************************)
(* Logins of the web console, for any number of users, links, sessions and *)
(* requests in progress, and for any limits and lifetimes.                 *)
(***************************************************************************)
EXTENDS Auth, TLAPS

-----------------------------------------------------------------------------
(* The inductive invariant *)

Asking == {"check", "check2"}

\* A link that is offered has opened nothing yet, and none opens a second session.
LinksUnused == \A l \in Links : opened[l] <= 1 /\ (grants[l] # None => opened[l] = 0)

\* An exchange in progress is for the user the link is for, if it is still offered; an
\* answer from Discord names a role.
ExchangeKnows ==
  \A h \in Handlers : hd[h].at \in Exchanging =>
    /\ grants[hd[h].link] # None => grants[hd[h].link].user = hd[h].user
    /\ hd[h].at = "exchange2" => hd[h].actor # "none"

\* A request in progress is for the user of its session, and no confirmation of a role is
\* from the future.
CheckKnows ==
  /\ \A k \in Sids : sessions[k] # None => sessions[k].checked <= now
  /\ \A h \in Handlers : hd[h].at \in Asking =>
       /\ hd[h].checked <= now
       /\ sessions[hd[h].sid] # None => sessions[hd[h].sid].user = hd[h].user

\* Of two requests of one session: an answer that is not older than a lookup which began
\* after the last loss of the role says administrator only of an administrator ...
AnswersKnown ==
  \A g, h \in Handlers :
    /\ hd[g].at \in Asking /\ hd[g].recent
    /\ hd[h].at = "check2" /\ hd[h].actor = "admin"
    /\ hd[g].sid = hd[h].sid /\ hd[g].user = hd[h].user /\ hd[h].checked >= hd[g].checked
    => role[hd[h].user] = "admin"

\* ... and so does a session that was confirmed after that lookup began ...
ConfirmedKnown ==
  \A h \in Handlers :
    /\ hd[h].at \in Asking /\ hd[h].recent
    /\ sessions[hd[h].sid] # None /\ sessions[hd[h].sid].role = "admin"
    /\ sessions[hd[h].sid].checked >= hd[h].checked
    => role[hd[h].user] = "admin"

\* ... and an answer that would still change a session which knows of the loss.
LateKnown ==
  \A h \in Handlers :
    /\ hd[h].at = "check2" /\ hd[h].actor = "admin"
    /\ sessions[hd[h].sid] # None /\ hd[h].sid \in told
    /\ hd[h].checked > sessions[hd[h].sid].checked
    => role[hd[h].user] = "admin"

AuthInv ==
  /\ AuthTypeOK
  /\ RevokedEnds /\ OneLinkPerUser /\ LinksUnused
  /\ ExchangeKnows /\ CheckKnows
  /\ StaleRoleBounded /\ AnswersKnown /\ ConfirmedKnown /\ LateKnown

-----------------------------------------------------------------------------
(* Types *)

\* What is at a step of a request is a record of that step.
LEMMA HandlerKinds ==
  ASSUME AuthTypeOK, NEW h \in Handlers
  PROVE  /\ hd[h].at \in {"issue", "issue2"} => hd[h] \in IssueRecords
         /\ hd[h].at \in Exchanging => hd[h] \in ExchangeRecords
         /\ hd[h].at \in Asking => hd[h] \in CheckRecords
         /\ hd[h].at = "serve" => hd[h] \in ServeRecords
<1>1. hd[h] \in HandlerRecords
  BY DEF AuthTypeOK
<1>2. /\ Idle.at = "idle"
      /\ \A r \in IssueRecords : r.at \in {"issue", "issue2"}
      /\ \A r \in ExchangeRecords : r.at \in Exchanging
      /\ \A r \in CheckRecords : r.at \in Asking
      /\ \A r \in ServeRecords : r.at = "serve"
  BY DEF Idle, IssueRecords, ExchangeRecords, CheckRecords, ServeRecords, Asking
<1> QED
  BY <1>1, <1>2 DEF HandlerRecords, Exchanging, Asking

LEMMA IdleType == Idle \in HandlerRecords /\ Idle.at = "idle"
  BY DEF HandlerRecords, Idle

LEMMA AuthNumbers ==
  /\ MaxTime \in Nat /\ MaxEpoch \in Nat /\ GrantLife \in Nat /\ NonceLife \in Nat
  /\ None \notin GrantRecords /\ None \notin SessionRecords
  BY AuthConstants

\* A drawn token is one of those it is drawn from.
LEMMA AnyOfIn == ASSUME NEW S, NEW x \in AnyOf(S) PROVE x \in S
  BY DEF AnyOf

TablesOK ==
  /\ grants \in [Links -> GrantRecords \cup {None}]
  /\ sessions \in [Sids -> SessionRecords \cup {None}]
  /\ nonces \subseteq [id : Nonces, expires : Nat]
  /\ interactions \subseteq [id : Interactions, at : Nat]
  /\ issued \subseteq [id : Users, at : Nat]
  /\ epochs \in [Users -> 0..MaxEpoch]

LEMMA TablesType == AuthTypeOK => TablesOK
  BY DEF AuthTypeOK, TablesOK

\* Some entries are gone and nothing else has changed in what a link or session says.
GrantsShrink == \A l \in Links : grants'[l] \in {grants[l], None}
SessionsShrink == \A k \in Sids : sessions'[k] \in {sessions[k], None}
HandlersEnd ==
  \A h \in Handlers : hd'[h] = hd[h] \/ hd'[h].at \notin Exchanging \cup Asking

LEMMA ReturnEnds ==
  ASSUME AuthTypeOK, NEW h \in Handlers, Return(h)
  PROVE  hd' \in [Handlers -> HandlerRecords] /\ HandlersEnd
<1>1. hd' \in [Handlers -> HandlerRecords] /\ \A g \in Handlers : hd'[g] \in {hd[g], Idle}
  BY IdleType DEF AuthTypeOK, Return
<1> QED
  BY <1>1, IdleType DEF HandlersEnd, Exchanging, Asking

LEMMA AdvanceShrinks ==
  ASSUME AuthTypeOK, NEW t \in Nat, Advance(t)
  PROVE  /\ TablesOK' /\ now' = t /\ t \in 0..MaxTime
         /\ GrantsShrink /\ SessionsShrink /\ epochs' = epochs
<1>1. grants' \in [Links -> GrantRecords \cup {None}] /\ GrantsShrink
  BY DEF AuthTypeOK, Advance, GrantsShrink
<1>2. sessions' \in [Sids -> SessionRecords \cup {None}] /\ SessionsShrink
  BY DEF AuthTypeOK, Advance, SessionsShrink
<1>3. /\ nonces' \subseteq nonces /\ interactions' \subseteq interactions
      /\ issued' \subseteq issued /\ epochs' = epochs
  BY DEF Advance
<1>4. now' = t /\ t \in 0..MaxTime
  BY AuthNumbers DEF Advance
<1> QED
  BY <1>1, <1>2, <1>3, <1>4 DEF AuthTypeOK, TablesOK

\* A revocation leaves nothing of its user.
LEMMA RevokeShrinks ==
  ASSUME AuthTypeOK, NEW u \in Users, epochs[u] < MaxEpoch, revoke(u)
  PROVE  /\ TablesOK' /\ GrantsShrink /\ SessionsShrink
         /\ \A l \in Links : grants'[l] # None => epochs'[grants[l].user] = epochs[grants[l].user]
         /\ \A k \in Sids : sessions'[k] # None =>
              epochs'[sessions[k].user] = epochs[sessions[k].user]
<1>1. grants' \in [Links -> GrantRecords \cup {None}] /\ GrantsShrink
  BY DEF AuthTypeOK, revoke, GrantsShrink
<1>2. sessions' \in [Sids -> SessionRecords \cup {None}] /\ SessionsShrink
  BY DEF AuthTypeOK, revoke, SessionsShrink
<1>3. epochs' \in [Users -> 0..MaxEpoch] /\ \A v \in Users : v # u => epochs'[v] = epochs[v]
  BY AuthNumbers DEF AuthTypeOK, revoke
<1>4. \A l \in Links : grants'[l] # None => grants[l].user \in Users \ {u}
  BY DEF AuthTypeOK, revoke, GrantRecords
<1>5. \A k \in Sids : sessions'[k] # None => sessions[k].user \in Users \ {u}
  BY DEF AuthTypeOK, revoke, SessionRecords
<1> QED
  BY <1>1, <1>2, <1>3, <1>4, <1>5 DEF AuthTypeOK, TablesOK, revoke

-----------------------------------------------------------------------------
(* Steps that only end something *)

\* Ends of links, sessions and requests, the time that passes and the revocation of what
\* is gone keep the invariant.
LEMMA OnlyEnds ==
  ASSUME AuthInv, AuthTypeOK', GrantsShrink, SessionsShrink, HandlersEnd,
         now' >= now, UNCHANGED <<role, ghosts>>,
         \A l \in Links : grants'[l] # None => epochs'[grants[l].user] = epochs[grants[l].user],
         \A k \in Sids : sessions'[k] # None =>
           epochs'[sessions[k].user] = epochs[sessions[k].user]
  PROVE  AuthInv'
<1>0. /\ AuthTypeOK /\ now \in Nat /\ now' \in Nat
      /\ since' = since /\ opened' = opened /\ told' = told /\ role' = role
  BY DEF AuthInv, AuthTypeOK, ghosts
<1>1. /\ \A l \in Links : grants'[l] # None => grants'[l] = grants[l]
      /\ \A k \in Sids : sessions'[k] # None => sessions'[k] = sessions[k]
  BY DEF GrantsShrink, SessionsShrink
<1>2. /\ \A h \in Handlers : hd'[h].at \in Exchanging => hd'[h] = hd[h] /\ hd[h].link \in Links
      /\ \A h \in Handlers : hd'[h].at \in Asking => hd'[h] = hd[h] /\ hd[h].sid \in Sids
  BY <1>0, HandlerKinds DEF HandlersEnd, ExchangeRecords, CheckRecords
<1>3. RevokedEnds'
  BY <1>0, <1>1 DEF AuthInv, RevokedEnds
<1>4. OneLinkPerUser' /\ LinksUnused'
  BY <1>0, <1>1 DEF AuthInv, OneLinkPerUser, LinksUnused
<1>5. ExchangeKnows'
  BY <1>1, <1>2 DEF AuthInv, ExchangeKnows
<1>6. CheckKnows'
  <2>1. \A k \in Sids : sessions'[k] # None => sessions'[k].checked <= now'
    <3> SUFFICES ASSUME NEW k \in Sids, sessions'[k] # None PROVE sessions'[k].checked <= now'
      OBVIOUS
    <3>1. sessions'[k] = sessions[k] /\ sessions[k].checked <= now /\ sessions[k].checked \in Nat
      BY <1>0, <1>1 DEF AuthInv, CheckKnows, AuthTypeOK, SessionRecords
    <3> QED
      BY <1>0, <3>1
  <2>2. \A h \in Handlers : hd'[h].at \in Asking =>
          /\ hd'[h].checked <= now'
          /\ sessions'[hd'[h].sid] # None => sessions'[hd'[h].sid].user = hd'[h].user
    <3> SUFFICES ASSUME NEW h \in Handlers, hd'[h].at \in Asking
                 PROVE  /\ hd'[h].checked <= now'
                        /\ sessions'[hd'[h].sid] # None => sessions'[hd'[h].sid].user = hd'[h].user
      OBVIOUS
    <3>1. hd'[h] = hd[h] /\ hd[h].checked \in Nat /\ hd[h].sid \in Sids
      BY <1>0, <1>2, HandlerKinds DEF CheckRecords
    <3>2. hd[h].checked <= now
      BY <3>1 DEF AuthInv, CheckKnows
    <3> QED
      BY <1>0, <1>1, <3>1, <3>2 DEF AuthInv, CheckKnows
  <2> QED
    BY <2>1, <2>2 DEF CheckKnows
<1>7. StaleRoleBounded'
  BY <1>0, <1>1 DEF AuthInv, StaleRoleBounded
<1>8. AnswersKnown'
  BY <1>0, <1>2 DEF AuthInv, AnswersKnown, Asking
<1>9. ConfirmedKnown' /\ LateKnown'
  BY <1>0, <1>1, <1>2 DEF AuthInv, ConfirmedKnown, LateKnown, Asking
<1> QED
  BY <1>3, <1>4, <1>5, <1>6, <1>7, <1>8, <1>9 DEF AuthInv

\* The parts of the invariant about sessions and requests keep when neither changes.
SessionParts == CheckKnows /\ StaleRoleBounded /\ AnswersKnown /\ ConfirmedKnown /\ LateKnown

LEMMA SessionPartsKept ==
  ASSUME AuthInv, UNCHANGED <<now, role, sessions, told>>, HandlersEnd
  PROVE  SessionParts'
<1>1. \A h \in Handlers : hd'[h].at \in Asking => hd'[h] = hd[h]
  BY DEF HandlersEnd
<1>2. CheckKnows' /\ StaleRoleBounded'
  BY <1>1 DEF AuthInv, CheckKnows, StaleRoleBounded
<1>3. AnswersKnown'
  BY <1>1 DEF AuthInv, AnswersKnown, Asking
<1>4. ConfirmedKnown' /\ LateKnown'
  BY <1>1 DEF AuthInv, ConfirmedKnown, LateKnown, Asking
<1> QED
  BY <1>2, <1>3, <1>4 DEF SessionParts

-----------------------------------------------------------------------------
(* Links *)

\* issue: the new link is the only one of its user, and nothing refers to it yet.
LEMMA IssueInv ==
  ASSUME AuthInv, NEW h \in Handlers, hd[h].at = "issue2", Return(h), now' = now, role' = role,
         NEW l \in FreshLinks,
         grants' = [WithoutOld(hd[h].user) EXCEPT
                      ![l] = [user |-> hd[h].user, expires |-> now + GrantLife]],
         interactions' = interactions \cup {[id |-> hd[h].interaction, at |-> now]},
         issued' = {x \in issued : x.id # hd[h].user} \cup {[id |-> hd[h].user, at |-> now]},
         since' = [since EXCEPT ![l] = epochs[hd[h].user]],
         opened' = [opened EXCEPT ![l] = 0],
         UNCHANGED <<nonces, sessions, epochs, told>>
  PROVE  AuthInv'
<1> DEFINE u == hd[h].user
           r == [user |-> u, expires |-> now + GrantLife]
<1>0. AuthTypeOK /\ now \in Nat /\ l \in Links
  BY DEF AuthInv, AuthTypeOK, FreshLinks
<1>1. u \in Users /\ hd[h].interaction \in Interactions
  BY <1>0, HandlerKinds DEF IssueRecords
<1>2. r \in GrantRecords /\ r.user = u
  BY <1>0, <1>1, AuthNumbers DEF GrantRecords
<1>3. /\ grants' \in [Links -> GrantRecords \cup {None}] /\ grants'[l] = r
      /\ \A m \in Links \ {l} : grants'[m] # None => grants'[m] = grants[m] /\ grants[m].user # u
  BY <1>0, <1>2 DEF WithoutOld, AuthTypeOK
<1>4. /\ since' \in [Links -> Nat] /\ since'[l] = epochs[u]
      /\ \A m \in Links \ {l} : since'[m] = since[m]
  BY <1>0, <1>1 DEF AuthTypeOK
<1>5. /\ opened' \in [Links -> Nat] /\ opened'[l] = 0
      /\ \A m \in Links \ {l} : opened'[m] = opened[m]
  BY <1>0 DEF AuthTypeOK
<1>6. hd' \in [Handlers -> HandlerRecords] /\ HandlersEnd
  BY <1>0, ReturnEnds
<1>7. /\ [id |-> hd[h].interaction, at |-> now] \in [id : Interactions, at : Nat]
      /\ [id |-> u, at |-> now] \in [id : Users, at : Nat]
  BY <1>0, <1>1
<1> HIDE DEF u, r
<1>8. AuthTypeOK'
  <2>1. interactions' \subseteq [id : Interactions, at : Nat]
    BY <1>0, <1>7 DEF AuthTypeOK
  <2>2. issued' \subseteq [id : Users, at : Nat]
    BY <1>0, <1>7 DEF AuthTypeOK, u
  <2> QED
    BY <1>0, <1>3, <1>4, <1>5, <1>6, <2>1, <2>2 DEF AuthTypeOK
<1>9. RevokedEnds'
  <2>1. \A k \in Sids : sessions[k] # None => sessions[k].link \in Links \ {l}
    BY <1>0 DEF FreshLinks, AuthTypeOK, SessionRecords
  <2>2. \A k \in Sids : sessions'[k] # None =>
          /\ sessions'[k].epoch = epochs'[sessions'[k].user]
          /\ since'[sessions'[k].link] = epochs'[sessions'[k].user]
    BY <1>4, <2>1 DEF AuthInv, RevokedEnds
  <2>3. \A m \in Links : grants'[m] # None => since'[m] = epochs'[grants'[m].user]
    BY <1>2, <1>3, <1>4 DEF AuthInv, RevokedEnds
  <2> QED
    BY <2>2, <2>3 DEF RevokedEnds
<1>10. OneLinkPerUser'
  BY <1>2, <1>3 DEF AuthInv, OneLinkPerUser
<1>11. LinksUnused'
  BY <1>3, <1>5 DEF AuthInv, LinksUnused
<1>12. ExchangeKnows'
  <2> SUFFICES ASSUME NEW g \in Handlers, hd'[g].at \in Exchanging
               PROVE  /\ grants'[hd'[g].link] # None => grants'[hd'[g].link].user = hd'[g].user
                      /\ hd'[g].at = "exchange2" => hd'[g].actor # "none"
    BY DEF ExchangeKnows
  <2>1. hd'[g] = hd[g] /\ hd[g].link \in Links \ {l}
    BY <1>0, <1>6, HandlerKinds DEF HandlersEnd, FreshLinks, ExchangeRecords
  <2> QED
    BY <1>3, <2>1 DEF AuthInv, ExchangeKnows
<1> QED
  BY <1>6, <1>8, <1>9, <1>10, <1>11, <1>12, SessionPartsKept DEF AuthInv, SessionParts

\* The first section of exchange remembers the link, its user and the epoch.
LEMMA PostExchangeInv ==
  ASSUME AuthInv, NEW h \in Handlers, NEW l \in Links, NEW n \in Nonces, PostExchange(h, l, n)
  PROVE  AuthInv'
<1> DEFINE r == [at |-> "exchange", user |-> grants[l].user, link |-> l, nonce |-> n,
                 epoch |-> epochs[grants[l].user], actor |-> "none"]
<1>0. AuthTypeOK /\ grants[l] # None /\ hd[h] = Idle
  BY DEF AuthInv, PostExchange
<1>1. grants[l].user \in Users /\ epochs[grants[l].user] \in Nat
  BY <1>0, AuthNumbers DEF AuthTypeOK, GrantRecords
<1>2. /\ r \in ExchangeRecords /\ r.at = "exchange" /\ r.link = l /\ r.user = grants[l].user
  BY <1>1 DEF ExchangeRecords, Exchanging, Roles
<1>3. hd' = [hd EXCEPT ![h] = r] /\ UNCHANGED <<now, role, tables, ghosts>>
  BY DEF PostExchange, BeginExchange
<1> HIDE DEF r
<1>4. /\ hd' \in [Handlers -> HandlerRecords] /\ hd'[h] = r
      /\ \A g \in Handlers \ {h} : hd'[g] = hd[g]
  BY <1>0, <1>2, <1>3 DEF AuthTypeOK, HandlerRecords
<1>5. /\ UNCHANGED <<now, role, grants, nonces, sessions, interactions, issued, epochs>>
      /\ UNCHANGED <<since, opened, told>>
  BY <1>3 DEF tables, ghosts
<1>6. AuthTypeOK'
  BY <1>0, <1>4, <1>5 DEF AuthTypeOK
<1>7. RevokedEnds' /\ OneLinkPerUser' /\ LinksUnused'
  BY <1>5 DEF AuthInv, RevokedEnds, OneLinkPerUser, LinksUnused
<1>8. ExchangeKnows'
  BY <1>2, <1>4, <1>5 DEF AuthInv, ExchangeKnows
<1>9. \A g \in Handlers : hd'[g].at \in Asking => hd'[g] = hd[g]
  BY <1>2, <1>4 DEF Asking
<1>10. CheckKnows' /\ StaleRoleBounded'
  BY <1>5, <1>9 DEF AuthInv, CheckKnows, StaleRoleBounded
<1>11. AnswersKnown'
  BY <1>5, <1>9 DEF AuthInv, AnswersKnown, Asking
<1>12. ConfirmedKnown' /\ LateKnown'
  BY <1>5, <1>9 DEF AuthInv, ConfirmedKnown, LateKnown, Asking
<1> QED
  BY <1>6, <1>7, <1>8, <1>10, <1>11, <1>12 DEF AuthInv

\* The second section of exchange: what is still offered is used up, and the new session
\* has the epoch that its user has.
LEMMA ExchangeInv ==
  ASSUME AuthInv, NEW h \in Handlers, hd[h].at = "exchange2", Return(h), now' = now, role' = role,
         StillOffered(hd[h]), NEW k \in FreshSids,
         grants' = [grants EXCEPT ![hd[h].link] = None],
         nonces' = {x \in nonces : x.id # hd[h].nonce},
         sessions' = [sessions EXCEPT ![k] =
           [user |-> hd[h].user, role |-> hd[h].actor, created |-> now, seen |-> now,
            checked |-> now, epoch |-> hd[h].epoch, link |-> hd[h].link]],
         opened' = [opened EXCEPT ![hd[h].link] = @ + 1],
         told' = told \ {k},
         UNCHANGED <<interactions, issued, epochs, since>>
  PROVE  AuthInv'
<1> DEFINE l == hd[h].link
           s == [user |-> hd[h].user, role |-> hd[h].actor, created |-> now, seen |-> now,
                 checked |-> now, epoch |-> hd[h].epoch, link |-> hd[h].link]
<1>0. AuthTypeOK /\ now \in Nat /\ k \in Sids
  BY DEF AuthInv, AuthTypeOK, FreshSids
<1>1. /\ hd[h] \in ExchangeRecords /\ l \in Links /\ hd[h].user \in Users
      /\ hd[h].epoch \in Nat /\ hd[h].actor \in Roles
  BY <1>0, HandlerKinds DEF Exchanging, ExchangeRecords
<1>2. grants[l] # None /\ grants[l].user = hd[h].user /\ hd[h].actor # "none"
  BY DEF AuthInv, ExchangeKnows, Exchanging, StillOffered
<1>3. epochs[hd[h].user] = hd[h].epoch
  BY DEF StillOffered
<1>4. /\ s \in SessionRecords /\ s.user = hd[h].user /\ s.checked = now
      /\ s.epoch = hd[h].epoch /\ s.link = l
  BY <1>0, <1>1, <1>2 DEF SessionRecords, Roles
<1>5. /\ grants' \in [Links -> GrantRecords \cup {None}] /\ grants'[l] = None
      /\ \A m \in Links \ {l} : grants'[m] = grants[m]
  BY <1>0, <1>1 DEF AuthTypeOK
<1>6. /\ sessions' \in [Sids -> SessionRecords \cup {None}] /\ sessions'[k] = s
      /\ \A j \in Sids \ {k} : sessions'[j] = sessions[j]
  BY <1>0, <1>4 DEF AuthTypeOK
<1>7. /\ opened' \in [Links -> Nat] /\ opened'[l] = opened[l] + 1
      /\ \A m \in Links \ {l} : opened'[m] = opened[m]
  BY <1>0, <1>1 DEF AuthTypeOK
<1>8. hd' \in [Handlers -> HandlerRecords] /\ HandlersEnd
  BY <1>0, ReturnEnds
<1> HIDE DEF l, s
<1>9. AuthTypeOK'
  BY <1>0, <1>5, <1>6, <1>7, <1>8 DEF AuthTypeOK
<1>10. RevokedEnds'
  <2>1. \A m \in Links : grants'[m] # None => since'[m] = epochs'[grants'[m].user]
    BY <1>5 DEF AuthInv, RevokedEnds
  <2>2. since[l] = epochs[hd[h].user]
    BY <1>1, <1>2 DEF AuthInv, RevokedEnds
  <2>3. \A j \in Sids : sessions'[j] # None =>
          /\ sessions'[j].epoch = epochs'[sessions'[j].user]
          /\ since'[sessions'[j].link] = epochs'[sessions'[j].user]
    BY <1>3, <1>4, <1>6, <2>2 DEF AuthInv, RevokedEnds
  <2> QED
    BY <2>1, <2>3 DEF RevokedEnds
<1>11. OneLinkPerUser'
  BY <1>5 DEF AuthInv, OneLinkPerUser
<1>12. LinksUnused'
  BY <1>1, <1>2, <1>5, <1>7 DEF AuthInv, LinksUnused
<1>13. ExchangeKnows'
  BY <1>0, <1>5, <1>8, HandlerKinds DEF AuthInv, ExchangeKnows, HandlersEnd, ExchangeRecords
<1>14. \A g \in Handlers : hd'[g].at \in Asking => hd'[g] = hd[g] /\ hd[g].sid \in Sids \ {k}
  BY <1>0, <1>8, HandlerKinds DEF HandlersEnd, FreshSids, CheckRecords, Asking, Checking
<1>15. CheckKnows'
  BY <1>0, <1>4, <1>6, <1>14 DEF AuthInv, CheckKnows
<1>16. StaleRoleBounded'
  BY <1>6 DEF AuthInv, StaleRoleBounded
<1>17. AnswersKnown'
  BY <1>14 DEF AuthInv, AnswersKnown, Asking
<1>18. ConfirmedKnown' /\ LateKnown'
  BY <1>6, <1>14 DEF AuthInv, ConfirmedKnown, LateKnown, Asking
<1> QED
  BY <1>9, <1>10, <1>11, <1>12, <1>13, <1>15, <1>16, <1>17, <1>18 DEF AuthInv

-----------------------------------------------------------------------------
(* Sessions *)

\* The first section of check: a lookup begins later than everything that was confirmed,
\* and without one the request only knows what the session says.
LEMMA PostRequestInv ==
  ASSUME AuthInv, NEW h \in Handlers, NEW k \in Sids, PostRequest(h, k)
  PROVE  AuthInv'
<1> DEFINE s == sessions[k]
           late == now - s.checked >= RefreshAge
           known == [at |-> "check2", user |-> s.user, sid |-> k, actor |-> s.role,
                     checked |-> s.checked, epoch |-> s.epoch, recent |-> FALSE]
           asked == [known EXCEPT !.at = "check", !.checked = now + 1, !.recent = TRUE]
           r == IF late THEN asked ELSE known
<1>0. AuthTypeOK /\ now \in Nat /\ hd[h] = Idle /\ sessions[k] # None
  BY DEF AuthInv, AuthTypeOK, PostRequest
<1>1. /\ s \in SessionRecords /\ s.user \in Users /\ s.role \in {"admin", "mod"}
      /\ s.checked \in Nat /\ s.epoch \in Nat /\ s.checked <= now
  BY <1>0 DEF AuthTypeOK, SessionRecords, AuthInv, CheckKnows
<1>2. hd' = [hd EXCEPT ![h] = r] /\ UNCHANGED <<role, since, opened, told>>
  BY <1>0, <1>1, AuthConstants DEF PostRequest, ghosts
<1>3. /\ r \in CheckRecords /\ r.user = s.user /\ r.sid = k /\ r.actor = s.role
      /\ r.at = IF late THEN "check" ELSE "check2"
      /\ r.checked = IF late THEN now + 1 ELSE s.checked
      /\ r.recent <=> late
  <2>1. /\ known \in CheckRecords /\ known.user = s.user /\ known.sid = k /\ known.at = "check2"
        /\ known.actor = s.role /\ known.checked = s.checked /\ ~known.recent
    BY <1>1 DEF CheckRecords
  <2> HIDE DEF known
  <2>2. /\ asked \in CheckRecords /\ asked.user = s.user /\ asked.sid = k /\ asked.at = "check"
        /\ asked.actor = s.role /\ asked.checked = now + 1 /\ asked.recent
    <3>1. now + 1 \in Nat
      BY <1>0
    <3>2. asked \in CheckRecords
      BY <2>1, <3>1 DEF CheckRecords
    <3>3. DOMAIN known = {"at", "user", "sid", "actor", "checked", "epoch", "recent"}
      BY <2>1 DEF CheckRecords
    <3>4. /\ asked.user = known.user /\ asked.sid = known.sid /\ asked.at = "check"
          /\ asked.actor = known.actor /\ asked.checked = now + 1
      BY <3>3
    <3>5. asked.recent
      BY <3>3
    <3> QED
      BY <2>1, <3>2, <3>4, <3>5
  <2> HIDE DEF asked
  <2> QED
    BY <2>1, <2>2
<1>4. /\ TablesOK' /\ GrantsShrink /\ SessionsShrink /\ epochs' = epochs
      /\ now' = (IF late THEN now + 1 ELSE now) /\ now' \in 0..MaxTime
  <2>1. CASE late
    <3>1. Advance(now + 1)
      BY <1>0, <1>1, <2>1, AuthConstants DEF PostRequest
    <3> QED
      BY <1>0, <2>1, <3>1, AdvanceShrinks
  <2>2. CASE ~late
    <3>1. UNCHANGED <<now, tables>>
      BY <1>0, <1>1, <2>2, AuthConstants DEF PostRequest
    <3> QED
      BY <1>0, <2>2, <3>1 DEF AuthTypeOK, tables, TablesOK, GrantsShrink, SessionsShrink
  <2> QED
    BY <2>1, <2>2
<1> HIDE DEF s, late, r
<1>5. /\ hd' \in [Handlers -> HandlerRecords] /\ hd'[h] = r
      /\ \A g \in Handlers \ {h} : hd'[g] = hd[g]
  BY <1>0, <1>2, <1>3 DEF AuthTypeOK, HandlerRecords
<1>6. AuthTypeOK'
  BY <1>0, <1>2, <1>4, <1>5 DEF AuthTypeOK, TablesOK
<1>7. /\ \A l \in Links : grants'[l] # None => grants'[l] = grants[l]
      /\ \A j \in Sids : sessions'[j] # None => sessions'[j] = sessions[j]
  BY <1>4 DEF GrantsShrink, SessionsShrink
<1>8. RevokedEnds' /\ OneLinkPerUser' /\ LinksUnused'
  BY <1>2, <1>4, <1>7 DEF AuthInv, RevokedEnds, OneLinkPerUser, LinksUnused
<1>9. r.at \in Asking /\ r.at \notin Exchanging
  BY <1>3 DEF Asking, Exchanging
<1>10. ExchangeKnows'
  <2>1. \A g \in Handlers : hd'[g].at \in Exchanging => hd'[g] = hd[g] /\ hd[g].link \in Links
    BY <1>0, <1>5, <1>9, HandlerKinds DEF ExchangeRecords
  <2> QED
    BY <1>7, <2>1 DEF AuthInv, ExchangeKnows
<1>11. \A j \in Sids : sessions[j] # None => sessions[j].checked \in Nat /\ sessions[j].checked <= now
  BY <1>0 DEF AuthTypeOK, SessionRecords, AuthInv, CheckKnows
<1>12. \A g \in Handlers : g # h /\ hd'[g].at \in Asking =>
         hd'[g] = hd[g] /\ hd[g].sid \in Sids /\ hd[g].checked \in Nat /\ hd[g].checked <= now
  BY <1>0, <1>5, HandlerKinds DEF CheckRecords, AuthInv, CheckKnows
<1>13. CheckKnows'
  <2>1. \A j \in Sids : sessions'[j] # None => sessions'[j].checked <= now'
    BY <1>0, <1>4, <1>7, <1>11
  <2>2. hd'[h].checked <= now' /\ (sessions'[k] # None => sessions'[k].user = hd'[h].user)
    BY <1>0, <1>1, <1>3, <1>4, <1>5, <1>7 DEF s
  <2>3. \A g \in Handlers : g # h /\ hd'[g].at \in Asking =>
          /\ hd'[g].checked <= now'
          /\ sessions'[hd'[g].sid] # None => sessions'[hd'[g].sid].user = hd'[g].user
    <3> SUFFICES ASSUME NEW g \in Handlers, g # h, hd'[g].at \in Asking
                 PROVE  /\ hd'[g].checked <= now'
                        /\ sessions'[hd'[g].sid] # None => sessions'[hd'[g].sid].user = hd'[g].user
      OBVIOUS
    <3>1. hd'[g].checked <= now'
      BY <1>0, <1>4, <1>12
    <3> QED
      BY <1>7, <1>12, <3>1 DEF AuthInv, CheckKnows
  <2> QED
    BY <1>3, <1>5, <2>1, <2>2, <2>3 DEF CheckKnows
<1>14. StaleRoleBounded'
  BY <1>2, <1>7 DEF AuthInv, StaleRoleBounded
<1>15. AnswersKnown'
  <2> SUFFICES ASSUME NEW f \in Handlers, NEW g \in Handlers,
                      hd'[f].at \in Asking, hd'[f].recent,
                      hd'[g].at = "check2", hd'[g].actor = "admin", hd'[f].sid = hd'[g].sid,
                      hd'[f].user = hd'[g].user, hd'[g].checked >= hd'[f].checked
               PROVE  role'[hd'[g].user] = "admin"
    BY DEF AnswersKnown
  <2>1. CASE f # h /\ g # h
    BY <1>2, <1>12, <2>1 DEF AuthInv, AnswersKnown, Asking
  <2>2. CASE f = h
    <3>1. late /\ hd'[f].checked = now + 1
      BY <1>3, <1>5, <2>2
    <3>2. g # h
      BY <1>3, <1>5, <3>1
    <3> QED
      BY <1>0, <1>12, <3>1, <3>2 DEF Asking
  <2>3. CASE f # h /\ g = h
    <3>1. ~late
      BY <1>3, <1>5, <2>3
    <3>2. /\ hd[f].at \in Asking /\ hd[f].recent /\ hd[f].sid = k /\ s.checked >= hd[f].checked
          /\ s.role = "admin" /\ hd[f].user = hd'[g].user
      BY <1>3, <1>5, <2>3, <3>1
    <3> QED
      BY <1>0, <1>2, <3>2 DEF AuthInv, ConfirmedKnown, s
  <2> QED
    BY <2>1, <2>2, <2>3
<1>16. ConfirmedKnown'
  <2> SUFFICES ASSUME NEW g \in Handlers, hd'[g].at \in Asking, hd'[g].recent,
                      sessions'[hd'[g].sid] # None, sessions'[hd'[g].sid].role = "admin",
                      sessions'[hd'[g].sid].checked >= hd'[g].checked
               PROVE  role'[hd'[g].user] = "admin"
    BY DEF ConfirmedKnown
  <2>1. g # h
    <3> SUFFICES ASSUME g = h PROVE FALSE
      OBVIOUS
    <3>1. late /\ hd'[g].checked = now + 1 /\ hd'[g].sid = k
      BY <1>3, <1>5
    <3> QED
      BY <1>0, <1>7, <1>11, <3>1
  <2> QED
    BY <1>2, <1>7, <1>12, <2>1 DEF AuthInv, ConfirmedKnown
<1>17. LateKnown'
  <2> SUFFICES ASSUME NEW g \in Handlers, hd'[g].at = "check2", hd'[g].actor = "admin",
                      sessions'[hd'[g].sid] # None, hd'[g].sid \in told',
                      hd'[g].checked > sessions'[hd'[g].sid].checked
               PROVE  role'[hd'[g].user] = "admin"
    BY DEF LateKnown
  <2>1. g # h
    <3> SUFFICES ASSUME g = h PROVE FALSE
      OBVIOUS
    <3>1. hd'[g].checked = s.checked /\ hd'[g].sid = k
      BY <1>3, <1>5
    <3> QED
      BY <1>1, <1>7, <3>1 DEF s
  <2> QED
    BY <1>2, <1>7, <1>12, <2>1 DEF AuthInv, LateKnown, Asking
<1> QED
  BY <1>6, <1>8, <1>10, <1>13, <1>14, <1>15, <1>16, <1>17 DEF AuthInv

\* Discord's answer says administrator of an administrator.
LEMMA AuthorizedInv ==
  ASSUME AuthInv, NEW h \in Handlers, Authorized(h)
  PROVE  AuthInv'
<1> DEFINE q == hd[h]
<1>0. /\ AuthTypeOK /\ role[q.user] # "none" /\ q.at \in {"issue", "exchange", "check"}
      /\ UNCHANGED <<now, role, grants, nonces, sessions, interactions, issued, epochs>>
      /\ UNCHANGED <<since, opened, told>>
  BY DEF AuthInv, Authorized, tables, ghosts
<1>1. CASE q.at = "issue"
  <2> DEFINE r == [q EXCEPT !.at = "issue2"]
  <2>1. r \in HandlerRecords /\ r.at = "issue2"
    BY <1>0, <1>1, HandlerKinds DEF IssueRecords, HandlerRecords
  <2>2. hd' = [hd EXCEPT ![h] = r]
    BY <1>1 DEF Authorized
  <2> HIDE DEF r
  <2>3. hd' \in [Handlers -> HandlerRecords] /\ HandlersEnd
    BY <1>0, <2>1, <2>2 DEF AuthTypeOK, HandlersEnd, Exchanging, Asking
  <2>4. AuthTypeOK' /\ GrantsShrink /\ SessionsShrink /\ now' >= now
    BY <1>0, <2>3 DEF AuthTypeOK, GrantsShrink, SessionsShrink
  <2> QED
    BY <1>0, <2>3, <2>4, OnlyEnds DEF ghosts
<1>2. CASE q.at = "exchange"
  <2> DEFINE r == [q EXCEPT !.at = "exchange2", !.actor = role[q.user]]
  <2>1. q \in ExchangeRecords /\ role[q.user] \in Roles
    BY <1>0, <1>2, HandlerKinds DEF Exchanging, ExchangeRecords, AuthTypeOK
  <2>2. /\ r \in ExchangeRecords /\ r.at = "exchange2" /\ r.actor # "none"
        /\ r.link = q.link /\ r.user = q.user
    BY <1>0, <2>1 DEF ExchangeRecords, Exchanging
  <2>3. hd' = [hd EXCEPT ![h] = r]
    BY <1>2 DEF Authorized
  <2> HIDE DEF r
  <2>4. /\ hd' \in [Handlers -> HandlerRecords] /\ hd'[h] = r
        /\ \A g \in Handlers \ {h} : hd'[g] = hd[g]
    BY <1>0, <2>2, <2>3 DEF AuthTypeOK, HandlerRecords
  <2>5. AuthTypeOK'
    BY <1>0, <2>4 DEF AuthTypeOK
  <2>6. RevokedEnds' /\ OneLinkPerUser' /\ LinksUnused'
    BY <1>0 DEF AuthInv, RevokedEnds, OneLinkPerUser, LinksUnused
  <2>7. ExchangeKnows'
    BY <1>0, <1>2, <2>2, <2>4 DEF AuthInv, ExchangeKnows, Exchanging
  <2>8. \A g \in Handlers : hd'[g].at \in Asking => hd'[g] = hd[g]
    BY <2>2, <2>4 DEF Asking
  <2>9. CheckKnows' /\ StaleRoleBounded'
    BY <1>0, <2>8 DEF AuthInv, CheckKnows, StaleRoleBounded
  <2>10. AnswersKnown'
    BY <1>0, <2>8 DEF AuthInv, AnswersKnown, Asking
  <2>11. ConfirmedKnown' /\ LateKnown'
    BY <1>0, <2>8 DEF AuthInv, ConfirmedKnown, LateKnown, Asking
  <2> QED
    BY <2>5, <2>6, <2>7, <2>9, <2>10, <2>11 DEF AuthInv
<1>3. CASE q.at = "check"
  <2> DEFINE r == [q EXCEPT !.at = "check2", !.actor = role[q.user]]
  <2>1. q \in CheckRecords /\ role[q.user] \in {"admin", "mod"}
    BY <1>0, <1>3, HandlerKinds DEF Asking, CheckRecords, AuthTypeOK, Roles
  <2>2. /\ r \in CheckRecords /\ r.at = "check2" /\ r.actor = role[r.user]
        /\ r.sid = q.sid /\ r.user = q.user /\ r.checked = q.checked /\ r.recent = q.recent
    BY <1>0, <2>1 DEF CheckRecords
  <2>3. hd' = [hd EXCEPT ![h] = r]
    BY <1>3 DEF Authorized
  <2> HIDE DEF r
  <2>4. /\ hd' \in [Handlers -> HandlerRecords] /\ hd'[h] = r
        /\ \A g \in Handlers \ {h} : hd'[g] = hd[g]
    BY <1>0, <2>2, <2>3 DEF AuthTypeOK, HandlerRecords
  <2>5. AuthTypeOK'
    BY <1>0, <2>4 DEF AuthTypeOK
  <2>6. RevokedEnds' /\ OneLinkPerUser' /\ LinksUnused'
    BY <1>0 DEF AuthInv, RevokedEnds, OneLinkPerUser, LinksUnused
  <2>7. ExchangeKnows'
    BY <1>0, <2>2, <2>4 DEF AuthInv, ExchangeKnows, Exchanging
  <2>8. \A g \in Handlers : hd'[g].at \in Asking =>
          /\ hd[g].at \in Asking /\ hd'[g].sid = hd[g].sid /\ hd'[g].user = hd[g].user
          /\ hd'[g].checked = hd[g].checked /\ hd'[g].recent = hd[g].recent
    BY <1>3, <2>2, <2>4 DEF Asking
  <2>9. \A g \in Handlers : hd'[g].at = "check2" =>
          hd'[g] = hd[g] \/ hd'[g].actor = role[hd'[g].user]
    BY <2>2, <2>4
  <2>10. CheckKnows' /\ StaleRoleBounded'
    BY <1>0, <2>8 DEF AuthInv, CheckKnows, StaleRoleBounded
  <2>11. AnswersKnown'
    BY <1>0, <2>8, <2>9 DEF AuthInv, AnswersKnown, Asking
  <2>12. ConfirmedKnown'
    BY <1>0, <2>8 DEF AuthInv, ConfirmedKnown
  <2>13. LateKnown'
    BY <1>0, <2>9 DEF AuthInv, LateKnown
  <2> QED
    BY <2>5, <2>6, <2>7, <2>10, <2>11, <2>12, <2>13 DEF AuthInv
<1> QED
  BY <1>0, <1>1, <1>2, <1>3

\* What check writes back: role and confirmation of the lookup, or of the session when
\* another request has confirmed it since.
LEMMA RefreshedFields ==
  ASSUME NEW r \in CheckRecords, NEW s \in SessionRecords, NEW want \in Wants, now \in Nat
  PROVE  LET t == Refreshed(r, s, want) IN
         /\ t \in SessionRecords /\ t.user = s.user /\ t.epoch = s.epoch /\ t.link = s.link
         /\ r.checked > s.checked => t.role = r.actor /\ t.checked = r.checked
         /\ ~(r.checked > s.checked) => t.role = s.role /\ t.checked = s.checked
<1> DEFINE t == IF Newer(r, s) THEN [s EXCEPT !.role = r.actor, !.checked = r.checked] ELSE s
<1>1. /\ t \in SessionRecords /\ t.user = s.user /\ t.epoch = s.epoch /\ t.link = s.link
      /\ r.checked > s.checked => t.role = r.actor /\ t.checked = r.checked
      /\ ~(r.checked > s.checked) => t.role = s.role /\ t.checked = s.checked
  BY DEF Newer, SessionRecords, CheckRecords
<1>2. Refreshed(r, s, want) = IF want # "read" /\ now > t.seen THEN [t EXCEPT !.seen = now] ELSE t
  BY DEF Refreshed
<1> HIDE DEF t
<1> QED
  BY <1>1, <1>2 DEF SessionRecords

\* The second section of check.
LEMMA CheckInv ==
  ASSUME AuthInv, NEW h \in Handlers, NEW want \in Wants, check(h, want), Survives(hd[h])
  PROVE  AuthInv'
<1> DEFINE r == hd[h]
           k == hd[h].sid
           s == sessions[hd[h].sid]
           t == Refreshed(r, s, want)
           q == IF (want = "revoke" /\ t.role = "admin") \/ want = "logout"
                THEN [at |-> "serve", sid |-> r.sid, want |-> want] ELSE Idle
<1>0. AuthTypeOK /\ now \in Nat /\ r.at = "check2"
  BY DEF AuthInv, AuthTypeOK, check
<1>1. r \in CheckRecords /\ k \in Sids /\ r.checked \in Nat /\ r.user \in Users
  BY <1>0, HandlerKinds DEF Asking, CheckRecords
<1>2. /\ s # None /\ s \in SessionRecords /\ s.checked \in Nat /\ s.checked <= now
      /\ s.user = r.user /\ r.checked <= now
  BY <1>0, <1>1 DEF Survives, AuthInv, AuthTypeOK, CheckKnows, SessionRecords, Asking
<1>3. /\ t \in SessionRecords /\ t.user = s.user /\ t.epoch = s.epoch /\ t.link = s.link
      /\ r.checked > s.checked => t.role = r.actor /\ t.checked = r.checked
      /\ ~(r.checked > s.checked) => t.role = s.role /\ t.checked = s.checked
  BY <1>0, <1>1, <1>2, RefreshedFields
<1>4. /\ sessions' = [sessions EXCEPT ![k] = t]
      /\ told' = IF r.recent THEN told \cup {k} ELSE told
      /\ hd' = [hd EXCEPT ![h] = q]
      /\ UNCHANGED <<grants, nonces, interactions, issued, epochs, since, opened>>
      /\ UNCHANGED <<now, role>>
  BY DEF check
<1>5. q \in HandlerRecords /\ q.at \in {"idle", "serve"}
  BY <1>1, IdleType DEF HandlerRecords, ServeRecords
<1> HIDE DEF r, k, s, t, q
<1>6. /\ sessions' \in [Sids -> SessionRecords \cup {None}] /\ sessions'[k] = t
      /\ \A j \in Sids \ {k} : sessions'[j] = sessions[j]
  BY <1>0, <1>1, <1>3, <1>4 DEF AuthTypeOK
<1>7. /\ hd' \in [Handlers -> HandlerRecords] /\ hd'[h] = q
      /\ \A g \in Handlers \ {h} : hd'[g] = hd[g]
  BY <1>0, <1>4, <1>5 DEF AuthTypeOK
<1>8. told' \subseteq Sids /\ told' \subseteq told \cup {k} /\ (k \in told' => k \in told \/ r.recent)
  BY <1>0, <1>1, <1>4 DEF AuthTypeOK
<1>9. AuthTypeOK'
  BY <1>0, <1>4, <1>6, <1>7, <1>8 DEF AuthTypeOK
<1>10. RevokedEnds'
  BY <1>1, <1>2, <1>3, <1>4, <1>6 DEF AuthInv, RevokedEnds, s, k
<1>11. OneLinkPerUser' /\ LinksUnused'
  BY <1>4 DEF AuthInv, OneLinkPerUser, LinksUnused
<1>12. ExchangeKnows'
  BY <1>4, <1>5, <1>7 DEF AuthInv, ExchangeKnows, Exchanging
<1>13. \A g \in Handlers : hd'[g].at \in Asking =>
         /\ g # h /\ hd'[g] = hd[g] /\ hd[g].sid \in Sids /\ hd[g].checked \in Nat
         /\ hd[g].at \in Asking
  BY <1>0, <1>5, <1>7, HandlerKinds DEF CheckRecords, Asking
<1>14. t.checked \in Nat /\ t.checked <= now /\ t.checked >= s.checked /\ t.checked >= r.checked
  BY <1>1, <1>2, <1>3
<1>15. CheckKnows'
  BY <1>2, <1>3, <1>4, <1>6, <1>13, <1>14 DEF AuthInv, CheckKnows, s, k
<1>16. \A g \in Handlers : hd'[g].at \in Asking /\ hd[g].sid = k => hd[g].user = r.user
  BY <1>2, <1>13 DEF AuthInv, CheckKnows, s, k, r
<1>17. AnswersKnown'
  BY <1>4, <1>13 DEF AuthInv, AnswersKnown, Asking
<1>18. ConfirmedKnown'
  <2> SUFFICES ASSUME NEW g \in Handlers, hd'[g].at \in Asking, hd'[g].recent,
                      sessions'[hd'[g].sid] # None, sessions'[hd'[g].sid].role = "admin",
                      sessions'[hd'[g].sid].checked >= hd'[g].checked
               PROVE  role'[hd'[g].user] = "admin"
    BY DEF ConfirmedKnown
  <2>1. CASE hd[g].sid # k
    BY <1>4, <1>6, <1>13, <2>1 DEF AuthInv, ConfirmedKnown
  <2>2. CASE hd[g].sid = k
    <3>1. t.role = "admin" /\ t.checked >= hd[g].checked /\ hd[g].user = r.user /\ hd[g].recent
      BY <1>6, <1>13, <1>16, <2>2
    <3>2. CASE r.checked > s.checked
      <4>1. r.actor = "admin" /\ r.checked >= hd[g].checked
        BY <1>3, <3>1, <3>2
      <4> QED
        BY <1>0, <1>4, <1>13, <2>2, <3>1, <4>1 DEF AuthInv, AnswersKnown, r, k
    <3>3. CASE ~(r.checked > s.checked)
      <4>1. s.role = "admin" /\ s.checked >= hd[g].checked
        BY <1>3, <3>1, <3>3
      <4> QED
        BY <1>2, <1>4, <1>13, <2>2, <3>1, <4>1 DEF AuthInv, ConfirmedKnown, s, k
    <3> QED
      BY <3>2, <3>3
  <2> QED
    BY <2>1, <2>2
<1>19. LateKnown'
  <2> SUFFICES ASSUME NEW g \in Handlers, hd'[g].at = "check2", hd'[g].actor = "admin",
                      sessions'[hd'[g].sid] # None, hd'[g].sid \in told',
                      hd'[g].checked > sessions'[hd'[g].sid].checked
               PROVE  role'[hd'[g].user] = "admin"
    BY DEF LateKnown
  <2>0. g # h /\ hd'[g] = hd[g] /\ hd[g].sid \in Sids /\ hd[g].checked \in Nat
    BY <1>13 DEF Asking
  <2>1. CASE hd[g].sid # k
    BY <1>4, <1>6, <1>8, <2>0, <2>1 DEF AuthInv, LateKnown
  <2>2. CASE hd[g].sid = k
    <3>1. hd[g].checked > t.checked /\ hd[g].user = r.user
      BY <1>6, <1>16, <2>0, <2>2 DEF Asking
    <3>2. hd[g].checked > s.checked /\ hd[g].checked >= r.checked
      BY <1>1, <1>2, <1>14, <2>0, <3>1
    <3>3. CASE r.recent
      BY <1>0, <1>4, <2>0, <2>2, <3>1, <3>2, <3>3 DEF AuthInv, AnswersKnown, Asking, r, k
    <3>4. CASE k \in told
      BY <1>2, <1>4, <2>0, <2>2, <3>2, <3>4 DEF AuthInv, LateKnown, s, k
    <3> QED
      BY <1>8, <2>0, <2>2, <3>3, <3>4
  <2> QED
    BY <2>1, <2>2
<1>20. StaleRoleBounded'
  <2> SUFFICES ASSUME NEW j \in Sids, sessions'[j] # None, sessions'[j].role = "admin",
                      role'[sessions'[j].user] # "admin", j \in told'
               PROVE  FALSE
    BY DEF StaleRoleBounded
  <2>1. CASE j # k
    BY <1>4, <1>6, <1>8, <2>1 DEF AuthInv, StaleRoleBounded
  <2>2. CASE j = k
    <3>1. t.role = "admin" /\ role[r.user] # "admin"
      BY <1>2, <1>3, <1>4, <1>6, <2>2
    <3>2. CASE r.checked > s.checked
      <4>1. r.actor = "admin"
        BY <1>3, <3>1, <3>2
      <4>2. ~r.recent
        BY <1>0, <1>1, <3>1, <4>1 DEF AuthInv, AnswersKnown, Asking, r
      <4>3. k \notin told
        BY <1>0, <1>2, <3>1, <3>2, <4>1 DEF AuthInv, LateKnown, r, k, s
      <4> QED
        BY <1>8, <2>2, <4>2, <4>3
    <3>3. CASE ~(r.checked > s.checked)
      <4>1. s.role = "admin" /\ s.checked >= r.checked
        BY <1>1, <1>2, <1>3, <3>1, <3>3
      <4>2. ~r.recent
        BY <1>0, <1>2, <3>1, <4>1 DEF AuthInv, ConfirmedKnown, Asking, r, k, s
      <4>3. k \notin told
        BY <1>1, <1>2, <3>1, <4>1 DEF AuthInv, StaleRoleBounded, k, s
      <4> QED
        BY <1>8, <2>2, <4>2, <4>3
    <3> QED
      BY <3>2, <3>3
  <2> QED
    BY <2>1, <2>2
<1> QED
  BY <1>9, <1>10, <1>11, <1>12, <1>15, <1>17, <1>18, <1>19, <1>20 DEF AuthInv

\* A loss of the role makes every lookup that has begun an old one.
LEMMA SetRoleInv ==
  ASSUME AuthInv, NEW u \in Users, NEW x \in Roles, SetRole(u, x)
  PROVE  AuthInv'
<1>0. /\ AuthTypeOK /\ UNCHANGED <<now, grants, nonces, sessions, interactions, issued, epochs>>
      /\ UNCHANGED <<since, opened>> /\ role' = [role EXCEPT ![u] = x]
  BY DEF AuthInv, SetRole, tables
<1>1. /\ role' \in [Users -> Roles] /\ \A v \in Users : v # u => role'[v] = role[v]
  BY <1>0 DEF AuthTypeOK
<1>2. told' \subseteq told
  BY DEF SetRole
<1>3. \A h \in Handlers : hd'[h] = hd[h] \/
        /\ role[u] = "admin" /\ hd[h].at \in Asking /\ hd[h].user = u
        /\ hd'[h] = [hd[h] EXCEPT !.recent = FALSE]
  BY DEF SetRole, Asking
<1>4. \A h \in Handlers :
        /\ hd'[h] \in HandlerRecords /\ hd'[h].at = hd[h].at
        /\ hd[h].at \in Asking => /\ hd'[h].sid = hd[h].sid /\ hd'[h].user = hd[h].user
                                  /\ hd'[h].checked = hd[h].checked /\ hd'[h].actor = hd[h].actor
                                  /\ hd'[h].recent => hd[h].recent
                                  /\ hd[h].user \in Users /\ hd[h].sid \in Sids
        /\ hd[h].at \notin Asking => hd'[h] = hd[h]
  <2> SUFFICES ASSUME NEW h \in Handlers
               PROVE  /\ hd'[h] \in HandlerRecords /\ hd'[h].at = hd[h].at
                      /\ hd[h].at \in Asking =>
                           /\ hd'[h].sid = hd[h].sid /\ hd'[h].user = hd[h].user
                           /\ hd'[h].checked = hd[h].checked /\ hd'[h].actor = hd[h].actor
                           /\ hd'[h].recent => hd[h].recent
                           /\ hd[h].user \in Users /\ hd[h].sid \in Sids
                      /\ hd[h].at \notin Asking => hd'[h] = hd[h]
    OBVIOUS
  <2>1. CASE hd[h].at \in Asking
    <3>1. hd[h] \in CheckRecords
      BY <1>0, <2>1, HandlerKinds
    <3> DEFINE y == [hd[h] EXCEPT !.recent = FALSE]
    <3>2. /\ y \in CheckRecords /\ y.at = hd[h].at /\ y.sid = hd[h].sid /\ y.user = hd[h].user
          /\ y.checked = hd[h].checked /\ y.actor = hd[h].actor
      BY <3>1 DEF CheckRecords
    <3>3. ~y.recent
      <4>1. "recent" \in DOMAIN hd[h]
        BY <3>1 DEF CheckRecords
      <4> QED
        BY <4>1
    <3>4. hd[h].user \in Users /\ hd[h].sid \in Sids
      BY <3>1 DEF CheckRecords
    <3>5. hd'[h] = hd[h] \/ hd'[h] = y
      BY <1>3
    <3> HIDE DEF y
    <3> QED
      BY <2>1, <3>1, <3>2, <3>3, <3>4, <3>5 DEF HandlerRecords
  <2>2. CASE hd[h].at \notin Asking
    BY <1>0, <1>3, <2>2 DEF AuthTypeOK
  <2> QED
    BY <2>1, <2>2
<1>5. \A h \in Handlers : hd[h].at \in Asking /\ hd'[h].recent /\ hd[h].user = u => role[u] # "admin"
  <2> SUFFICES ASSUME NEW h \in Handlers, hd[h].at \in Asking, hd[h].user = u, role[u] = "admin"
               PROVE  ~hd'[h].recent
    OBVIOUS
  <2>1. hd'[h] = [hd[h] EXCEPT !.recent = FALSE]
    BY DEF SetRole, Asking
  <2>2. "recent" \in DOMAIN hd[h]
    BY <1>0, HandlerKinds DEF CheckRecords
  <2> QED
    BY <2>1, <2>2
<1>6. \A k \in told' : sessions[k] # None /\ sessions[k].user = u => role[u] # "admin"
  BY DEF SetRole
<1>7. hd' \in [Handlers -> HandlerRecords]
  <2>1. hd' = [h \in Handlers |-> hd'[h]]
    <3>1. hd = [h \in Handlers |-> hd[h]]
      BY <1>0 DEF AuthTypeOK
    <3> QED
      BY <3>1 DEF SetRole
  <2> QED
    BY <1>4, <2>1
<1>8. AuthTypeOK'
  BY <1>0, <1>1, <1>2, <1>7 DEF AuthTypeOK
<1>9. RevokedEnds' /\ OneLinkPerUser' /\ LinksUnused'
  BY <1>0 DEF AuthInv, RevokedEnds, OneLinkPerUser, LinksUnused
<1>10. ExchangeKnows'
  BY <1>0, <1>4 DEF AuthInv, ExchangeKnows, Exchanging, Asking
<1>11. CheckKnows'
  BY <1>0, <1>4 DEF AuthInv, CheckKnows
<1>12. StaleRoleBounded'
  <2>1. \A k \in Sids : sessions[k] # None => sessions[k].user \in Users
    BY <1>0 DEF AuthTypeOK, SessionRecords
  <2> QED
    BY <1>0, <1>1, <1>2, <1>6, <2>1 DEF AuthInv, StaleRoleBounded
<1>13. AnswersKnown'
  BY <1>1, <1>4, <1>5 DEF AuthInv, AnswersKnown, Asking
<1>14. ConfirmedKnown'
  BY <1>0, <1>1, <1>4, <1>5 DEF AuthInv, ConfirmedKnown
<1>15. LateKnown'
  BY <1>0, <1>1, <1>2, <1>4, <1>6, HandlerKinds DEF AuthInv, LateKnown, CheckKnows, Asking
<1> QED
  BY <1>8, <1>9, <1>10, <1>11, <1>12, <1>13, <1>14, <1>15 DEF AuthInv

-----------------------------------------------------------------------------
(* The theorems *)

LEMMA AuthInitInv == AuthInit => AuthInv
<1> SUFFICES ASSUME AuthInit PROVE AuthInv
  OBVIOUS
<1>1. hd \in [Handlers -> HandlerRecords] /\ \A h \in Handlers : hd[h].at = "idle"
  BY IdleType DEF AuthInit
<1>2. AuthTypeOK
  BY <1>1, AuthNumbers DEF AuthInit, AuthTypeOK, Roles
<1>3. /\ \A l \in Links : grants[l] = None /\ opened[l] = 0
      /\ \A k \in Sids : sessions[k] = None
  BY DEF AuthInit
<1>4. RevokedEnds /\ OneLinkPerUser /\ LinksUnused
  BY <1>3 DEF RevokedEnds, OneLinkPerUser, LinksUnused
<1>5. ExchangeKnows /\ CheckKnows /\ StaleRoleBounded /\ AnswersKnown /\ ConfirmedKnown /\ LateKnown
  BY <1>1, <1>3 DEF ExchangeKnows, CheckKnows, StaleRoleBounded, AnswersKnown, ConfirmedKnown,
                    LateKnown, Exchanging, Asking
<1> QED
  BY <1>2, <1>4, <1>5 DEF AuthInv

LEMMA AuthStep == AuthInv /\ [AuthNext]_authVars => AuthInv'
<1> SUFFICES ASSUME AuthInv, [AuthNext]_authVars PROVE AuthInv'
  OBVIOUS
<1>0. AuthTypeOK /\ now \in Nat /\ TablesOK
  BY TablesType DEF AuthInv, AuthTypeOK
<1>1. CASE landing
  <2>1. nonces' \subseteq [id : Nonces, expires : Nat]
    <3>1. PICK n \in AnyOf(FreshNonces) :
            nonces' = nonces \cup {[id |-> n, expires |-> now + NonceLife]}
      BY <1>1 DEF landing
    <3>2. n \in Nonces
      BY AnyOfIn DEF FreshNonces
    <3>3. [id |-> n, expires |-> now + NonceLife] \in [id : Nonces, expires : Nat]
      BY <1>0, <3>2, AuthNumbers
    <3> QED
      BY <1>0, <3>1, <3>3 DEF AuthTypeOK
  <2>2. AuthTypeOK' /\ now' >= now /\ UNCHANGED <<role, ghosts>>
    BY <1>0, <1>1, <2>1 DEF landing, AuthTypeOK, ghosts
  <2>3. GrantsShrink /\ SessionsShrink /\ HandlersEnd /\ epochs' = epochs
    BY <1>1 DEF landing, GrantsShrink, SessionsShrink, HandlersEnd
  <2> QED
    BY <2>2, <2>3, OnlyEnds
<1>2. CASE Tick
  <2>1. /\ TablesOK' /\ now' = now + 1 /\ now' \in 0..MaxTime
        /\ GrantsShrink /\ SessionsShrink /\ epochs' = epochs
    BY <1>0, <1>2, AdvanceShrinks DEF Tick
  <2>2. UNCHANGED <<role, hd, ghosts>>
    BY <1>2 DEF Tick
  <2>3. AuthTypeOK' /\ HandlersEnd /\ now' >= now
    BY <1>0, <2>1, <2>2 DEF AuthTypeOK, TablesOK, HandlersEnd, ghosts
  <2> QED
    BY <2>1, <2>2, <2>3, OnlyEnds
<1>3. CASE RestartWeb
  <2>1. /\ \A l \in Links : grants'[l] = None
        /\ \A k \in Sids : sessions'[k] = None
        /\ hd' \in [Handlers -> HandlerRecords] /\ \A h \in Handlers : hd'[h].at = "idle"
    BY <1>3, IdleType DEF RestartWeb
  <2>2. AuthTypeOK' /\ now' >= now /\ UNCHANGED <<role, ghosts>>
    BY <1>0, <1>3, <2>1, AuthNumbers DEF RestartWeb, AuthTypeOK, ghosts
  <2>3. GrantsShrink /\ SessionsShrink /\ HandlersEnd
    BY <2>1 DEF GrantsShrink, SessionsShrink, HandlersEnd, Exchanging, Asking
  <2> QED
    BY <2>1, <2>2, <2>3, OnlyEnds
<1>4. ASSUME NEW u \in Users, LogoutAll(u) PROVE AuthInv'
  <2>1. revoke(u) /\ epochs[u] < MaxEpoch /\ UNCHANGED <<now, role, hd, ghosts>>
    BY <1>4 DEF LogoutAll
  <2>2. /\ TablesOK' /\ GrantsShrink /\ SessionsShrink
        /\ \A l \in Links : grants'[l] # None => epochs'[grants[l].user] = epochs[grants[l].user]
        /\ \A k \in Sids : sessions'[k] # None =>
             epochs'[sessions[k].user] = epochs[sessions[k].user]
    BY <1>0, <2>1, RevokeShrinks
  <2>3. AuthTypeOK' /\ HandlersEnd /\ now' >= now
    BY <1>0, <2>1, <2>2 DEF AuthTypeOK, TablesOK, HandlersEnd, ghosts
  <2> QED
    BY <2>1, <2>2, <2>3, OnlyEnds
<1>5. ASSUME NEW h \in Handlers,
             \/ NotAuthorized(h) /\ hd[h].at = "check"
             \/ \E u \in Users : adminRevoke(h, u)
      PROVE  AuthInv'
  <2>1. PICK u \in Users : revoke(u) /\ epochs[u] < MaxEpoch
    <3>1. hd[h].at = "check" => hd[h].user \in Users
      BY <1>0, HandlerKinds DEF Asking, CheckRecords
    <3> QED
      BY <1>5, <3>1 DEF NotAuthorized, adminRevoke
  <2>2. Return(h) /\ UNCHANGED <<now, role, ghosts>>
    BY <1>5 DEF NotAuthorized, adminRevoke
  <2>3. /\ TablesOK' /\ GrantsShrink /\ SessionsShrink
        /\ \A l \in Links : grants'[l] # None => epochs'[grants[l].user] = epochs[grants[l].user]
        /\ \A k \in Sids : sessions'[k] # None =>
             epochs'[sessions[k].user] = epochs[sessions[k].user]
    BY <1>0, <2>1, RevokeShrinks
  <2>4. AuthTypeOK' /\ HandlersEnd /\ now' >= now
    BY <1>0, <2>2, <2>3, ReturnEnds DEF AuthTypeOK, TablesOK, ghosts
  <2> QED
    BY <2>2, <2>3, <2>4, OnlyEnds
\* A request that ends without having changed a table.
<1>6. ASSUME NEW h \in Handlers, Return(h), UNCHANGED <<now, role, tables, ghosts>>
      PROVE  AuthInv'
  <2>1. UNCHANGED <<grants, nonces, sessions, interactions, issued, epochs>>
    BY <1>6 DEF tables
  <2>2. AuthTypeOK' /\ HandlersEnd /\ now' >= now
    BY <1>0, <1>6, <2>1, ReturnEnds DEF AuthTypeOK, ghosts
  <2>3. GrantsShrink /\ SessionsShrink
    BY <2>1 DEF GrantsShrink, SessionsShrink
  <2> QED
    BY <1>6, <2>1, <2>2, <2>3, OnlyEnds
<1>7. ASSUME NEW h \in Handlers, NotAuthorized(h) PROVE AuthInv'
  BY <1>5, <1>6, <1>7 DEF NotAuthorized
<1>8. ASSUME NEW h \in Handlers, issue(h) PROVE AuthInv'
  <2>1. CASE UNCHANGED <<tables, ghosts>>
    BY <1>6, <1>8, <2>1 DEF issue
  <2>2. CASE ~UNCHANGED <<tables, ghosts>>
    <3>1. PICK l \in AnyOf(FreshLinks) :
            /\ grants' = [WithoutOld(hd[h].user) EXCEPT
                            ![l] = [user |-> hd[h].user, expires |-> now + GrantLife]]
            /\ interactions' = interactions \cup {[id |-> hd[h].interaction, at |-> now]}
            /\ issued' = {x \in issued : x.id # hd[h].user} \cup {[id |-> hd[h].user, at |-> now]}
            /\ since' = [since EXCEPT ![l] = epochs[hd[h].user]]
            /\ opened' = [opened EXCEPT ![l] = 0]
            /\ UNCHANGED <<nonces, sessions, epochs, told>>
      BY <1>8, <2>2, Zenon DEF issue
    <3>2. l \in FreshLinks
      BY AnyOfIn
    <3>3. hd[h].at = "issue2" /\ Return(h) /\ now' = now /\ role' = role
      BY <1>8 DEF issue
    <3> QED
      BY <3>1, <3>2, <3>3, IssueInv
  <2> QED
    BY <2>1, <2>2
<1>9. ASSUME NEW h \in Handlers, exchange(h) PROVE AuthInv'
  <2>1. CASE ~StillOffered(hd[h])
    BY <1>6, <1>9, <2>1 DEF exchange
  <2>2. CASE StillOffered(hd[h])
    <3>1. PICK k \in AnyOf(FreshSids) :
            /\ grants' = [grants EXCEPT ![hd[h].link] = None]
            /\ nonces' = {x \in nonces : x.id # hd[h].nonce}
            /\ sessions' = [sessions EXCEPT ![k] =
                 [user |-> hd[h].user, role |-> hd[h].actor, created |-> now, seen |-> now,
                  checked |-> now, epoch |-> hd[h].epoch, link |-> hd[h].link]]
            /\ opened' = [opened EXCEPT ![hd[h].link] = @ + 1]
            /\ told' = told \ {k}
            /\ UNCHANGED <<interactions, issued, epochs, since>>
      BY <1>9, <2>2, Zenon DEF exchange
    <3>2. k \in FreshSids
      BY AnyOfIn
    <3>3. hd[h].at = "exchange2" /\ Return(h) /\ now' = now /\ role' = role
      BY <1>9 DEF exchange
    <3> QED
      BY <2>2, <3>1, <3>2, <3>3, ExchangeInv
  <2> QED
    BY <2>1, <2>2
<1>10. ASSUME NEW h \in Handlers, NEW want \in Wants, check(h, want) PROVE AuthInv'
  <2>1. CASE Survives(hd[h])
    BY <1>10, <2>1, CheckInv
  <2>2. CASE ~Survives(hd[h])
    BY <1>6, <1>10, <2>2 DEF check
  <2> QED
    BY <2>1, <2>2
<1>11. ASSUME NEW h \in Handlers, logout(h) PROVE AuthInv'
  <2>1. hd[h].sid \in Sids
    BY <1>0, <1>11, HandlerKinds DEF logout, ServeRecords
  <2>2. sessions' \in [Sids -> SessionRecords \cup {None}] /\ SessionsShrink
    BY <1>0, <1>11, <2>1 DEF logout, AuthTypeOK, SessionsShrink
  <2>3. /\ Return(h) /\ UNCHANGED <<role, ghosts>>
        /\ UNCHANGED <<now, grants, nonces, interactions, issued, epochs>>
    BY <1>11 DEF logout
  <2>4. AuthTypeOK' /\ HandlersEnd /\ now' >= now /\ GrantsShrink
    BY <1>0, <2>2, <2>3, ReturnEnds DEF AuthTypeOK, GrantsShrink, ghosts
  <2> QED
    BY <2>2, <2>3, <2>4, OnlyEnds
<1>12. ASSUME NEW h \in Handlers, NEW u \in Users, NEW i \in Interactions, RequestLink(h, u, i)
       PROVE  AuthInv'
  <2> DEFINE r == [at |-> "issue", user |-> u, interaction |-> i]
  <2>1. r \in HandlerRecords /\ r.at = "issue"
    BY DEF HandlerRecords, IssueRecords
  <2>2. hd' = [hd EXCEPT ![h] = r] /\ UNCHANGED <<now, role, tables, ghosts>>
    BY <1>12 DEF RequestLink
  <2> HIDE DEF r
  <2>3. hd' \in [Handlers -> HandlerRecords] /\ HandlersEnd
    BY <1>0, <2>1, <2>2 DEF AuthTypeOK, HandlersEnd, Exchanging, Asking
  <2>4. UNCHANGED <<grants, nonces, sessions, interactions, issued, epochs>>
    BY <2>2 DEF tables
  <2>5. AuthTypeOK' /\ GrantsShrink /\ SessionsShrink /\ now' >= now
    BY <1>0, <2>2, <2>3, <2>4 DEF AuthTypeOK, GrantsShrink, SessionsShrink, ghosts
  <2> QED
    BY <2>2, <2>3, <2>4, <2>5, OnlyEnds
<1>13. CASE UNCHANGED authVars
  <2>1. UNCHANGED <<now, role, grants, nonces, sessions, interactions, issued, epochs, hd, ghosts>>
    BY <1>13 DEF authVars, tables
  <2>2. AuthTypeOK' /\ GrantsShrink /\ SessionsShrink /\ HandlersEnd /\ now' >= now
    BY <1>0, <2>1 DEF AuthTypeOK, GrantsShrink, SessionsShrink, HandlersEnd, ghosts
  <2> QED
    BY <2>1, <2>2, OnlyEnds
<1> QED
  BY <1>1, <1>2, <1>3, <1>4, <1>5, <1>7, <1>8, <1>9, <1>10, <1>11, <1>12, <1>13,
     PostExchangeInv, PostRequestInv, AuthorizedInv, SetRoleInv DEF AuthNext

\* Tables, requests in progress and clock have their types, whatever the handlers of
\* webapi/server.go interleave.
THEOREM AuthTypeCorrect == AuthSpec => []AuthTypeOK
<1>1. AuthInv => AuthTypeOK
  BY DEF AuthInv
<1> QED
  BY <1>1, AuthInitInv, AuthStep, PTL DEF AuthSpec

\* What was taken from a user stays taken: revoke leaves no link and no session of the
\* user, also none that a waiting handler brings back, and a session that a newer lookup
\* has answered for is not made an administrator's again by an older one (check).
THEOREM AccessIsEnded == AuthSpec => []AccessEnds
<1>1. AuthInv => AccessEnds
  BY DEF AuthInv, AccessEnds
<1> QED
  BY <1>1, AuthInitInv, AuthStep, PTL DEF AuthSpec

\* A user has at most one link that works, and it opens one session, however many
\* requests post it (issue, exchange).
THEOREM LinksAreSound == AuthSpec => []LinksSound
<1>1. AuthInv => LinksSound
  BY DEF AuthInv, LinksSound, LinkOpensOnce, LinksUnused
<1> QED
  BY <1>1, AuthInitInv, AuthStep, PTL DEF AuthSpec
=============================================================================
