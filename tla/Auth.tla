-------------------------------- MODULE Auth --------------------------------
(***************************************************************************)
(* Logins of the web console (webapi/auth.go and the handlers of           *)
(* webapi/server.go around it).  A moderator asks for a link in Discord    *)
(* (/web); the link and the nonce of the landing page are exchanged for a  *)
(* session; every request checks its session.  Discord roles are looked up *)
(* through the primary instance without holding the mutex, so that a       *)
(* handler is two locked sections with a lookup between them.              *)
(*                                                                         *)
(* Tokens (256 random bits in the code, which stores their digests) are    *)
(* model values; a fresh one is one that nothing refers to.  The clock     *)
(* counts steps; it advances with every lookup that is begun, since two of *)
(* them never begin at the same instant.                                   *)
(*                                                                         *)
(* A definition whose comment says "Fault" is a wrong variant of the one   *)
(* that follows it and is used by no specification.                        *)
(***************************************************************************)
EXTENDS Naturals, FiniteSets

CONSTANTS
  Users, Links, Nonces, Sids, Interactions,
  Handlers,      \* HTTP requests that can be in progress at the same time
  MaxGrants, MaxNonces,            \* 1000 and 10000 in the code
  GrantLife, NonceLife,            \* 2 and 5 minutes
  IdleLife, FullLife,              \* 30 minutes and 8 hours
  RefreshAge,                      \* 1 minute
  InteractionLife, IssueGap,       \* 10 minutes and 5 seconds
  MaxTime,       \* bound on the clock
  MaxEpoch,      \* bound on the revocations of one user
  None

Roles == {"admin", "mod", "none"}
Wants == {"read", "write", "logout", "revoke"}
Idle == [at |-> "idle"]
Exchanging == {"exchange", "exchange2"}
Checking == {"check", "check2", "serve"}

GrantRecords == [user : Users, expires : Nat]
SessionRecords ==
  [user : Users, role : {"admin", "mod"}, created : Nat, seen : Nat, checked : Nat,
   epoch : Nat, link : Links]

IssueRecords == [at : {"issue", "issue2"}, user : Users, interaction : Interactions]
ExchangeRecords ==
  [at : Exchanging, user : Users, link : Links, nonce : Nonces, epoch : Nat, actor : Roles]
CheckRecords ==
  [at : {"check", "check2"}, user : Users, sid : Sids, actor : {"admin", "mod"},
   checked : Nat, epoch : Nat, recent : BOOLEAN]
ServeRecords == [at : {"serve"}, sid : Sids, want : Wants]

HandlerRecords ==
  {Idle} \cup IssueRecords \cup ExchangeRecords \cup CheckRecords \cup ServeRecords

ASSUME AuthConstants ==
  /\ {MaxGrants, MaxNonces, GrantLife, NonceLife, IdleLife, FullLife, RefreshAge,
      InteractionLife, IssueGap, MaxTime, MaxEpoch} \subseteq Nat
  /\ None \notin Users \cup Links \cup Nonces \cup Sids
  /\ None \notin GrantRecords /\ None \notin SessionRecords

VARIABLES
  now,
  role,          \* Discord: "admin", "mod" or "none" per user
  grants, nonces, sessions, interactions, issued, epochs,   \* type Auth
  hd,            \* the requests in progress
  since, opened, \* per link: its user's epoch when it was made, sessions it opened
  told           \* sessions a lookup has answered for that began after the last loss
                 \* of the user's administrator role

tables == <<grants, nonces, sessions, interactions, issued, epochs>>
ghosts == <<since, opened, told>>
authVars == <<now, role, tables, hd, ghosts>>

-----------------------------------------------------------------------------
(* Expiry *)

Expired(s, t) == t - s.created >= FullLife \/ t - s.seen >= IdleLife

\* The clock reaches t.  Every locked section that reads the tables first prunes them,
\* so an entry is gone when its time has come (an entry of issued when it has no effect).
Advance(t) ==
  /\ t <= MaxTime
  /\ now' = t
  /\ grants' = [l \in Links |-> IF grants[l] # None /\ t < grants[l].expires
                               THEN grants[l] ELSE None]
  /\ nonces' = {n \in nonces : t < n.expires}
  /\ sessions' = [k \in Sids |-> IF sessions[k] # None /\ ~Expired(sessions[k], t)
                                 THEN sessions[k] ELSE None]
  /\ interactions' = {i \in interactions : t - i.at <= InteractionLife}
  /\ issued' = {u \in issued : t - u.at < IssueGap}
  /\ UNCHANGED epochs

Known(n) == n \in {x.id : x \in nonces}

\* The new tokens.
FreshLinks == {l \in Links : /\ grants[l] = None
                             /\ \A k \in Sids : sessions[k] = None \/ sessions[k].link # l
                             /\ \A h \in Handlers : hd[h].at \in Exchanging => hd[h].link # l}
FreshNonces == {n \in Nonces : /\ ~Known(n)
                               /\ \A h \in Handlers : hd[h].at \in Exchanging => hd[h].nonce # n}
FreshSids == {k \in Sids : /\ sessions[k] = None
                           /\ \A h \in Handlers : hd[h].at \in Checking => hd[h].sid # k}

\* Which of them is drawn makes no difference.
AnyOf(S) == IF S = {} THEN {} ELSE {CHOOSE x \in S : TRUE}

Return(h) == hd' = [hd EXCEPT ![h] = Idle]

-----------------------------------------------------------------------------
(* Asking for a link: issue *)

RequestLink(h, u, i) ==
  /\ hd[h] = Idle
  /\ hd' = [hd EXCEPT ![h] = [at |-> "issue", user |-> u, interaction |-> i]]
  /\ UNCHANGED <<now, role, tables, ghosts>>

\* Fault: earlier links of the user stay valid.
WithoutOld_Keep(u) == grants

\* A new link replaces the unused one of its user.
WithoutOld(u) ==
  [l \in Links |-> IF grants[l] # None /\ grants[l].user = u THEN None ELSE grants[l]]

issue(h) ==
  LET u == hd[h].user
      i == hd[h].interaction IN
  /\ hd[h].at = "issue2"
  /\ Return(h)
  /\ IF \/ \E x \in interactions : x.id = i
        \/ \E x \in issued : x.id = u /\ now - x.at < IssueGap
        \/ Cardinality({l \in Links : grants[l] # None}) >= MaxGrants
     THEN UNCHANGED <<tables, ghosts>>
     ELSE \E l \in AnyOf(FreshLinks) :
            /\ grants' = [WithoutOld(u) EXCEPT ![l] = [user |-> u, expires |-> now + GrantLife]]
            /\ interactions' = interactions \cup {[id |-> i, at |-> now]}
            /\ issued' = {x \in issued : x.id # u} \cup {[id |-> u, at |-> now]}
            /\ since' = [since EXCEPT ![l] = epochs[u]]
            /\ opened' = [opened EXCEPT ![l] = 0]
            /\ UNCHANGED <<nonces, sessions, epochs, told>>
  /\ UNCHANGED <<now, role>>

-----------------------------------------------------------------------------
(* Signing in: landing, exchange *)

landing ==
  /\ Cardinality(nonces) < MaxNonces
  /\ \E n \in AnyOf(FreshNonces) :
       nonces' = nonces \cup {[id |-> n, expires |-> now + NonceLife]}
  /\ UNCHANGED <<now, role, grants, sessions, interactions, issued, epochs, hd, ghosts>>

\* The first locked section of exchange.  (The handler first refuses a browser that
\* has a working session: a read request whose answer is no, and then this one.)
BeginExchange(h, l, n) ==
  /\ UNCHANGED tables
  /\ hd' = [hd EXCEPT ![h] =
       [at |-> "exchange", user |-> grants[l].user, link |-> l, nonce |-> n,
        epoch |-> epochs[grants[l].user], actor |-> "none"]]

PostExchange(h, l, n) ==
  /\ hd[h] = Idle /\ grants[l] # None /\ Known(n)
  /\ BeginExchange(h, l, n)
  /\ UNCHANGED <<now, role, ghosts>>

\* Fault: neither the link nor the epoch is looked at again.
StillOffered_Trusted(r) == Known(r.nonce)

StillOffered(r) ==
  grants[r.link] # None /\ Known(r.nonce) /\ epochs[r.user] = r.epoch

\* The second locked section: link and nonce are consumed together.
exchange(h) ==
  LET r == hd[h] IN
  /\ r.at = "exchange2"
  /\ Return(h)
  /\ IF ~StillOffered(r)
     THEN UNCHANGED <<tables, ghosts>>
     ELSE \E k \in AnyOf(FreshSids) :
            /\ grants' = [grants EXCEPT ![r.link] = None]
            /\ nonces' = {x \in nonces : x.id # r.nonce}
            /\ sessions' = [sessions EXCEPT ![k] =
                 [user |-> r.user, role |-> r.actor, created |-> now, seen |-> now,
                  checked |-> now, epoch |-> r.epoch, link |-> r.link]]
            /\ opened' = [opened EXCEPT ![r.link] = @ + 1]
            /\ told' = told \ {k}
            /\ UNCHANGED <<interactions, issued, epochs, since>>
  /\ UNCHANGED <<now, role>>

-----------------------------------------------------------------------------
(* Using a session: check, and protected around it *)

\* Everything that ends a user's access at once.
revoke(u) ==
  /\ epochs' = [epochs EXCEPT ![u] = @ + 1]
  /\ grants' = [l \in Links |-> IF grants[l] # None /\ grants[l].user = u THEN None ELSE grants[l]]
  /\ sessions' = [k \in Sids |-> IF sessions[k] # None /\ sessions[k].user = u THEN None
                                 ELSE sessions[k]]
  /\ UNCHANGED <<nonces, interactions, issued>>

\* The first locked section of check; the role is looked up when it was last
\* confirmed RefreshAge ago.  The clock moves on then: no two lookups begin at one instant.
PostRequest(h, k) ==
  /\ hd[h] = Idle
  /\ sessions[k] # None
  /\ LET s == sessions[k]
         r == [at |-> "check2", user |-> s.user, sid |-> k, actor |-> s.role,
               checked |-> s.checked, epoch |-> s.epoch, recent |-> FALSE] IN
     \/ /\ now - s.checked >= RefreshAge
        /\ Advance(now + 1)
        /\ hd' = [hd EXCEPT ![h] = [r EXCEPT !.at = "check", !.checked = now + 1,
                                          !.recent = TRUE]]
     \/ /\ now - s.checked < RefreshAge
        /\ hd' = [hd EXCEPT ![h] = r]
        /\ UNCHANGED <<now, tables>>
  /\ UNCHANGED <<role, ghosts>>

\* Fault: membership is enough.
Authorized_Member(h) ==
  LET r == hd[h] IN
  /\ r.at \in {"issue", "exchange", "check"}
  /\ hd' = [hd EXCEPT ![h] =
       IF r.at = "issue" THEN [r EXCEPT !.at = "issue2"]
       ELSE [r EXCEPT !.at = IF @ = "check" THEN "check2" ELSE "exchange2",
                      !.actor = role[r.user]]]
  /\ UNCHANGED <<now, role, tables, ghosts>>

\* authorize: Discord's answer, read at some moment during the call.
Authorized(h) ==
  LET r == hd[h] IN
  /\ r.at \in {"issue", "exchange", "check"}
  /\ role[r.user] # "none"
  /\ hd' = [hd EXCEPT ![h] =
       IF r.at = "issue" THEN [r EXCEPT !.at = "issue2"]
       ELSE [r EXCEPT !.at = IF @ = "check" THEN "check2" ELSE "exchange2",
                      !.actor = role[r.user]]]
  /\ UNCHANGED <<now, role, tables, ghosts>>

\* The user has no role, has left, or Discord or the primary cannot be reached.
\* A request that finds that out ends all sessions of the user.
NotAuthorized(h) ==
  /\ hd[h].at \in {"issue", "exchange", "check"}
  /\ Return(h)
  /\ IF hd[h].at = "check"
     THEN epochs[hd[h].user] < MaxEpoch /\ revoke(hd[h].user)
     ELSE UNCHANGED tables
  /\ UNCHANGED <<now, role, ghosts>>

\* "Preserve activity and any newer authorization snapshot committed by another
\* request during that refresh."
Newer(r, s) == r.checked > s.checked

Refreshed(r, s, want) ==
  LET t == IF Newer(r, s) THEN [s EXCEPT !.role = r.actor, !.checked = r.checked] ELSE s
  IN  IF want # "read" /\ now > t.seen THEN [t EXCEPT !.seen = now] ELSE t

Survives(r) == sessions[r.sid] # None /\ epochs[r.user] = r.epoch

\* The second locked section, and the role check of protected.  What the request wants
\* matters from here on: a GET and the poll of an event stream want to read; the others
\* count as activity: a write, a logout, or revoking someone's access (admins only).
check(h, want) ==
  LET r == hd[h] IN
  /\ r.at = "check2"
  /\ IF ~Survives(r)
     THEN Return(h) /\ UNCHANGED <<tables, ghosts>>
     ELSE LET s == Refreshed(r, sessions[r.sid], want) IN
          /\ sessions' = [sessions EXCEPT ![r.sid] = s]
          /\ told' = IF r.recent THEN told \cup {r.sid} ELSE told
          /\ hd' = [hd EXCEPT ![h] =
               IF (want = "revoke" /\ s.role = "admin") \/ want = "logout"
               THEN [at |-> "serve", sid |-> r.sid, want |-> want] ELSE Idle]
          /\ UNCHANGED <<grants, nonces, interactions, issued, epochs, since, opened>>
  /\ UNCHANGED <<now, role>>

\* logout deletes the session of the cookie.
logout(h) ==
  /\ hd[h].at = "serve" /\ hd[h].want = "logout"
  /\ sessions' = [sessions EXCEPT ![hd[h].sid] = None]
  /\ Return(h)
  /\ UNCHANGED <<now, role, grants, nonces, interactions, issued, epochs, ghosts>>

\* An administrator revokes a user's access.
adminRevoke(h, u) ==
  /\ hd[h].at = "serve" /\ hd[h].want = "revoke" /\ epochs[u] < MaxEpoch
  /\ revoke(u)
  /\ Return(h)
  /\ UNCHANGED <<now, role, ghosts>>

-----------------------------------------------------------------------------
(* Surroundings *)

\* /web action:logout-all, through the broker.
LogoutAll(u) ==
  /\ epochs[u] < MaxEpoch
  /\ revoke(u)
  /\ UNCHANGED <<now, role, hd, ghosts>>

\* Roles change in Discord at any time.
SetRole(u, r) ==
  /\ role[u] # r
  /\ role' = [role EXCEPT ![u] = r]
  /\ IF role[u] = "admin"
     THEN /\ told' = {k \in told : sessions[k] # None /\ sessions[k].user # u}
          /\ hd' = [h \in Handlers |-> IF hd[h].at \in {"check", "check2"} /\ hd[h].user = u
                                       THEN [hd[h] EXCEPT !.recent = FALSE] ELSE hd[h]]
     ELSE UNCHANGED <<told, hd>>
  /\ UNCHANGED <<now, tables, since, opened>>

\* The web service ends and is started again: nothing of this is on disk.
RestartWeb ==
  /\ grants' = [l \in Links |-> None] /\ nonces' = {} /\ sessions' = [k \in Sids |-> None]
  /\ interactions' = {} /\ issued' = {} /\ epochs' = [u \in Users |-> 0]
  /\ hd' = [h \in Handlers |-> Idle]
  /\ UNCHANGED <<now, role, ghosts>>

Tick == Advance(now + 1) /\ UNCHANGED <<role, hd, ghosts>>

AuthInit ==
  /\ now = 0 /\ role \in [Users -> {"admin", "mod"}]
  /\ grants = [l \in Links |-> None] /\ nonces = {} /\ sessions = [k \in Sids |-> None]
  /\ interactions = {} /\ issued = {} /\ epochs = [u \in Users |-> 0]
  /\ hd = [h \in Handlers |-> Idle]
  /\ since = [l \in Links |-> 0] /\ opened = [l \in Links |-> 0]
  /\ told = {}

AuthNext ==
  \/ landing \/ Tick \/ RestartWeb
  \/ \E u \in Users : LogoutAll(u) \/ \E r \in Roles : SetRole(u, r)
  \/ \E h \in Handlers :
       \/ issue(h) \/ exchange(h) \/ Authorized(h) \/ NotAuthorized(h) \/ logout(h)
       \/ \E want \in Wants : check(h, want)
       \/ \E u \in Users : adminRevoke(h, u) \/ \E i \in Interactions : RequestLink(h, u, i)
       \/ \E l \in Links, n \in Nonces : PostExchange(h, l, n)
       \/ \E k \in Sids : PostRequest(h, k)

AuthSpec == AuthInit /\ [][AuthNext]_authVars

-----------------------------------------------------------------------------
(* Properties *)

\* Every table, request in progress and ghost has its type.
AuthTypeOK ==
  /\ now \in 0..MaxTime /\ role \in [Users -> Roles]
  /\ grants \in [Links -> GrantRecords \cup {None}]
  /\ sessions \in [Sids -> SessionRecords \cup {None}]
  /\ nonces \subseteq [id : Nonces, expires : Nat]
  /\ interactions \subseteq [id : Interactions, at : Nat]
  /\ issued \subseteq [id : Users, at : Nat]
  /\ epochs \in [Users -> 0..MaxEpoch]
  /\ hd \in [Handlers -> HandlerRecords]
  /\ since \in [Links -> Nat] /\ opened \in [Links -> Nat] /\ told \subseteq Sids

\* A revocation ends everything the user had begun before it: no link issued before it
\* is still offered and no session that came of such a link exists, although both are
\* made and written back by handlers that were waiting for Discord at that moment
\* (exchange, check, revoke).
RevokedEnds ==
  /\ \A l \in Links : grants[l] # None => since[l] = epochs[grants[l].user]
  /\ \A k \in Sids : sessions[k] # None =>
       /\ sessions[k].epoch = epochs[sessions[k].user]
       /\ since[sessions[k].link] = epochs[sessions[k].user]

\* A link opens one session, also when it is posted twice at the same time (exchange).
LinkOpensOnce == \A l \in Links : opened[l] <= 1

\* Of the links a user asked for only the newest is valid, whichever instance or
\* channel they were asked from (issue).
OneLinkPerUser ==
  \A l, m \in Links : grants[l] # None /\ grants[m] # None /\ grants[l].user = grants[m].user
                     => l = m

\* A session that still says administrator after the role was taken away has not been
\* confirmed since: a lookup that began after the loss is not overwritten by an older one
\* that is answered later (check).
StaleRoleBounded ==
  \A k \in Sids : sessions[k] # None /\ sessions[k].role = "admin"
                  /\ role[sessions[k].user] # "admin" => k \notin told

\* What was taken from a user stays taken, whatever handler was waiting for Discord.
AccessEnds == RevokedEnds /\ StaleRoleBounded

\* A user has one way in at a time, and it works once.
LinksSound == LinkOpensOnce /\ OneLinkPerUser
=============================================================================
