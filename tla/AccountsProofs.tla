--------------------------- MODULE AccountsProofs ---------------------------
(***************************************************************************)
(* Proofs about Accounts, for every value of its constants.                *)
(*                                                                         *)
(* First the accounts, whatever overlaps.  Then the sessions, where what   *)
(* revokes sessions must not overlap one another.  Then reset links, where *)
(* requests for one must not; and failed sign-ins, of which any may.       *)
(***************************************************************************)
EXTENDS Accounts, SequenceTheorems, FiniteSetTheorems, TLAPS

AdminOps == {"status", "role"}

------------------------------------------------------------------------------
(* The inductive invariant. *)

\* An administrator changes accounts other than their own.
ActsOnOthers(f) == \E a \in f.actor : a \in DOMAIN users \ DOMAIN f.changed

KeepsStanding(f) ==
    \A e \in DOMAIN f.changed :
        /\ f.changed[e].dirty.role = f.changed[e].read.role
        /\ f.changed[e].dirty.status = f.changed[e].read.status

\* The rows a request inserts have an owner.
Owned(f) ==
    /\ \A i \in DOMAIN f.session : f.session[i].user \in DOMAIN users
    /\ \A i \in DOMAIN f.token : f.token[i].user \in DOMAIN users \cup DOMAIN f.created

\* What an operation may have decided to write.
Decided(op, f) ==
    /\ op \in Operations
    /\ Effects(f)
    /\ Owned(f)
    /\ \A e \in DOMAIN f.created :
        DOMAIN users = {} => f.created[e].role = "ADMIN" /\ f.created[e].status = "ACTIVE"
    /\ op \in AdminOps => DOMAIN f.created = {} /\ ActsOnOthers(f)
    /\ op \notin AdminOps => KeepsStanding(f)

Owners ==
    /\ \A s \in DOMAIN sessions : sessions[s].user \in DOMAIN users
    /\ \A t \in DOMAIN tokens : tokens[t].user \in DOMAIN users

AdminInv ==
    /\ TypeOK
    /\ Owners
    /\ \A r \in inflight : Decided(r.op, r.effect)

------------------------------------------------------------------------------
(* Beginning a request. *)

\* A request whose decision is sound may be in flight.
LEMMA BeginSound ==
    ASSUME AdminInv,
           NEW w \in Requests, NEW op, NEW f, Decided(op, f), Begin(w, op, f)
    PROVE  AdminInv'
<1> DEFINE n == [by |-> w, op |-> op, effect |-> f]
<1>1. inflight' = inflight \cup {n}
  BY DEF Begin
<1>2. /\ now' = now /\ users' = users /\ sessions' = sessions
      /\ tokens' = tokens /\ failures' = failures
  BY DEF Begin
<1>3. \A g : /\ Effects(g) <=> Effects(g)'
             /\ Owned(g) <=> Owned(g)'
             /\ ActsOnOthers(g) <=> ActsOnOthers(g)'
  BY <1>2 DEF Effects, Owned, ActsOnOthers
<1>4. \A o, g : Decided(o, g) <=> Decided(o, g)'
  BY <1>2, <1>3 DEF Decided, KeepsStanding
<1>5. n.by \in Requests /\ n.op \in Operations /\ Decided(n.op, n.effect) /\ Effects(n.effect)
  BY DEF Decided
<1>6. TypeOK'
  BY <1>1, <1>2, <1>3, <1>5 DEF AdminInv, TypeOK
<1>7. Owners'
  BY <1>2 DEF AdminInv, Owners
<1>9. (\A r \in inflight : Decided(r.op, r.effect))'
  BY <1>1, <1>4, <1>5 DEF AdminInv
<1> QED
  BY <1>6, <1>7, <1>9 DEF AdminInv

------------------------------------------------------------------------------
(* What the operations decide. *)

\* A request that changes no account decides soundly when its rows are typed
\* and owned.
LEMMA RowsSound ==
    ASSUME AdminInv, NEW op \in Operations \ AdminOps, NEW f, Effects(f), Owned(f),
           DOMAIN f.created = {}, KeepsStanding(f)
    PROVE  Decided(op, f)
BY DEF Decided

\* The effects of a request that changes one account.
LEMMA ChangeEffects ==
    ASSUME AdminInv, NEW e \in DOMAIN users, NEW row \in User, NEW f,
           f.created = NoFunction, f.changed = Change(e, row),
           f.revoke \subseteq DOMAIN sessions, f.use \subseteq DOMAIN tokens,
           f.session \in Seq(UserSession), f.token = <<>>, f.failed = {}, f.actor \subseteq Emails
    PROVE  Effects(f)
<1>1. DOMAIN f.created = {} /\ f.created \in [DOMAIN f.created -> User]
  BY DEF NoFunction
<1>2. DOMAIN f.changed = {e} /\ f.changed \in [{e} -> [read : User, dirty : User]]
  <2>1. users[e] \in User
    BY DEF AdminInv, TypeOK
  <2> QED
    BY <2>1 DEF Change
<1>3. f.token \in Seq(OneTimeToken)
  OBVIOUS
<1> QED
  BY <1>1, <1>2, <1>3 DEF Effects

\* open_session inserts a typed row.
LEMMA NewSessionTyped ==
    ASSUME AdminInv, NEW e \in DOMAIN users, NEW row \in User
    PROVE  /\ NewSession(e, row) \in Seq(UserSession)
           /\ \A i \in DOMAIN NewSession(e, row) : NewSession(e, row)[i].user = e
<1>1. e \in Emails /\ row.epoch \in Nat /\ row.hash.password \in Passwords
  BY DEF AdminInv, TypeOK, User, Hash
<1>2. now + SessionTime \in Nat
  BY AccountsAssumption DEF AdminInv, TypeOK
<1> DEFINE s == [user |-> e, epoch |-> row.epoch, expires |-> now + SessionTime,
                 revoked |-> FALSE, password |-> row.hash.password]
<1>3. s \in UserSession
  BY <1>1, <1>2 DEF UserSession
<1>4. NewSession(e, row) = <<s>>
  BY DEF NewSession
<1>5. s.user = e
  OBVIOUS
<1> HIDE DEF s
<1> QED
  BY <1>3, <1>4, <1>5

\* issue_token inserts a typed row.
LEMMA NewTokenTyped ==
    ASSUME AdminInv, NEW e \in Emails, NEW purpose \in Purpose
    PROVE  /\ NewToken(e, purpose) \in Seq(OneTimeToken)
           /\ \A i \in DOMAIN NewToken(e, purpose) : NewToken(e, purpose)[i].user = e
<1> DEFINE ttl == IF purpose = "verify_email" THEN VerifyTime ELSE ResetTime
           t == [user |-> e, purpose |-> purpose, used |-> FALSE, expires |-> now + ttl]
<1>1. ttl \in Nat
  BY AccountsAssumption
<1>2. now + ttl \in Nat
  BY <1>1 DEF AdminInv, TypeOK
<1>3. t \in OneTimeToken
  BY <1>2 DEF OneTimeToken
<1>4. NewToken(e, purpose) = <<t>>
  BY DEF NewToken
<1>5. t.user = e
  OBVIOUS
<1> HIDE DEF t
<1> QED
  BY <1>3, <1>4, <1>5

\* Nothing is written unless an operation says so.
LEMMA NoEffectTyped ==
    /\ NoEffect.created = NoFunction /\ NoEffect.changed = NoFunction
    /\ DOMAIN NoFunction = {} /\ \A S : NoFunction \in [{} -> S]
    /\ NoEffect.revoke = {} /\ NoEffect.use = {} /\ NoEffect.failed = {} /\ NoEffect.actor = {}
    /\ NoEffect.session = <<>> /\ NoEffect.token = <<>>
    /\ \A S : <<>> \in Seq(S)
    /\ DOMAIN << >> = {}
BY DEF NoEffect, NoFunction

\* issue_token, for an account that exists.
LEMMA IssueSound ==
    ASSUME AdminInv, NEW op \in Operations \ AdminOps,
           NEW e \in DOMAIN users, NEW purpose \in Purpose
    PROVE  Decided(op, IssueToken(e, purpose))
<1> DEFINE f == IssueToken(e, purpose)
<1>1. /\ f.created = NoFunction /\ f.changed = NoFunction /\ f.revoke = {} /\ f.failed = {} /\ f.actor = {}
      /\ f.session = <<>>
      /\ f.use = Outstanding(e, purpose) /\ f.token = NewToken(e, purpose)
  BY DEF IssueToken, NoEffect
<1>2. e \in Emails
  BY DEF AdminInv, TypeOK
<1>3. Outstanding(e, purpose) \subseteq DOMAIN tokens
  BY DEF Outstanding
<1> HIDE DEF f
<1>4. Effects(f)
  BY <1>1, <1>2, <1>3, NewTokenTyped, NoEffectTyped DEF Effects
<1>5. Owned(f)
  BY <1>1, <1>2, NewTokenTyped, NoEffectTyped DEF Owned
<1>6. KeepsStanding(f) /\ DOMAIN f.created = {}
  BY <1>1, NoEffectTyped DEF KeepsStanding
<1>7. Decided(op, f)
  BY <1>4, <1>5, <1>6, RowsSound
<1> QED
  BY <1>7 DEF f
\* Burning a link or revoking a session needs no more than that it exists.
LEMMA FlagsSound ==
    ASSUME AdminInv, NEW op \in Operations \ AdminOps, NEW f,
           f.created = NoFunction, f.changed = NoFunction,
           f.revoke \subseteq DOMAIN sessions, f.use \subseteq DOMAIN tokens,
           f.session = <<>>, f.token = <<>>, f.failed = {}, f.actor = {}
    PROVE  Decided(op, f)
<1>1. f.session \in Seq(UserSession) /\ f.token \in Seq(OneTimeToken)
  OBVIOUS
<1>2. Effects(f)
  BY <1>1, NoEffectTyped DEF Effects
<1>3. Owned(f) /\ KeepsStanding(f) /\ DOMAIN f.created = {}
  BY NoEffectTyped DEF Owned, KeepsStanding
<1> QED
  BY <1>2, <1>3, RowsSound

\* revoke_all_sessions, its change of the account and what the operation adds:
\* burnt links and the caller's new session.
LEMMA RevokeSound ==
    ASSUME AdminInv, NEW e \in DOMAIN users, NEW row \in User,
           row.role = users[e].role, row.status = users[e].status,
           NEW op \in Operations \ AdminOps, NEW f,
           f.created = NoFunction, f.changed = RevokeAllSessions(e, row).changed,
           f.revoke = LiveSessions(e), f.use \subseteq DOMAIN tokens, f.failed = {}, f.actor = {},
           f.session = <<>> \/ f.session = NewSession(e, [row EXCEPT !.epoch = @ + 1]),
           f.token = <<>>
    PROVE  Decided(op, f)
<1> DEFINE new == [row EXCEPT !.epoch = @ + 1]
<1>1. new \in User /\ new.role = row.role /\ new.status = row.status
  BY DEF User
<1>2. f.changed = Change(e, new)
  BY DEF RevokeAllSessions, NoEffect
<1>3. f.session = <<>> \/ f.session = NewSession(e, new)
  OBVIOUS
<1> HIDE DEF new
<1>4. /\ f.session \in Seq(UserSession)
      /\ \A i \in DOMAIN f.session : f.session[i].user = e
  <2>1. CASE f.session = <<>>
    BY <2>1
  <2>2. CASE f.session = NewSession(e, new)
    BY <1>1, <2>2, NewSessionTyped
  <2> QED
    BY <1>3, <2>1, <2>2
<1>5. Effects(f)
  <2>1. f.revoke \subseteq DOMAIN sessions
    BY DEF LiveSessions
  <2> QED
    BY <1>1, <1>2, <1>4, <2>1, ChangeEffects
<1>6. Owned(f)
  BY <1>4 DEF Owned
<1>7. KeepsStanding(f) /\ DOMAIN f.created = {}
  BY <1>1, <1>2 DEF KeepsStanding, Change, NoFunction
<1> QED
  BY <1>5, <1>6, <1>7, RowsSound

\* An administrator's change of another account.
LEMMA AdministerSound ==
    ASSUME AdminInv, NEW s \in DOMAIN sessions, NEW e \in DOMAIN users, ActsOn(s, e),
           NEW row \in User, NEW op \in AdminOps, NEW f,
           f.created = NoFunction, f.changed = Change(e, row),
           f.revoke = {} \/ f.revoke = LiveSessions(e), f.use = {}, f.failed = {},
           f.actor = {sessions[s].user},
           f.session = <<>>, f.token = <<>>
    PROVE  Decided(op, f)
<1>1. sessions[s].user \in DOMAIN users \ {e}
  BY DEF AdminInv, Owners, ActsOn
<1>2. f.actor \subseteq Emails
  BY <1>1 DEF AdminInv, TypeOK
<1>3. f.revoke \subseteq DOMAIN sessions
  BY DEF LiveSessions
<1>4. Effects(f)
  <2>1. f.session \in Seq(UserSession)
    OBVIOUS
  <2> QED
    BY <1>3, <1>2, <2>1, ChangeEffects
<1>5. Owned(f)
  BY DEF Owned
<1>6. ActsOnOthers(f)
  BY <1>1 DEF ActsOnOthers, Change
<1>7. op \in Operations
  BY DEF AdminOps, Operations
<1> QED
  BY <1>4, <1>5, <1>6, <1>7, NoEffectTyped DEF Decided

------------------------------------------------------------------------------
(* One lemma for each group of routes. *)

\* Nothing changes.
LEMMA StutterKeeps ==
    ASSUME AdminInv, UNCHANGED vars
    PROVE  AdminInv'
<1>1. \A o, g : (Decided(o, g) <=> Decided(o, g)') /\ (Effects(g) <=> Effects(g)')
  BY DEF vars, Decided, Effects, Owned, ActsOnOthers, KeepsStanding
<1> QED
  BY <1>1 DEF vars, AdminInv, TypeOK, Owners

\* Requests of people without an account.
LEMMA VisitorKeeps ==
    ASSUME AdminInv,
           NEW w \in Requests, NEW e \in Emails, Visitor(w, e)
    PROVE  AdminInv'
<1>1. "login" \in Operations \ AdminOps
  BY DEF Operations, AdminOps
<1>2. CASE LoginLockedOut(e)
  BY <1>2, StutterKeeps DEF LoginLockedOut
<1>3. CASE FailedLogin(w, e)
  <2> DEFINE f == [NoEffect EXCEPT !.failed = {e}]
  <2>1. /\ f.created = NoFunction /\ f.changed = NoFunction /\ f.revoke = {} /\ f.use = {}
        /\ f.session = <<>> /\ f.token = <<>> /\ f.failed = {e} /\ f.actor = {}
    BY DEF NoEffect
  <2>2. Begin(w, "login", f)
    BY <1>3 DEF FailedLogin
  <2> HIDE DEF f
  <2>3. Effects(f) /\ Owned(f) /\ KeepsStanding(f)
    BY <2>1, NoEffectTyped DEF Effects, Owned, KeepsStanding
  <2> QED
    BY <1>1, <2>1, <2>2, <2>3, RowsSound, BeginSound, NoEffectTyped
<1>4. CASE \E p \in Passwords : Signup(w, e, p)
  <2>1. PICK p \in Passwords : Signup(w, e, p)
    BY <1>4
  <2> DEFINE first == DOMAIN users = {} \/ e \in AdminEmails
             row == [role |-> IF first THEN "ADMIN" ELSE "USER", status |-> "ACTIVE",
                     verified |-> ~ RequireVerification, epoch |-> 0,
                     hash |-> HashPassword(p)]
             f == [NoEffect EXCEPT !.created = [x \in {e} |-> row],
                                   !.token = NewToken(e, "verify_email")]
  <2>2. Begin(w, "signup", f)
    BY <2>1 DEF Signup
  <2>3. /\ row \in User
        /\ DOMAIN users = {} => row.role = "ADMIN"
        /\ row.status = "ACTIVE"
    BY DEF User, Role, AccountStatus, Hash, HashPassword
  <2> HIDE DEF row
  <2>4. /\ f.created = [x \in {e} |-> row] /\ f.changed = NoFunction /\ f.revoke = {}
        /\ f.use = {} /\ f.session = <<>> /\ f.token = NewToken(e, "verify_email")
        /\ f.failed = {} /\ f.actor = {}
    BY DEF NoEffect
  <2> HIDE DEF f
  <2>5. "verify_email" \in Purpose
    BY DEF Purpose
  <2>6. Effects(f)
    <3>1. DOMAIN f.created = {e} /\ f.created \in [{e} -> User]
      BY <2>3, <2>4
    <3>2. DOMAIN f.changed = {} /\ f.changed \in [{} -> [read : User, dirty : User]]
      BY <2>4, NoEffectTyped
    <3>3. f.token \in Seq(OneTimeToken) /\ f.session \in Seq(UserSession)
      BY <2>4, <2>5, NewTokenTyped
    <3> QED
      BY <2>4, <3>1, <3>2, <3>3 DEF Effects
  <2>7. Owned(f)
    BY <2>4, <2>5, NewTokenTyped DEF Owned
  <2>8. KeepsStanding(f)
    BY <2>4, NoEffectTyped DEF KeepsStanding
  <2>9. Decided("signup", f)
    BY <2>3, <2>4, <2>6, <2>7, <2>8 DEF Decided, Operations, AdminOps
  <2> QED
    BY <2>2, <2>9, BeginSound
<1> QED
  BY <1>3, <1>4, <1>2 DEF Visitor

\* Requests that name an account by its address.
LEMMA OwnerKeeps ==
    ASSUME AdminInv,
           NEW w \in Requests, NEW e \in DOMAIN users, Owner(w, e)
    PROVE  AdminInv'
<1>1. {"resend", "login", "forgot"} \subseteq Operations \ AdminOps
  BY DEF Operations, AdminOps
<1>2. Purpose = {"verify_email", "reset_password"}
  BY DEF Purpose
<1>3. CASE ResendVerification(w, e)
  BY <1>1, <1>2, <1>3, IssueSound, BeginSound DEF ResendVerification
<1>4. CASE LoginUnverified(w, e)
  BY <1>1, <1>2, <1>4, IssueSound, BeginSound DEF LoginUnverified
<1>5. CASE RequestPasswordReset(w, e)
  BY <1>1, <1>2, <1>5, IssueSound, BeginSound DEF RequestPasswordReset
<1>6. CASE Login(w, e)
  <2> DEFINE row == [users[e] EXCEPT !.hash.outdated = FALSE]
             session == [NoEffect EXCEPT !.session = NewSession(e, row)]
             f == IF row = users[e] THEN session
                  ELSE [session EXCEPT !.changed = Change(e, row)]
  <2>1. Begin(w, "login", f)
    BY <1>6 DEF Login
  <2>2. users[e] \in User
    BY DEF AdminInv, TypeOK
  <2>3. row \in User /\ row.role = users[e].role /\ row.status = users[e].status
    BY <2>2 DEF User, Hash
  <2> HIDE DEF row
  <2>4. /\ f.created = NoFunction
        /\ f.changed = NoFunction \/ f.changed = Change(e, row)
        /\ f.revoke = {} /\ f.use = {} /\ f.session = NewSession(e, row)
        /\ f.token = <<>> /\ f.failed = {} /\ f.actor = {}
    BY DEF NoEffect
  <2> HIDE DEF f
  <2>5. Effects(f)
    <3>1. f.session \in Seq(UserSession)
      BY <2>3, <2>4, NewSessionTyped
    <3>2. CASE f.changed = NoFunction
      BY <2>4, <3>1, <3>2, NoEffectTyped DEF Effects
    <3>3. CASE f.changed = Change(e, row)
      BY <2>3, <2>4, <3>1, <3>3, ChangeEffects
    <3> QED
      BY <2>4, <3>2, <3>3
  <2>6. Owned(f)
    BY <2>3, <2>4, NewSessionTyped DEF Owned
  <2>7. KeepsStanding(f)
    BY <2>3, <2>4 DEF KeepsStanding, Change, NoFunction
  <2>8. DOMAIN f.created = {}
    BY <2>4, NoEffectTyped
  <2> QED
    BY <1>1, <2>1, <2>5, <2>6, <2>7, <2>8, RowsSound, BeginSound
<1> QED
  BY <1>3, <1>4, <1>5, <1>6 DEF Owner
\* Requests that follow a link.
LEMMA FollowKeeps ==
    ASSUME AdminInv,
           NEW w \in Requests, NEW t \in DOMAIN tokens, Follow(w, t)
    PROVE  AdminInv'
<1> DEFINE e == tokens[t].user
<1>1. e \in DOMAIN users /\ users[e] \in User
  BY DEF AdminInv, TypeOK, Owners
<1> HIDE DEF e
<1>2. {"verify", "reset"} \subseteq Operations \ AdminOps
  BY DEF Operations, AdminOps
<1>3. CASE VerifyEmail(w, t)
  <2> DEFINE row == [users[e] EXCEPT !.verified = TRUE]
             f == [NoEffect EXCEPT !.changed = Change(e, row), !.use = {t}]
  <2>1. Begin(w, "verify", f)
    BY <1>3 DEF VerifyEmail, e
  <2>2. row \in User /\ row.role = users[e].role /\ row.status = users[e].status
    BY <1>1 DEF User
  <2> HIDE DEF row
  <2>3. /\ f.created = NoFunction /\ f.changed = Change(e, row) /\ f.revoke = {}
        /\ f.use = {t} /\ f.session = <<>> /\ f.token = <<>> /\ f.failed = {} /\ f.actor = {}
    BY DEF NoEffect
  <2> HIDE DEF f
  <2>4. Effects(f)
    <3>1. f.session \in Seq(UserSession)
      BY <2>3
    <3> QED
      BY <1>1, <2>2, <2>3, <3>1, ChangeEffects
  <2>5. Owned(f)
    BY <2>3 DEF Owned
  <2>6. KeepsStanding(f) /\ DOMAIN f.created = {}
    BY <2>2, <2>3 DEF KeepsStanding, Change, NoFunction
  <2> QED
    BY <1>2, <2>1, <2>4, <2>5, <2>6, RowsSound, BeginSound
<1>4. CASE ResetRejected(w, t)
  <2> DEFINE f == [NoEffect EXCEPT !.use = {t}]
  <2>1. Begin(w, "reset", f)
    BY <1>4 DEF ResetRejected
  <2>2. /\ f.created = NoFunction /\ f.changed = NoFunction /\ f.revoke = {}
        /\ f.use = {t} /\ f.session = <<>> /\ f.token = <<>> /\ f.failed = {} /\ f.actor = {}
    BY DEF NoEffect
  <2> HIDE DEF f
  <2> QED
    BY <1>2, <2>1, <2>2, FlagsSound, BeginSound
<1>5. CASE \E p \in Passwords : ResetPassword(w, t, p)
  <2>1. PICK p \in Passwords : ResetPassword(w, t, p)
    BY <1>5
  <2> DEFINE row == [users[e] EXCEPT !.hash = HashPassword(p), !.verified = TRUE]
             f == [RevokeAllSessions(e, row) EXCEPT !.use = {t}]
  <2>2. Begin(w, "reset", f)
    BY <2>1 DEF ResetPassword, e
  <2>3. row \in User /\ row.role = users[e].role /\ row.status = users[e].status
    BY <1>1 DEF User, Hash, HashPassword
  <2> HIDE DEF row
  <2>4. /\ f.created = NoFunction /\ f.changed = RevokeAllSessions(e, row).changed
        /\ f.revoke = LiveSessions(e) /\ f.use = {t} /\ f.session = <<>>
        /\ f.token = <<>> /\ f.failed = {} /\ f.actor = {}
    BY DEF RevokeAllSessions, NoEffect
  <2> HIDE DEF f
  <2>5. Decided("reset", f)
    BY <1>1, <1>2, <2>3, <2>4, RevokeSound
  <2> QED
    BY <2>2, <2>5, BeginSound
<1> QED
  BY <1>3, <1>4, <1>5 DEF Follow

\* Requests of a signed-in user about themselves.
LEMMA SignedInKeeps ==
    ASSUME AdminInv,
           NEW w \in Requests, NEW s \in DOMAIN sessions, SignedIn(w, s)
    PROVE  AdminInv'
<1> DEFINE e == sessions[s].user
<1>1. e \in DOMAIN users /\ users[e] \in User
  BY DEF AdminInv, TypeOK, Owners
<1> HIDE DEF e
<1>2. {"logout", "revoke"} \subseteq Operations \ AdminOps
  BY DEF Operations, AdminOps
<1>3. CASE Logout(w, s)
  <2> DEFINE f == [NoEffect EXCEPT !.revoke = {s}]
  <2>1. Begin(w, "logout", f)
    BY <1>3 DEF Logout
  <2>2. /\ f.created = NoFunction /\ f.changed = NoFunction /\ f.revoke = {s}
        /\ f.use = {} /\ f.session = <<>> /\ f.token = <<>> /\ f.failed = {} /\ f.actor = {}
    BY DEF NoEffect
  <2> HIDE DEF f
  <2> QED
    BY <1>2, <2>1, <2>2, FlagsSound, BeginSound
<1>4. CASE RevokeSessions(w, s)
  <2> DEFINE f == RevokeAllSessions(e, users[e])
  <2>1. Begin(w, "revoke", f)
    BY <1>4 DEF RevokeSessions, e
  <2>2. /\ f.created = NoFunction /\ f.revoke = LiveSessions(e) /\ f.use = {}
        /\ f.session = <<>> /\ f.token = <<>> /\ f.failed = {} /\ f.actor = {}
    BY DEF RevokeAllSessions, NoEffect
  <2>3. f.changed = RevokeAllSessions(e, users[e]).changed
    OBVIOUS
  <2> HIDE DEF f
  <2>4. Decided("revoke", f)
    BY <1>1, <1>2, <2>2, <2>3, RevokeSound
  <2> QED
    BY <2>1, <2>4, BeginSound
<1>5. CASE ChangePassword(s)
  BY <1>5, StutterKeeps DEF ChangePassword
<1> QED
  BY <1>3, <1>4, <1>5 DEF SignedIn

\* Requests of an administrator about another account.
LEMMA AdministerKeeps ==
    ASSUME AdminInv, NEW w \in Requests,
           NEW s \in DOMAIN sessions, NEW e \in DOMAIN users, Administer(w, s, e)
    PROVE  AdminInv'
<1>1. users[e] \in User
  BY DEF AdminInv, TypeOK
<1>2. {"status", "role"} \subseteq AdminOps
  BY DEF AdminOps
<1>3. CASE \E status \in AccountStatus : ChangeStatus(w, s, e, status)
  <2>1. PICK status \in AccountStatus : ChangeStatus(w, s, e, status)
    BY <1>3
  <2> DEFINE row == [users[e] EXCEPT !.status = status]
             new == [row EXCEPT !.epoch = @ + 1]
             f == [SetAccountStatus(e, status) EXCEPT !.actor = {sessions[s].user}]
  <2>2. ActsOn(s, e) /\ Begin(w, "status", f)
    BY <2>1 DEF ChangeStatus
  <2>3. row \in User /\ new \in User
    <3>1. row \in User
      BY <1>1 DEF User
    <3> HIDE DEF row
    <3>2. new \in User
      BY <3>1 DEF User
    <3> QED
      BY <3>1, <3>2
  <2>4. /\ f.created = NoFunction
        /\ f.changed = Change(e, row) \/ f.changed = Change(e, new)
        /\ f.revoke = {} \/ f.revoke = LiveSessions(e)
        /\ f.use = {} /\ f.session = <<>> /\ f.token = <<>> /\ f.failed = {}
        /\ f.actor = {sessions[s].user}
    BY DEF SetAccountStatus, RevokeAllSessions, NoEffect
  <2> HIDE DEF row, new, f
  <2>5. Decided("status", f)
    BY <1>2, <2>2, <2>3, <2>4, AdministerSound
  <2> QED
    BY <2>2, <2>5, BeginSound
<1>4. CASE \E role \in Role : ChangeRole(w, s, e, role)
  <2>1. PICK role \in Role : ChangeRole(w, s, e, role)
    BY <1>4
  <2> DEFINE row == [users[e] EXCEPT !.role = role]
             f == [NoEffect EXCEPT !.changed = Change(e, row), !.actor = {sessions[s].user}]
  <2>2. ActsOn(s, e) /\ Begin(w, "role", f)
    BY <2>1 DEF ChangeRole
  <2>3. row \in User
    BY <1>1 DEF User
  <2>4. /\ f.created = NoFunction /\ f.changed = Change(e, row)
        /\ f.revoke = {} /\ f.use = {} /\ f.session = <<>> /\ f.token = <<>>
        /\ f.failed = {} /\ f.actor = {sessions[s].user}
    BY DEF NoEffect
  <2> HIDE DEF row, f
  <2>5. Decided("role", f)
    BY <1>2, <2>2, <2>3, <2>4, AdministerSound
  <2> QED
    BY <2>2, <2>5, BeginSound
<1> QED
  BY <1>3, <1>4 DEF Administer
------------------------------------------------------------------------------
(* Committing a request. *)

\* What a commit leaves of an account that was there: its type, and, unless an
\* administrator wrote it, its role and its status.
LEMMA CommitUsers ==
    ASSUME AdminInv, NEW r \in inflight, ~ Taken(r.effect), Write(r.effect)
    PROVE  /\ DOMAIN users' = DOMAIN users \cup DOMAIN r.effect.created
           /\ DOMAIN users' \subseteq Emails
           /\ users' \in [DOMAIN users' -> User]
           /\ \A e \in DOMAIN r.effect.created : users'[e] = r.effect.created[e]
           /\ \A e \in DOMAIN users \ DOMAIN r.effect.changed : users'[e] = users[e]
           /\ r.op \notin AdminOps =>
                \A e \in DOMAIN users :
                    users'[e].role = users[e].role /\ users'[e].status = users[e].status
<1> DEFINE f == r.effect
<1>1. Effects(f) /\ Decided(r.op, f) /\ users' = WriteUsers(f)
  BY DEF AdminInv, TypeOK, Write
<1>2. DOMAIN f.created \cap DOMAIN users = {}
  BY DEF Taken
<1> HIDE DEF f
<1>3. DOMAIN users' = DOMAIN users \cup DOMAIN f.created
  BY <1>1 DEF WriteUsers
<1>4. \A e \in DOMAIN f.created : users'[e] = f.created[e] /\ f.created[e] \in User
  BY <1>1 DEF WriteUsers, Effects
<1>5. \A e \in DOMAIN users \ DOMAIN f.changed : users'[e] = users[e] /\ users[e] \in User
  BY <1>1, <1>2 DEF WriteUsers, AdminInv, TypeOK
<1>6. \A e \in DOMAIN f.changed :
        LET c == f.changed[e]
        IN  /\ users'[e] = WriteUser(users[e], c.read, c.dirty)
            /\ e \in DOMAIN users
            /\ users[e] \in User /\ c.read \in User /\ c.dirty \in User
  <2> SUFFICES ASSUME NEW e \in DOMAIN f.changed
               PROVE  /\ users'[e] = WriteUser(users[e], f.changed[e].read, f.changed[e].dirty)
                      /\ e \in DOMAIN users
                      /\ users[e] \in User
                      /\ f.changed[e].read \in User /\ f.changed[e].dirty \in User
    OBVIOUS
  <2>1. e \in DOMAIN users /\ e \notin DOMAIN f.created
    BY <1>1, <1>2 DEF Effects
  <2>2. f.changed[e] \in [read : User, dirty : User]
    BY <1>1 DEF Effects
  <2>3. users[e] \in User
    BY <2>1 DEF AdminInv, TypeOK
  <2>4. users'[e] = WriteUser(users[e], f.changed[e].read, f.changed[e].dirty)
    BY <1>1, <2>1 DEF WriteUsers
  <2> QED
    BY <2>1, <2>2, <2>3, <2>4
<1>7. \A a, b, c \in User : WriteUser(a, b, c) \in User
  BY DEF WriteUser, User, Column
<1>8. \A a, b, c : /\ b.role = c.role => WriteUser(a, b, c).role = a.role
                   /\ b.status = c.status => WriteUser(a, b, c).status = a.status
  BY DEF WriteUser, Column
<1>9. DOMAIN users' \subseteq Emails
  BY <1>1, <1>3 DEF AdminInv, TypeOK, Effects
<1>10. users' \in [DOMAIN users' -> User]
  <2>1. \A e \in DOMAIN users' : users'[e] \in User
    BY <1>3, <1>4, <1>5, <1>6, <1>7
  <2>2. users' = [e \in DOMAIN users' |-> users'[e]]
    BY <1>1 DEF WriteUsers
  <2> QED
    BY <2>1, <2>2
<1>11. ASSUME r.op \notin AdminOps, NEW e \in DOMAIN users
       PROVE  users'[e].role = users[e].role /\ users'[e].status = users[e].status
  <2>1. CASE e \notin DOMAIN f.changed
    BY <1>5, <2>1
  <2>2. CASE e \in DOMAIN f.changed
    <3>1. /\ f.changed[e].dirty.role = f.changed[e].read.role
          /\ f.changed[e].dirty.status = f.changed[e].read.status
      BY <1>1, <1>11, <2>2 DEF Decided, KeepsStanding
    <3> QED
      BY <1>6, <1>8, <2>2, <3>1
  <2> QED
    BY <2>1, <2>2
<1> QED
  BY <1>3, <1>4, <1>5, <1>9, <1>10, <1>11 DEF f

\* Setting a flag keeps a row's type and owner.
LEMMA FlagTyped ==
    /\ \A x \in UserSession, b \in BOOLEAN :
        LET y == [x EXCEPT !.revoked = b] IN y \in UserSession /\ y.user = x.user
    /\ \A x \in OneTimeToken, b \in BOOLEAN :
        LET y == [x EXCEPT !.used = b] IN y \in OneTimeToken /\ y.user = x.user
BY DEF UserSession, OneTimeToken

\* The rows a commit leaves keep their types and their owners.
LEMMA CommitRows ==
    ASSUME AdminInv, NEW r \in inflight, ~ Taken(r.effect), Write(r.effect)
    PROVE  /\ sessions' \in Seq(UserSession) /\ DOMAIN sessions \subseteq DOMAIN sessions'
           /\ tokens' \in Seq(OneTimeToken) /\ DOMAIN tokens \subseteq DOMAIN tokens'
           /\ failures' \in [Emails -> Seq(Nat)]
           /\ Owners'
<1> DEFINE f == r.effect
           old == [s \in DOMAIN sessions |->
                      [sessions[s] EXCEPT !.revoked = @ \/ s \in f.revoke]]
           olt == [t \in DOMAIN tokens |-> [tokens[t] EXCEPT !.used = @ \/ t \in f.use]]
<1>1. Effects(f) /\ Owned(f)
  BY DEF AdminInv, TypeOK, Decided
<1>2. /\ sessions' = old \o f.session /\ tokens' = olt \o f.token
      /\ failures' = [e \in Emails |->
                        IF e \in f.failed THEN Append(failures[e], now) ELSE failures[e]]
  BY DEF Write
<1>3. /\ sessions \in Seq(UserSession) /\ tokens \in Seq(OneTimeToken)
      /\ now \in Nat /\ failures \in [Emails -> Seq(Nat)]
  BY DEF AdminInv, TypeOK
<1>4. f.session \in Seq(UserSession) /\ f.token \in Seq(OneTimeToken)
  BY <1>1 DEF Effects
<1>5. DOMAIN users' = DOMAIN users \cup DOMAIN f.created
  BY CommitUsers
<1>6. /\ \A s \in DOMAIN sessions : sessions[s].user \in DOMAIN users
      /\ \A t \in DOMAIN tokens : tokens[t].user \in DOMAIN users
  BY DEF AdminInv, Owners
<1>7. /\ old \in Seq(UserSession) /\ Len(old) = Len(sessions)
      /\ \A s \in DOMAIN old : old[s].user \in DOMAIN users
  <2>1. \A s \in 1 .. Len(sessions) : sessions[s] \in UserSession
    BY <1>3
  <2>2. \A s \in 1 .. Len(sessions) : old[s] \in UserSession /\ old[s].user = sessions[s].user
    <3>1. \A s \in 1 .. Len(sessions) :
            (sessions[s].revoked \/ s \in f.revoke) \in BOOLEAN
      OBVIOUS
    <3>2. DOMAIN sessions = 1 .. Len(sessions)
      BY <1>3
    <3>3. \A s \in DOMAIN sessions :
            old[s] = [sessions[s] EXCEPT !.revoked = sessions[s].revoked \/ s \in f.revoke]
      OBVIOUS
    <3> HIDE DEF old
    <3> QED
      BY <2>1, <3>1, <3>2, <3>3, FlagTyped
  <2>3. DOMAIN old = 1 .. Len(sessions) /\ Len(sessions) \in Nat
    BY <1>3
  <2>4. old = [s \in 1 .. Len(sessions) |-> old[s]]
    BY <2>3
  <2> HIDE DEF old
  <2>5. old \in [1 .. Len(sessions) -> UserSession]
    BY <2>2, <2>4
  <2> QED
    BY <1>3, <1>6, <2>2, <2>3, <2>5
<1>8. /\ olt \in Seq(OneTimeToken) /\ Len(olt) = Len(tokens)
      /\ \A t \in DOMAIN olt : olt[t].user \in DOMAIN users
  <2>1. \A t \in 1 .. Len(tokens) : tokens[t] \in OneTimeToken
    BY <1>3
  <2>2. \A t \in 1 .. Len(tokens) : olt[t] \in OneTimeToken /\ olt[t].user = tokens[t].user
    <3>1. \A t \in 1 .. Len(tokens) :
            (tokens[t].used \/ t \in f.use) \in BOOLEAN
      OBVIOUS
    <3>2. DOMAIN tokens = 1 .. Len(tokens)
      BY <1>3
    <3>3. \A t \in DOMAIN tokens :
            olt[t] = [tokens[t] EXCEPT !.used = tokens[t].used \/ t \in f.use]
      OBVIOUS
    <3> HIDE DEF olt
    <3> QED
      BY <2>1, <3>1, <3>2, <3>3, FlagTyped
  <2>3. DOMAIN olt = 1 .. Len(tokens) /\ Len(tokens) \in Nat
    BY <1>3
  <2>4. olt = [t \in 1 .. Len(tokens) |-> olt[t]]
    BY <2>3
  <2> HIDE DEF olt
  <2>5. olt \in [1 .. Len(tokens) -> OneTimeToken]
    BY <2>2, <2>4
  <2> QED
    BY <1>3, <1>6, <2>2, <2>3, <2>5
<1>9. /\ \A i \in DOMAIN f.session : f.session[i].user \in DOMAIN users
      /\ \A i \in DOMAIN f.token : f.token[i].user \in DOMAIN users \cup DOMAIN f.created
  BY <1>1 DEF Owned
<1> HIDE DEF f, old, olt
<1>10. sessions' \in Seq(UserSession) /\ tokens' \in Seq(OneTimeToken)
  BY <1>2, <1>4, <1>7, <1>8
<1>11. \A s \in DOMAIN sessions' : sessions'[s].user \in DOMAIN users'
  BY <1>2, <1>4, <1>5, <1>7, <1>9
<1>12. \A t \in DOMAIN tokens' : tokens'[t].user \in DOMAIN users'
  BY <1>2, <1>4, <1>5, <1>8, <1>9
<1>13. DOMAIN sessions \subseteq DOMAIN sessions' /\ DOMAIN tokens \subseteq DOMAIN tokens'
  BY <1>2, <1>3, <1>4, <1>7, <1>8
<1>14. failures' \in [Emails -> Seq(Nat)]
  BY <1>2, <1>3
<1> QED
  BY <1>10, <1>11, <1>12, <1>13, <1>14 DEF Owners
\* A decision made earlier stays sound when another request commits.
LEMMA CommitKeepsDecisions ==
    ASSUME AdminInv, NEW r \in inflight, ~ Taken(r.effect), Write(r.effect),
           NEW q \in inflight, q # r
    PROVE  Decided(q.op, q.effect)' /\ Effects(q.effect)'
<1> DEFINE f == q.effect
<1>1. Decided(q.op, f) /\ Effects(f)
  BY DEF AdminInv, TypeOK
<1>2. DOMAIN users' = DOMAIN users \cup DOMAIN r.effect.created
  BY CommitUsers
<1>3. DOMAIN sessions \subseteq DOMAIN sessions' /\ DOMAIN tokens \subseteq DOMAIN tokens'
  BY CommitRows
<1> HIDE DEF f
<1>4. Effects(f)'
  BY <1>1, <1>2, <1>3 DEF Effects
<1>5. Owned(f)'
  BY <1>1, <1>2 DEF Decided, Owned
<1>6. q.op \in AdminOps => DOMAIN f.created = {} /\ ActsOnOthers(f)'
  BY <1>1, <1>2 DEF Decided, ActsOnOthers
<1>7. Decided(q.op, f)'
  BY <1>1, <1>2, <1>4, <1>5, <1>6 DEF Decided, KeepsStanding
<1> QED
  BY <1>4, <1>7 DEF f

\* A commit leaves an administrator, unless the one who asked for it is none
\* any more.
LEMMA CommitLeavesAdmin ==
    ASSUME AdminInv, AdminRemains, NEW r \in inflight, ~ Taken(r.effect), Write(r.effect),
           \A a \in r.effect.actor : IsAdmin(a)
    PROVE  AdminRemains'
<1> DEFINE f == r.effect
<1>1. Decided(r.op, f)
  BY DEF AdminInv
<1>2. /\ DOMAIN users' = DOMAIN users \cup DOMAIN f.created
      /\ \A e \in DOMAIN f.created : users'[e] = f.created[e]
      /\ \A e \in DOMAIN users \ DOMAIN f.changed : users'[e] = users[e]
      /\ r.op \notin AdminOps =>
            \A e \in DOMAIN users :
                users'[e].role = users[e].role /\ users'[e].status = users[e].status
  BY CommitUsers
<1>3. \A a \in f.actor : IsAdmin(a)
  OBVIOUS
<1> HIDE DEF f
<1>4. CASE DOMAIN users = {}
  BY <1>1, <1>2, <1>4 DEF Decided, AdminRemains, IsAdmin
<1>5. CASE DOMAIN users # {} /\ r.op \in AdminOps
  <2>1. PICK a \in f.actor : a \in DOMAIN users \ DOMAIN f.changed
    BY <1>1, <1>5 DEF Decided, ActsOnOthers
  <2>2. IsAdmin(a)' /\ a \in DOMAIN users'
    BY <1>2, <1>3, <2>1 DEF IsAdmin
  <2> QED
    BY <2>2 DEF AdminRemains
<1>6. CASE DOMAIN users # {} /\ r.op \notin AdminOps
  BY <1>2, <1>6 DEF AdminRemains, IsAdmin
<1> QED
  BY <1>4, <1>5, <1>6

\* Commit, refused or not.
LEMMA CommitKeeps ==
    ASSUME AdminInv, NEW w \in Requests, Commit(w)
    PROVE  AdminInv'
<1>1. PICK r \in inflight :
        /\ IF Taken(r.effect) THEN UNCHANGED <<users, sessions, tokens, failures>>
           ELSE Write(r.effect)
        /\ inflight' = inflight \ {r}
        /\ now' = now
  BY DEF Commit
<1>3. \A q \in inflight' : q \in inflight /\ q # r
  BY <1>1
<1>4. CASE Taken(r.effect)
  <2>1. UNCHANGED <<now, users, sessions, tokens, failures>>
    BY <1>1, <1>4
  <2>2. \A o, g : (Decided(o, g) <=> Decided(o, g)') /\ (Effects(g) <=> Effects(g)')
    BY <2>1 DEF Decided, Effects, Owned, ActsOnOthers, KeepsStanding
  <2>3. TypeOK'
    BY <1>3, <2>1, <2>2 DEF AdminInv, TypeOK
  <2>4. Owners'
    BY <2>1 DEF AdminInv, Owners
  <2>5. (\A q \in inflight : Decided(q.op, q.effect))'
    BY <1>3, <2>2 DEF AdminInv
  <2> QED
    BY <2>3, <2>4, <2>5 DEF AdminInv
<1>5. CASE ~ Taken(r.effect)
  <2>1. Write(r.effect)
    BY <1>1, <1>5
  <2>2. \A q \in inflight' : Decided(q.op, q.effect)' /\ Effects(q.effect)'
    BY <1>3, <1>5, <2>1, CommitKeepsDecisions
  <2>3. /\ DOMAIN users' \subseteq Emails /\ users' \in [DOMAIN users' -> User]
        /\ sessions' \in Seq(UserSession) /\ tokens' \in Seq(OneTimeToken)
        /\ failures' \in [Emails -> Seq(Nat)] /\ Owners'
    BY <1>5, <2>1, CommitUsers, CommitRows
  <2>4. TypeOK'
    BY <1>1, <1>3, <2>2, <2>3 DEF AdminInv, TypeOK
  <2>5. (\A q \in inflight : Decided(q.op, q.effect))'
    BY <2>2
  <2> QED
    BY <2>3, <2>4, <2>5 DEF AdminInv
<1> QED
  BY <1>4, <1>5

------------------------------------------------------------------------------
(* The invariant and what follows from it. *)

\* The empty tables.
LEMMA InitSound == Init => AdminInv
<1> SUFFICES ASSUME Init PROVE AdminInv
  OBVIOUS
<1>1. DOMAIN users = {} /\ users \in [DOMAIN users -> User]
  BY DEF Init, NoFunction
<1>2. TypeOK
  BY <1>1 DEF Init, TypeOK
<1>3. Owners
  BY <1>1 DEF Init, Owners
<1> QED
  BY <1>2, <1>3 DEF Init, AdminInv

\* Nothing is in flight when the clock ticks or the cost of a hash is raised.
LEMMA IdleKeeps ==
    ASSUME AdminInv, Tick \/ RaiseCost
    PROVE  AdminInv'
<1>1. inflight' = {} /\ sessions' = sessions /\ tokens' = tokens /\ failures' = failures
  BY DEF Tick, RaiseCost
<1>2. now' \in Nat
  BY DEF AdminInv, TypeOK, Tick, RaiseCost
<1>3. /\ DOMAIN users' = DOMAIN users /\ users' \in [DOMAIN users' -> User]
      /\ \A e \in DOMAIN users :
            users'[e].role = users[e].role /\ users'[e].status = users[e].status
  <2>1. CASE Tick
    BY <2>1 DEF AdminInv, TypeOK, Tick
  <2>2. CASE RaiseCost
    <3>1. users' = [e \in DOMAIN users |-> [users[e] EXCEPT !.hash.outdated = TRUE]]
      BY <2>2 DEF RaiseCost
    <3>2. \A u \in User :
            LET v == [u EXCEPT !.hash.outdated = TRUE]
            IN  v \in User /\ v.role = u.role /\ v.status = u.status
      BY DEF User, Hash
    <3>3. \A e \in DOMAIN users : users[e] \in User
      BY DEF AdminInv, TypeOK
    <3> QED
      BY <3>1, <3>2, <3>3
  <2> QED
    BY <2>1, <2>2
<1>4. TypeOK'
  BY <1>1, <1>2, <1>3 DEF AdminInv, TypeOK
<1>5. Owners'
  BY <1>1, <1>3 DEF AdminInv, Owners
<1> QED
  BY <1>1, <1>4, <1>5 DEF AdminInv

\* Every step keeps the invariant.
LEMMA NextKeeps ==
    ASSUME AdminInv, [Next]_vars
    PROVE  AdminInv'
<1>1. CASE UNCHANGED vars
  BY <1>1, StutterKeeps
<1>2. ASSUME NEW w \in Requests, NEW e \in Emails, Visitor(w, e) PROVE AdminInv'
  BY <1>2, VisitorKeeps
<1>3. ASSUME NEW w \in Requests, NEW e \in DOMAIN users, Owner(w, e) PROVE AdminInv'
  BY <1>3, OwnerKeeps
<1>4. ASSUME NEW w \in Requests, NEW t \in DOMAIN tokens, Follow(w, t) PROVE AdminInv'
  BY <1>4, FollowKeeps
<1>5. ASSUME NEW w \in Requests, NEW s \in DOMAIN sessions, SignedIn(w, s) PROVE AdminInv'
  BY <1>5, SignedInKeeps
<1>6. ASSUME NEW w \in Requests, NEW s \in DOMAIN sessions, NEW e \in DOMAIN users,
             Administer(w, s, e)
      PROVE  AdminInv'
  BY <1>6, AdministerKeeps
<1>7. ASSUME NEW w \in Requests, Commit(w) PROVE AdminInv'
  BY <1>7, CommitKeeps
<1>8. CASE Tick \/ RaiseCost
  BY <1>8, IdleKeeps
<1> QED
  BY <1>1, <1>2, <1>3, <1>4, <1>5, <1>6, <1>7, <1>8 DEF Next

\* Whatever overlaps, every variable keeps its type and every request in flight
\* names rows that exist (all routes of routes_auth.py and the account routes of
\* routes_admin.py).
THEOREM AccountsTyped == Spec => []TypeOK
<1>1. AdminInv => TypeOK
  BY DEF AdminInv
<1>2. AdminInv /\ [Next]_vars => AdminInv'
  BY NextKeeps
<1> QED
  BY <1>1, <1>2, InitSound, PTL DEF Spec

\* The accounts change in a commit, and when the cost of a hash is raised.
LEMMA UsersChange ==
    ASSUME [Next]_vars
    PROVE  users' = users \/ RaiseCost \/ \E w \in Requests : Commit(w)
<1>1. \A w, op, f : Begin(w, op, f) => users' = users  BY DEF Begin
<1>2. \A w, e : Visitor(w, e) => users' = users
  BY <1>1 DEF Visitor, LoginLockedOut, FailedLogin, Signup, vars
<1>3. \A w, e : Owner(w, e) => users' = users
  BY <1>1 DEF Owner, ResendVerification, LoginUnverified, Login, RequestPasswordReset
<1>4. \A w, t : Follow(w, t) => users' = users
  BY <1>1 DEF Follow, VerifyEmail, ResetRejected, ResetPassword
<1>5. \A w, s : SignedIn(w, s) => users' = users
  BY <1>1 DEF SignedIn, Logout, RevokeSessions, ChangePassword, vars
<1>6. \A w, s, e : Administer(w, s, e) => users' = users
  BY <1>1 DEF Administer, ChangeStatus, ChangeRole
<1>7. Tick => users' = users  BY DEF Tick
<1>8. UNCHANGED vars => users' = users  BY DEF vars
<1> QED
  BY <1>2, <1>3, <1>4, <1>5, <1>6, <1>7, <1>8 DEF Next

\* However changes of role and status overlap, the last administrator who can
\* sign in is lost only to a request of somebody who was one when it was let in,
\* and is none when it commits (the guards of change_role and change_status in
\* routes_admin.py).
THEOREM AdminLost == Spec => LastAdminLostToDeposed
<1> DEFINE Step == AdminRemains =>
              \/ AdminRemains'
              \/ \E r \in inflight \ inflight' : \E a \in r.effect.actor : ~ IsAdmin(a)
<1>1. AdminInv /\ [Next]_vars => [Step]_vars
  <2> SUFFICES ASSUME AdminInv, [Next]_vars, AdminRemains,
                      \A r \in inflight \ inflight' : \A a \in r.effect.actor : IsAdmin(a)
               PROVE  AdminRemains'
    OBVIOUS
  <2>1. CASE users' = users
    BY <2>1 DEF AdminRemains, IsAdmin
  <2>2. CASE RaiseCost
    <3>1. users' = [e \in DOMAIN users |-> [users[e] EXCEPT !.hash.outdated = TRUE]]
      BY <2>2 DEF RaiseCost
    <3>2. \A u \in User :
            LET v == [u EXCEPT !.hash.outdated = TRUE] IN v.role = u.role /\ v.status = u.status
      BY DEF User, Hash
    <3>3. \A e \in DOMAIN users : users[e] \in User
      BY DEF AdminInv, TypeOK
    <3> QED
      BY <3>1, <3>2, <3>3 DEF AdminRemains, IsAdmin
  <2>3. ASSUME NEW w \in Requests, Commit(w) PROVE AdminRemains'
    <3>1. PICK r \in inflight :
            /\ IF Taken(r.effect) THEN UNCHANGED <<users, sessions, tokens, failures>>
               ELSE Write(r.effect)
            /\ inflight' = inflight \ {r}
      BY <2>3 DEF Commit
    <3>2. CASE Taken(r.effect)
      BY <3>1, <3>2 DEF AdminRemains, IsAdmin
    <3>3. CASE ~ Taken(r.effect)
      <4>1. \A a \in r.effect.actor : IsAdmin(a)
        BY <3>1
      <4> QED
        BY <3>1, <3>3, <4>1, CommitLeavesAdmin
    <3> QED
      BY <3>2, <3>3
  <2> QED
    BY <2>1, <2>2, <2>3, UsersChange
<1> HIDE DEF Step
<1>2. AdminInv /\ [Next]_vars => AdminInv'
  BY NextKeeps
<1>3. Spec => [][Step]_vars
  BY <1>1, <1>2, InitSound, PTL DEF Spec
<1> QED
  BY <1>3 DEF LastAdminLostToDeposed, Step

------------------------------------------------------------------------------
(***************************************************************************)
(* Sessions.  What revokes sessions reads an epoch and writes the next, so *)
(* such requests must not overlap one another; sign-ins and everything     *)
(* else may overlap them and each other.                                   *)
(***************************************************************************)
EpochOps == {"reset", "revoke", "status"}

\* A session is no newer than its account's epoch, older if the account is
\* closed, and one of this epoch was opened with the present password.
Dated(x) ==
    /\ x.epoch <= users[x.user].epoch
    /\ users[x.user].status # "ACTIVE" => x.epoch < users[x.user].epoch
    /\ x.epoch = users[x.user].epoch =>
          HashUpgrade \/ x.password = users[x.user].hash.password

LeavesEpochs(f) ==
    \A e \in DOMAIN f.changed :
        /\ f.changed[e].dirty.epoch = f.changed[e].read.epoch
        /\ f.changed[e].dirty.status = f.changed[e].read.status
        /\ HashUpgrade \/ f.changed[e].dirty.hash = f.changed[e].read.hash

\* The account is still as it was read.
ReadsStored(f) ==
    \A e \in DOMAIN f.changed :
        /\ f.changed[e].read.epoch = users[e].epoch
        /\ f.changed[e].read.status = users[e].status
        /\ HashUpgrade \/ f.changed[e].read.hash = users[e].hash

RaisesEpochs(f) ==
    \A e \in DOMAIN f.changed :
        \/ f.changed[e].dirty.epoch = f.changed[e].read.epoch + 1
        \/ /\ f.changed[e].dirty.epoch = f.changed[e].read.epoch
           /\ f.changed[e].dirty.status = "ACTIVE"
           /\ f.changed[e].dirty.hash = f.changed[e].read.hash

OpensNext(f) ==
    \A i \in DOMAIN f.session :
        LET x == f.session[i]
        IN  /\ x.user \in DOMAIN f.changed
            /\ x.epoch = f.changed[x.user].dirty.epoch
            /\ f.changed[x.user].dirty.status = "ACTIVE"
            /\ x.password = f.changed[x.user].dirty.hash.password

\* No hash is outdated, unless the cost is ever raised.
UpToDate(f) ==
    HashUpgrade \/ /\ \A e \in DOMAIN f.created : ~ f.created[e].hash.outdated
                   /\ \A e \in DOMAIN f.changed : ~ f.changed[e].dirty.hash.outdated

Orderly(op, f) ==
    /\ UpToDate(f)
    /\ op \notin EpochOps => LeavesEpochs(f) /\ \A i \in DOMAIN f.session : Dated(f.session[i])
    /\ op \in EpochOps => /\ ReadsStored(f) /\ RaisesEpochs(f) /\ OpensNext(f)
                          /\ DOMAIN f.created = {}

EpochOpsAlone == \A r, q \in inflight : r.op \in EpochOps /\ q.op \in EpochOps => r = q

SessionInv ==
    /\ AdminInv
    /\ EpochOpsAlone
    /\ HashUpgrade \/ \A e \in DOMAIN users : ~ users[e].hash.outdated
    /\ \A s \in DOMAIN sessions : Dated(sessions[s])
    /\ \A r \in inflight : Orderly(r.op, r.effect)

LEMMA BeginOrderly ==
    ASSUME EpochOps \subseteq Serial, SessionInv, AdminInv',
           NEW w, NEW op, NEW f, Begin(w, op, f), Orderly(op, f)
    PROVE  SessionInv'
<1> DEFINE n == [by |-> w, op |-> op, effect |-> f]
<1>1. inflight' = inflight \cup {n} /\ users' = users /\ sessions' = sessions  BY DEF Begin
<1>2. n.op = op /\ n.effect = f  OBVIOUS
<1> HIDE DEF n
<1>3. EpochOpsAlone'
  <2>1. \A r \in inflight : ~ (op \in EpochOps /\ r.op \in EpochOps)  BY DEF Begin
  <2> QED  BY <1>1, <1>2, <2>1 DEF SessionInv, EpochOpsAlone
<1>4. \A x : Dated(x)' <=> Dated(x)  BY <1>1 DEF Dated
<1>5. \A o, g : Orderly(o, g)' <=> Orderly(o, g)
  BY <1>1, <1>4 DEF Orderly, UpToDate, LeavesEpochs, ReadsStored, RaisesEpochs, OpensNext
<1>6. \A r \in inflight' : Orderly(r.op, r.effect)
  BY <1>1, <1>2 DEF SessionInv
<1>7. (\A r \in inflight : Orderly(r.op, r.effect))'  BY <1>5, <1>6
<1>8. (\A s \in DOMAIN sessions : Dated(sessions[s]))'  BY <1>1 DEF SessionInv, Dated
<1> QED  BY <1>1, <1>3, <1>7, <1>8 DEF SessionInv

\* A request that changes no account and opens no session.
LEMMA QuietOrderly ==
    ASSUME NEW op, NEW f, f.created = NoFunction, f.changed = NoFunction, f.session = <<>>
    PROVE  Orderly(op, f)
  BY NoEffectTyped
  DEF Orderly, UpToDate, LeavesEpochs, ReadsStored, RaisesEpochs, OpensNext

\* A request that changes one account, in neither epoch nor status nor hash.
LEMMA PlainOrderly ==
    ASSUME SessionInv, NEW e \in DOMAIN users, NEW row, NEW op, op \notin EpochOps, NEW f,
           row.epoch = users[e].epoch, row.status = users[e].status, row.hash = users[e].hash,
           f.created = NoFunction, f.changed = Change(e, row), f.session = <<>>
    PROVE  Orderly(op, f)
  BY NoEffectTyped DEF SessionInv, Orderly, UpToDate, LeavesEpochs, Change

\* A request that raises the epoch of one account.
LEMMA RaisingOrderly ==
    ASSUME SessionInv, NEW e \in DOMAIN users, NEW row, NEW op \in EpochOps, NEW f,
           row.epoch = users[e].epoch + 1, HashUpgrade \/ ~ row.hash.outdated,
           f.created = NoFunction, f.changed = Change(e, row),
           f.session = <<>> \/ (row.status = "ACTIVE" /\ f.session = NewSession(e, row))
    PROVE  Orderly(op, f)
<1>1. DOMAIN f.changed = {e} /\ f.changed[e].read = users[e] /\ f.changed[e].dirty = row
  BY DEF Change
<1>2. UpToDate(f) /\ ReadsStored(f) /\ RaisesEpochs(f) /\ DOMAIN f.created = {}
  BY <1>1, NoEffectTyped DEF UpToDate, ReadsStored, RaisesEpochs
<1>3. OpensNext(f)
  <2>1. CASE f.session = <<>>  BY <2>1 DEF OpensNext
  <2>2. CASE f.session # <<>>
    <3>1. DOMAIN f.session = {1} /\ f.session[1].user = e /\ f.session[1].epoch = row.epoch
          /\ f.session[1].password = row.hash.password
      BY <2>2 DEF NewSession
    <3> QED  BY <1>1, <2>2, <3>1 DEF OpensNext
  <2> QED  BY <2>1, <2>2
<1> QED  BY <1>2, <1>3 DEF Orderly

------------------------------------------------------------------------------

LEMMA VisitorOrderly ==
    ASSUME EpochOps \subseteq Serial, SessionInv, AdminInv', NEW w, NEW e, Visitor(w, e),
           ~ UNCHANGED vars
    PROVE  SessionInv'
<1>1. CASE FailedLogin(w, e)
  <2> DEFINE f == [NoEffect EXCEPT !.failed = {e}]
  <2>1. f.created = NoFunction /\ f.changed = NoFunction /\ f.session = <<>>  BY DEF NoEffect
  <2>2. Begin(w, "login", f)  BY <1>1 DEF FailedLogin
  <2> HIDE DEF f
  <2> QED  BY <2>1, <2>2, QuietOrderly, BeginOrderly
<1>2. ASSUME NEW p, Signup(w, e, p) PROVE SessionInv'
  <2> DEFINE first == DOMAIN users = {} \/ e \in AdminEmails
             row == [role |-> IF first THEN "ADMIN" ELSE "USER", status |-> "ACTIVE",
                     verified |-> ~ RequireVerification, epoch |-> 0, hash |-> HashPassword(p)]
             f == [NoEffect EXCEPT !.created = [x \in {e} |-> row],
                                   !.token = NewToken(e, "verify_email")]
  <2>1. Begin(w, "signup", f) /\ row.hash = HashPassword(p)  BY <1>2 DEF Signup
  <2> HIDE DEF row
  <2>2. f.created = [x \in {e} |-> row] /\ f.changed = NoFunction /\ f.session = <<>>
    BY DEF NoEffect
  <2> HIDE DEF f
  <2>4. Orderly("signup", f)
    BY <2>1, <2>2, NoEffectTyped DEF Orderly, UpToDate, LeavesEpochs, EpochOps, HashPassword
  <2> QED  BY <2>1, <2>4, BeginOrderly
<1> QED  BY <1>1, <1>2 DEF Visitor, LoginLockedOut

LEMMA OwnerOrderly ==
    ASSUME EpochOps \subseteq Serial, SessionInv, AdminInv', NEW w, NEW e \in DOMAIN users,
           Owner(w, e)
    PROVE  SessionInv'
<1>1. ASSUME NEW op, NEW purpose, Begin(w, op, IssueToken(e, purpose)) PROVE SessionInv'
  <2> DEFINE f == IssueToken(e, purpose)
  <2>1. f.created = NoFunction /\ f.changed = NoFunction /\ f.session = <<>>
    BY DEF IssueToken, NoEffect
  <2>2. Begin(w, op, f)  BY <1>1
  <2> HIDE DEF f
  <2> QED  BY <2>1, <2>2, QuietOrderly, BeginOrderly
<1>2. CASE Login(w, e)
  <2> DEFINE row == [users[e] EXCEPT !.hash.outdated = FALSE]
             session == [NoEffect EXCEPT !.session = NewSession(e, row)]
             f == IF row = users[e] THEN session
                  ELSE [session EXCEPT !.changed = Change(e, row)]
  <2>1. Begin(w, "login", f) /\ users[e].status = "ACTIVE"  BY <1>2 DEF Login, MayLogin
  <2>2. users[e] \in User  BY DEF SessionInv, AdminInv, TypeOK
  <2>3. row.epoch = users[e].epoch /\ row.status = users[e].status
        /\ row.hash.password = users[e].hash.password /\ ~ row.hash.outdated
    BY <2>2 DEF User, Hash
  <2>4. HashUpgrade \/ row = users[e]
    <3>1. HashUpgrade \/ users[e].hash.outdated = FALSE
      BY <2>2 DEF SessionInv, User, Hash
    <3> QED  BY <2>2, <3>1 DEF User, Hash
  <2> HIDE DEF row
  <2>5. /\ f.created = NoFunction /\ f.session = NewSession(e, row)
        /\ f.changed = NoFunction \/ (HashUpgrade /\ f.changed = Change(e, row))
    BY <2>4 DEF NoEffect
  <2> HIDE DEF f
  <2>6. UpToDate(f) /\ LeavesEpochs(f)
    BY <2>3, <2>5, NoEffectTyped DEF UpToDate, LeavesEpochs, Change
  <2>7. \A i \in DOMAIN f.session : Dated(f.session[i])
    <3>1. DOMAIN f.session = {1} /\ f.session[1].user = e /\ f.session[1].epoch = users[e].epoch
          /\ f.session[1].password = users[e].hash.password
      BY <2>3, <2>5 DEF NewSession
    <3>2. users[e].epoch \in Nat  BY <2>2 DEF User
    <3> QED  BY <2>1, <3>1, <3>2 DEF Dated
  <2> QED  BY <2>1, <2>6, <2>7, BeginOrderly DEF Orderly, EpochOps
<1> QED
  BY <1>1, <1>2 DEF Owner, ResendVerification, LoginUnverified, RequestPasswordReset

LEMMA FollowOrderly ==
    ASSUME EpochOps \subseteq Serial, SessionInv, AdminInv', NEW w, NEW t \in DOMAIN tokens,
           Follow(w, t)
    PROVE  SessionInv'
<1> DEFINE e == tokens[t].user
<1>1. e \in DOMAIN users /\ users[e] \in User
  BY DEF SessionInv, AdminInv, TypeOK, Owners
<1> HIDE DEF e
<1>2. CASE VerifyEmail(w, t)
  <2> DEFINE row == [users[e] EXCEPT !.verified = TRUE]
             f == [NoEffect EXCEPT !.changed = Change(e, row), !.use = {t}]
  <2>1. Begin(w, "verify", f)  BY <1>2 DEF VerifyEmail, e
  <2>2. row.epoch = users[e].epoch /\ row.status = users[e].status /\ row.hash = users[e].hash
    BY <1>1 DEF User
  <2> HIDE DEF row
  <2>3. f.created = NoFunction /\ f.changed = Change(e, row) /\ f.session = <<>>
    BY DEF NoEffect
  <2> HIDE DEF f
  <2>4. Orderly("verify", f)  BY <1>1, <2>2, <2>3, PlainOrderly DEF EpochOps
  <2> QED  BY <2>1, <2>4, BeginOrderly
<1>3. CASE ResetRejected(w, t)
  <2> DEFINE f == [NoEffect EXCEPT !.use = {t}]
  <2>1. f.created = NoFunction /\ f.changed = NoFunction /\ f.session = <<>>  BY DEF NoEffect
  <2>2. Begin(w, "reset", f)  BY <1>3 DEF ResetRejected
  <2> HIDE DEF f
  <2> QED  BY <2>1, <2>2, QuietOrderly, BeginOrderly
<1>4. ASSUME NEW p, ResetPassword(w, t, p) PROVE SessionInv'
  <2> DEFINE row == [users[e] EXCEPT !.hash = HashPassword(p), !.verified = TRUE]
             new == [row EXCEPT !.epoch = @ + 1]
             f == [RevokeAllSessions(e, row) EXCEPT !.use = {t}]
  <2>1. Begin(w, "reset", f)  BY <1>4 DEF ResetPassword, e
  <2>2. new.epoch = users[e].epoch + 1 /\ new.hash = HashPassword(p)
    BY <1>1 DEF User
  <2>3. f.created = NoFunction /\ f.changed = Change(e, new) /\ f.session = <<>>
    BY DEF RevokeAllSessions, NoEffect
  <2> HIDE DEF f, row, new
  <2>4. Orderly("reset", f)
    BY <1>1, <2>2, <2>3, RaisingOrderly DEF EpochOps, HashPassword
  <2> QED  BY <2>1, <2>4, BeginOrderly
<1> QED  BY <1>2, <1>3, <1>4 DEF Follow

LEMMA SignedInOrderly ==
    ASSUME EpochOps \subseteq Serial, SessionInv, AdminInv', NEW w, NEW s \in DOMAIN sessions,
           SignedIn(w, s), ~ UNCHANGED vars
    PROVE  SessionInv'
<1> DEFINE e == sessions[s].user
<1>1. e \in DOMAIN users /\ users[e] \in User
      /\ (HashUpgrade \/ ~ users[e].hash.outdated)
  BY DEF SessionInv, AdminInv, TypeOK, Owners
<1> HIDE DEF e
<1>2. CASE Logout(w, s)
  <2> DEFINE f == [NoEffect EXCEPT !.revoke = {s}]
  <2>1. f.created = NoFunction /\ f.changed = NoFunction /\ f.session = <<>>  BY DEF NoEffect
  <2>2. Begin(w, "logout", f)  BY <1>2 DEF Logout
  <2> HIDE DEF f
  <2> QED  BY <2>1, <2>2, QuietOrderly, BeginOrderly
<1>3. CASE RevokeSessions(w, s)
  <2> DEFINE new == [users[e] EXCEPT !.epoch = @ + 1]
             f == RevokeAllSessions(e, users[e])
  <2>1. Begin(w, "revoke", f)  BY <1>3 DEF RevokeSessions, e
  <2>2. new.epoch = users[e].epoch + 1 /\ new.hash = users[e].hash  BY <1>1 DEF User
  <2>3. f.created = NoFunction /\ f.changed = Change(e, new) /\ f.session = <<>>
    BY DEF RevokeAllSessions, NoEffect
  <2> HIDE DEF f, new
  <2>4. Orderly("revoke", f)  BY <1>1, <2>2, <2>3, RaisingOrderly DEF EpochOps
  <2> QED  BY <2>1, <2>4, BeginOrderly
<1> QED  BY <1>2, <1>3 DEF SignedIn, ChangePassword

LEMMA AdministerOrderly ==
    ASSUME EpochOps \subseteq Serial, SessionInv, AdminInv', NEW w, NEW s \in DOMAIN sessions,
           NEW e \in DOMAIN users, Administer(w, s, e)
    PROVE  SessionInv'
<1>1. users[e] \in User /\ (HashUpgrade \/ ~ users[e].hash.outdated)
  BY DEF SessionInv, AdminInv, TypeOK
<1>2. ASSUME NEW role, ChangeRole(w, s, e, role) PROVE SessionInv'
  <2> DEFINE row == [users[e] EXCEPT !.role = role]
             f == [NoEffect EXCEPT !.changed = Change(e, row), !.actor = {sessions[s].user}]
  <2>1. Begin(w, "role", f)  BY <1>2 DEF ChangeRole
  <2>2. row.epoch = users[e].epoch /\ row.status = users[e].status /\ row.hash = users[e].hash
    BY <1>1 DEF User
  <2> HIDE DEF row
  <2>3. f.created = NoFunction /\ f.changed = Change(e, row) /\ f.session = <<>>
    BY DEF NoEffect
  <2> HIDE DEF f
  <2>4. Orderly("role", f)  BY <2>2, <2>3, PlainOrderly DEF EpochOps
  <2> QED  BY <2>1, <2>4, BeginOrderly
<1>3. ASSUME NEW status, ChangeStatus(w, s, e, status) PROVE SessionInv'
  <2> DEFINE row == [users[e] EXCEPT !.status = status]
             new == [row EXCEPT !.epoch = @ + 1]
             f == [SetAccountStatus(e, status) EXCEPT !.actor = {sessions[s].user}]
  <2>1. Begin(w, "status", f)  BY <1>3 DEF ChangeStatus
  <2>2. row.epoch = users[e].epoch /\ row.hash = users[e].hash /\ row.status = status
        /\ new.epoch = users[e].epoch + 1 /\ new.hash = users[e].hash
    BY <1>1 DEF User
  <2> HIDE DEF row, new
  <2>3. /\ f.created = NoFunction /\ f.session = <<>>
        /\ f.changed = IF status = "ACTIVE" THEN Change(e, row) ELSE Change(e, new)
    BY DEF SetAccountStatus, RevokeAllSessions, NoEffect, row, new
  <2> HIDE DEF f
  <2>4. Orderly("status", f)
    <3>1. CASE status # "ACTIVE"
      BY <1>1, <2>2, <2>3, <3>1, RaisingOrderly DEF EpochOps
    <3>2. CASE status = "ACTIVE"
      BY <1>1, <2>2, <2>3, <3>2, NoEffectTyped
      DEF Orderly, UpToDate, ReadsStored, RaisesEpochs, OpensNext, EpochOps, Change
    <3> QED  BY <3>1, <3>2
  <2> QED  BY <2>1, <2>4, BeginOrderly
<1> QED  BY <1>2, <1>3 DEF Administer

------------------------------------------------------------------------------
(* Committing a request that dates sessions. *)

\* What a commit makes of the columns that date a session.
LEMMA CommitEpochs ==
    ASSUME SessionInv, NEW r \in inflight, ~ Taken(r.effect), Write(r.effect),
           NEW e \in DOMAIN users
    PROVE  LET c == r.effect.changed[e]
           IN  /\ e \notin DOMAIN r.effect.changed => users'[e] = users[e]
               /\ e \in DOMAIN r.effect.changed /\ r.op \notin EpochOps =>
                     /\ users'[e].epoch = users[e].epoch /\ users'[e].status = users[e].status
                     /\ HashUpgrade \/ users'[e].hash = users[e].hash
               /\ e \in DOMAIN r.effect.changed /\ r.op \in EpochOps =>
                     /\ users'[e].epoch = c.dirty.epoch /\ users'[e].status = c.dirty.status
                     /\ HashUpgrade \/ users'[e].hash = c.dirty.hash
                     /\ \/ c.dirty.epoch = users[e].epoch + 1
                        \/ /\ c.dirty.epoch = users[e].epoch /\ c.dirty.status = "ACTIVE"
                           /\ HashUpgrade \/ c.dirty.hash = users[e].hash
<1> DEFINE f == r.effect
           c == f.changed[e]
<1>1. Orderly(r.op, f)  BY DEF SessionInv
<1>2. e \notin DOMAIN f.created  BY DEF Taken
<1>3. users'[e] = IF e \in DOMAIN f.changed THEN WriteUser(users[e], c.read, c.dirty)
                  ELSE users[e]
  BY <1>2 DEF Write, WriteUsers
<1>4. CASE e \in DOMAIN f.changed /\ r.op \notin EpochOps
  BY <1>1, <1>3, <1>4 DEF Orderly, LeavesEpochs, WriteUser, Column
<1>5. CASE e \in DOMAIN f.changed /\ r.op \in EpochOps
  BY <1>1, <1>3, <1>5 DEF Orderly, ReadsStored, RaisesEpochs, WriteUser, Column
<1> QED  BY <1>3, <1>4, <1>5

\* A session stays dated, for epochs only grow and what is new comes with one.
LEMMA CommitDates ==
    ASSUME SessionInv, NEW r \in inflight, ~ Taken(r.effect), Write(r.effect),
           NEW x, x.user \in DOMAIN users, x.epoch \in Int, Dated(x)
    PROVE  Dated(x)'
<1> DEFINE e == x.user
           f == r.effect
<1>1. users[e].epoch \in Nat  BY DEF SessionInv, AdminInv, TypeOK, User
<1>2. CASE e \notin DOMAIN f.changed
  BY <1>2, CommitEpochs DEF Dated
<1>3. CASE e \in DOMAIN f.changed /\ r.op \notin EpochOps
  <2>1. /\ users'[e].epoch = users[e].epoch /\ users'[e].status = users[e].status
        /\ HashUpgrade \/ users'[e].hash = users[e].hash
    BY <1>3, CommitEpochs
  <2> QED  BY <2>1 DEF Dated
<1>4. CASE e \in DOMAIN f.changed /\ r.op \in EpochOps
  <2>1. \/ users'[e].epoch = users[e].epoch + 1
        \/ /\ users'[e].epoch = users[e].epoch /\ users'[e].status = "ACTIVE"
           /\ HashUpgrade \/ users'[e].hash = users[e].hash
    BY <1>4, CommitEpochs
  <2>2. CASE users'[e].epoch = users[e].epoch + 1  BY <1>1, <2>2 DEF Dated
  <2>3. CASE users'[e].epoch = users[e].epoch /\ users'[e].status = "ACTIVE"
             /\ (HashUpgrade \/ users'[e].hash = users[e].hash)
    BY <2>3 DEF Dated
  <2> QED  BY <2>1, <2>2, <2>3
<1> QED  BY <1>2, <1>3, <1>4

LEMMA CommitOpens ==
    ASSUME SessionInv, NEW r \in inflight, ~ Taken(r.effect), Write(r.effect),
           NEW i \in DOMAIN r.effect.session
    PROVE  Dated(r.effect.session[i])'
<1> DEFINE f == r.effect
           x == f.session[i]
<1>1. Effects(f) /\ Owned(f) /\ Orderly(r.op, f)
  BY DEF SessionInv, AdminInv, TypeOK, Decided
<1>2. x \in UserSession /\ x.user \in DOMAIN users
  <2>1. f.session \in Seq(UserSession)  BY <1>1 DEF Effects
  <2> QED  BY <1>1, <2>1 DEF Owned
<1>3. x.epoch \in Int  BY <1>2 DEF UserSession
<1> HIDE DEF x
<1>4. CASE r.op \notin EpochOps
  <2>1. Dated(x)  BY <1>1, <1>4 DEF Orderly, x
  <2>2. Dated(x)'  BY <1>2, <1>3, <2>1, CommitDates
  <2> QED  BY <2>2 DEF x
<1>5. CASE r.op \in EpochOps
  <2>1. /\ x.user \in DOMAIN f.changed
        /\ x.epoch = f.changed[x.user].dirty.epoch
        /\ f.changed[x.user].dirty.status = "ACTIVE"
        /\ x.password = f.changed[x.user].dirty.hash.password
    BY <1>1, <1>5 DEF Orderly, OpensNext, x
  <2>2. /\ users'[x.user].epoch = x.epoch /\ users'[x.user].status = "ACTIVE"
        /\ HashUpgrade \/ x.password = users'[x.user].hash.password
    BY <1>2, <1>5, <2>1, CommitEpochs
  <2>3. Dated(x)'  BY <1>3, <2>2 DEF Dated
  <2> QED  BY <2>3 DEF x
<1> QED  BY <1>4, <1>5

LEMMA ConcatIndices ==
    ASSUME NEW S, NEW T, NEW a \in Seq(S), NEW b \in Seq(T)
    PROVE  /\ Len(b) \in Nat /\ DOMAIN b = 1 .. Len(b)
           /\ DOMAIN (a \o b) = 1 .. Len(a) + Len(b)
           /\ \A s \in 1 .. Len(a) + Len(b) :
                 (a \o b)[s] = IF s <= Len(a) THEN a[s] ELSE b[s - Len(a)]
<1>1. a \in Seq(S \cup T) /\ b \in Seq(S \cup T)  BY LenProperties
<1> QED  BY <1>1, ConcatProperties, LenProperties

\* The session rows a commit leaves.
LEMMA CommitSessions ==
    ASSUME AdminInv, NEW r \in inflight, ~ Taken(r.effect), Write(r.effect)
    PROVE  /\ \A s \in DOMAIN sessions :
                 sessions'[s] = [sessions[s] EXCEPT !.revoked = @ \/ s \in r.effect.revoke]
           /\ \A s \in DOMAIN sessions' \ DOMAIN sessions :
                 \E i \in DOMAIN r.effect.session : sessions'[s] = r.effect.session[i]
<1> DEFINE f == r.effect
           old == [s \in DOMAIN sessions |-> [sessions[s] EXCEPT !.revoked = @ \/ s \in f.revoke]]
<1>1. sessions' = old \o f.session  BY DEF Write
<1>2. f.session \in Seq(UserSession)  BY DEF AdminInv, TypeOK, Effects
<1>3. Len(sessions) \in Nat /\ DOMAIN sessions = 1 .. Len(sessions)  BY DEF AdminInv, TypeOK
<1>4. DOMAIN old = 1 .. Len(sessions)  BY <1>3
<1>5. old \in Seq({old[s] : s \in 1 .. Len(sessions)}) /\ Len(old) = Len(sessions)
  BY <1>3, <1>4
<1>6. \A s \in DOMAIN sessions :
          old[s] = [sessions[s] EXCEPT !.revoked = @ \/ s \in f.revoke]
  OBVIOUS
<1> HIDE DEF old, f
<1>7. Len(sessions) \in Nat /\ Len(f.session) \in Nat /\ DOMAIN f.session = 1 .. Len(f.session)
      /\ DOMAIN sessions' = 1 .. Len(sessions) + Len(f.session)
  BY <1>1, <1>2, <1>3, <1>5, ConcatIndices
<1>8. \A s \in 1 .. Len(sessions) + Len(f.session) :
          sessions'[s] = IF s <= Len(sessions) THEN old[s] ELSE f.session[s - Len(sessions)]
  BY <1>1, <1>2, <1>5, ConcatIndices
<1>9. ASSUME NEW s \in DOMAIN sessions' \ DOMAIN sessions
      PROVE  \E i \in DOMAIN f.session : sessions'[s] = f.session[i]
  <2>1. s - Len(sessions) \in DOMAIN f.session  BY <1>3, <1>7, <1>9
  <2>2. sessions'[s] = f.session[s - Len(sessions)]  BY <1>3, <1>7, <1>8, <1>9
  <2> QED  BY <2>1, <2>2
<1>10. \A s \in DOMAIN sessions : sessions'[s] = old[s]  BY <1>3, <1>7, <1>8
<1>11. \A s \in DOMAIN sessions :
          sessions'[s] = [sessions[s] EXCEPT !.revoked = @ \/ s \in f.revoke]
  BY <1>6, <1>10, Zenon
<1> QED  BY <1>9, <1>11, Zenon DEF f

\* Every session row a commit leaves is dated.
LEMMA CommitDated ==
    ASSUME SessionInv, NEW r \in inflight, ~ Taken(r.effect), Write(r.effect)
    PROVE  (\A s \in DOMAIN sessions : Dated(sessions[s]))'
<1> SUFFICES ASSUME NEW s \in DOMAIN sessions'
             PROVE  LET y == sessions'[s]
                    IN  /\ y.epoch <= users'[y.user].epoch
                        /\ users'[y.user].status # "ACTIVE" => y.epoch < users'[y.user].epoch
                        /\ y.epoch = users'[y.user].epoch =>
                              HashUpgrade \/ y.password = users'[y.user].hash.password
  BY DEF Dated
<1>1. AdminInv  BY DEF SessionInv
<1>2. \E x : /\ x.user = sessions'[s].user /\ x.epoch = sessions'[s].epoch
             /\ x.password = sessions'[s].password
             /\ Dated(x)'
  <2>1. CASE s \in DOMAIN sessions
    <3>1. PICK x : x = sessions[s]  OBVIOUS
    <3>2. x \in UserSession /\ x.user \in DOMAIN users /\ Dated(x)
      BY <1>1, <2>1, <3>1 DEF SessionInv, AdminInv, TypeOK, Owners
    <3>3. x.epoch \in Int  BY <3>2 DEF UserSession
    <3>4. Dated(x)'  BY <3>2, <3>3, CommitDates
    <3>5. sessions'[s] = [x EXCEPT !.revoked = @ \/ s \in r.effect.revoke]
      BY <1>1, <2>1, <3>1, CommitSessions
    <3>6. sessions'[s].user = x.user /\ sessions'[s].epoch = x.epoch
          /\ sessions'[s].password = x.password
      BY <3>2, <3>5 DEF UserSession
    <3> QED  BY <3>4, <3>6
  <2>2. CASE s \notin DOMAIN sessions
    <3>1. PICK i \in DOMAIN r.effect.session : sessions'[s] = r.effect.session[i]
      BY <1>1, <2>2, CommitSessions
    <3>2. Dated(r.effect.session[i])'  BY CommitOpens
    <3> QED  BY <3>1, <3>2
  <2> QED  BY <2>1, <2>2
<1> QED  BY <1>2 DEF Dated

\* A hash a commit leaves is as recent as the request made it.
LEMMA CommitHashes ==
    ASSUME SessionInv, ~ HashUpgrade, NEW r \in inflight, ~ Taken(r.effect), Write(r.effect),
           NEW e \in DOMAIN users'
    PROVE  ~ users'[e].hash.outdated
<1> DEFINE f == r.effect
<1>1. UpToDate(f) /\ Effects(f)  BY DEF SessionInv, AdminInv, TypeOK, Orderly
<1>2. users' = WriteUsers(f)  BY DEF Write
<1>3. e \in DOMAIN users \cup DOMAIN f.created  BY <1>2 DEF WriteUsers
<1>4. CASE e \in DOMAIN f.created  BY <1>1, <1>2, <1>4 DEF WriteUsers, UpToDate
<1>5. CASE e \in DOMAIN users /\ e \notin DOMAIN f.created /\ e \in DOMAIN f.changed
  <2>1. users'[e].hash = Column(users[e].hash, f.changed[e].read.hash, f.changed[e].dirty.hash)
    BY <1>2, <1>5 DEF WriteUsers, WriteUser
  <2>2. ~ users[e].hash.outdated /\ ~ f.changed[e].dirty.hash.outdated
    BY <1>1, <1>5 DEF UpToDate, SessionInv
  <2> QED  BY <2>1, <2>2 DEF Column
<1>6. CASE e \in DOMAIN users /\ e \notin DOMAIN f.created /\ e \notin DOMAIN f.changed
  BY <1>2, <1>6 DEF WriteUsers, SessionInv
<1> QED  BY <1>3, <1>4, <1>5, <1>6

\* What another request has decided stays in order.
LEMMA CommitKeepsOrder ==
    ASSUME SessionInv, NEW r \in inflight, ~ Taken(r.effect), Write(r.effect),
           NEW q \in inflight, q # r
    PROVE  Orderly(q.op, q.effect)'
<1> DEFINE f == q.effect
<1>1. Effects(f) /\ Owned(f) /\ Orderly(q.op, f)
  BY DEF SessionInv, AdminInv, TypeOK, Decided
<1>2. CASE q.op \notin EpochOps
  <2>1. ASSUME NEW i \in DOMAIN f.session PROVE Dated(f.session[i])'
    <3>1. PICK x : x = f.session[i]  OBVIOUS
    <3>2. x \in UserSession /\ x.user \in DOMAIN users
      <4>1. f.session \in Seq(UserSession)  BY <1>1 DEF Effects
      <4> QED  BY <1>1, <3>1, <4>1 DEF Owned
    <3>3. x.epoch \in Int /\ Dated(x)  BY <1>1, <1>2, <3>1, <3>2 DEF UserSession, Orderly
    <3>4. Dated(x)'  BY <3>2, <3>3, CommitDates
    <3> QED  BY <3>1, <3>4
  <2>2. LeavesEpochs(f) /\ UpToDate(f)  BY <1>1, <1>2 DEF Orderly
  <2> HIDE DEF f
  <2>3. (LeavesEpochs(f) /\ UpToDate(f))'  BY <2>2 DEF LeavesEpochs, UpToDate
  <2>4. Orderly(q.op, f)'  BY <1>2, <2>1, <2>3 DEF Orderly
  <2> QED  BY <2>4 DEF f
<1>3. CASE q.op \in EpochOps
  <2>1. r.op \notin EpochOps  BY <1>3 DEF SessionInv, EpochOpsAlone
  <2>2. DOMAIN f.changed \subseteq DOMAIN users  BY <1>1 DEF Effects
  <2>3. \A e \in DOMAIN users :
            /\ users'[e].epoch = users[e].epoch /\ users'[e].status = users[e].status
            /\ HashUpgrade \/ users'[e].hash = users[e].hash
    BY <2>1, CommitEpochs
  <2>4. ReadsStored(f) /\ RaisesEpochs(f) /\ OpensNext(f) /\ UpToDate(f) /\ DOMAIN f.created = {}
    BY <1>1, <1>3 DEF Orderly
  <2> HIDE DEF f
  <2>5. ReadsStored(f)'  BY <2>2, <2>3, <2>4 DEF ReadsStored
  <2>6. (RaisesEpochs(f) /\ OpensNext(f) /\ UpToDate(f))'
    BY <2>4 DEF RaisesEpochs, OpensNext, UpToDate
  <2>7. Orderly(q.op, f)'  BY <1>3, <2>4, <2>5, <2>6 DEF Orderly
  <2> QED  BY <2>7 DEF f
<1> QED  BY <1>2, <1>3

LEMMA CommitOrderly ==
    ASSUME SessionInv, AdminInv', NEW w, Commit(w)
    PROVE  SessionInv'
<1>1. PICK r \in inflight :
        /\ IF Taken(r.effect) THEN UNCHANGED <<users, sessions, tokens, failures>>
           ELSE Write(r.effect)
        /\ inflight' = inflight \ {r}
  BY DEF Commit
<1>2. EpochOpsAlone'  BY <1>1 DEF SessionInv, EpochOpsAlone
<1>3. CASE Taken(r.effect)
  <2>1. UNCHANGED <<users, sessions>>  BY <1>1, <1>3
  <2>2. (\A s \in DOMAIN sessions : Dated(sessions[s]))'  BY <2>1 DEF SessionInv, Dated
  <2>3. (\A q \in inflight : Orderly(q.op, q.effect))'
    BY <1>1, <2>1
    DEF SessionInv, Orderly, UpToDate, LeavesEpochs, ReadsStored, RaisesEpochs, OpensNext, Dated
  <2> QED  BY <1>2, <2>1, <2>2, <2>3 DEF SessionInv
<1>4. CASE ~ Taken(r.effect)
  <2>1. Write(r.effect)  BY <1>1, <1>4
  <2>2. (\A s \in DOMAIN sessions : Dated(sessions[s]))'  BY <1>4, <2>1, CommitDated
  <2>3. HashUpgrade \/ \A e \in DOMAIN users' : ~ users'[e].hash.outdated
    BY <1>4, <2>1, CommitHashes
  <2>4. \A q \in inflight \ {r} : Orderly(q.op, q.effect)'
    BY <1>4, <2>1, CommitKeepsOrder
  <2>5. (\A q \in inflight : Orderly(q.op, q.effect))'  BY <1>1, <2>4
  <2> QED  BY <1>2, <2>2, <2>3, <2>5 DEF SessionInv
<1> QED  BY <1>3, <1>4

------------------------------------------------------------------------------
(* The invariant of sessions and what follows from it. *)

LEMMA SessionInvInit == Init => SessionInv
  BY InitSound, NoEffectTyped DEF Init, SessionInv, EpochOpsAlone

LEMMA StutterOrderly ==
    ASSUME SessionInv, AdminInv', UNCHANGED <<users, sessions, inflight>>
    PROVE  SessionInv'
<1>1. (\A s \in DOMAIN sessions : Dated(sessions[s]))'  BY DEF SessionInv, Dated
<1>2. (\A q \in inflight : Orderly(q.op, q.effect))'
  BY DEF SessionInv, Orderly, UpToDate, LeavesEpochs, ReadsStored, RaisesEpochs, OpensNext, Dated
<1> QED  BY <1>1, <1>2 DEF SessionInv, EpochOpsAlone

LEMMA RaiseCostOrderly ==
    ASSUME SessionInv, AdminInv', RaiseCost
    PROVE  SessionInv'
<1>1. HashUpgrade /\ inflight' = {} /\ sessions' = sessions  BY DEF RaiseCost
<1>2. \A e \in DOMAIN users :
        users'[e].epoch = users[e].epoch /\ users'[e].status = users[e].status
  <2>1. \A u \in User : LET v == [u EXCEPT !.hash.outdated = TRUE]
                        IN  v.epoch = u.epoch /\ v.status = u.status
    BY DEF User
  <2> QED  BY <2>1 DEF RaiseCost, SessionInv, AdminInv, TypeOK
<1>3. \A s \in DOMAIN sessions : sessions[s].user \in DOMAIN users
  BY DEF SessionInv, AdminInv, Owners
<1>4. (\A s \in DOMAIN sessions : Dated(sessions[s]))'
  BY <1>1, <1>2, <1>3 DEF SessionInv, Dated
<1> QED  BY <1>1, <1>4 DEF SessionInv, EpochOpsAlone

LEMMA SessionNext ==
    ASSUME EpochOps \subseteq Serial, SessionInv, [Next]_vars
    PROVE  SessionInv'
<1>1. AdminInv'  BY NextKeeps DEF SessionInv
<1>2. EpochOps \subseteq Serial  OBVIOUS
<1>3. CASE UNCHANGED vars  BY <1>1, <1>3, StutterOrderly DEF vars
<1>4. ASSUME NEW w \in Requests, NEW e \in Emails, Visitor(w, e) PROVE SessionInv'
  BY <1>1, <1>2, <1>3, <1>4, VisitorOrderly
<1>5. ASSUME NEW w \in Requests, NEW e \in DOMAIN users, Owner(w, e) PROVE SessionInv'
  BY <1>1, <1>2, <1>5, OwnerOrderly
<1>6. ASSUME NEW w \in Requests, NEW t \in DOMAIN tokens, Follow(w, t) PROVE SessionInv'
  BY <1>1, <1>2, <1>6, FollowOrderly
<1>7. ASSUME NEW w \in Requests, NEW s \in DOMAIN sessions, SignedIn(w, s) PROVE SessionInv'
  BY <1>1, <1>2, <1>3, <1>7, SignedInOrderly
<1>8. ASSUME NEW w \in Requests, NEW s \in DOMAIN sessions, NEW e \in DOMAIN users,
             Administer(w, s, e)
      PROVE  SessionInv'
  BY <1>1, <1>2, <1>8, AdministerOrderly
<1>9. ASSUME NEW w \in Requests, Commit(w) PROVE SessionInv'
  BY <1>1, <1>9, CommitOrderly
<1>10. CASE Tick  BY <1>1, <1>10, StutterOrderly DEF Tick
<1>11. CASE RaiseCost  BY <1>1, <1>11, RaiseCostOrderly
<1> QED  BY <1>3, <1>4, <1>5, <1>6, <1>7, <1>8, <1>9, <1>10, <1>11 DEF Next

\* Dated sessions that still work are of this epoch.
LEMMA SessionInvFollows == ASSUME SessionInv, ~ HashUpgrade PROVE SessionsFollowPassword
  BY DEF SessionInv, Dated, Resolves, SessionsFollowPassword

\* A session that works after a step worked before it.
LEMMA StepRevivesNothing ==
    ASSUME EpochOps \subseteq Serial, SessionInv, [Next]_vars,
           NEW s \in DOMAIN sessions, Resolves(s)'
    PROVE  Resolves(s)
<1> DEFINE e == sessions[s].user
<1>1. /\ e \in DOMAIN users /\ sessions[s] \in UserSession /\ users[e].epoch \in Nat
      /\ Dated(sessions[s]) /\ now \in Nat
  BY DEF SessionInv, AdminInv, TypeOK, Owners, User
<1> HIDE DEF e
<1>2. CASE UNCHANGED <<users, sessions, now>>
  BY <1>2 DEF Resolves
<1>3. CASE Tick
  BY <1>1, <1>3 DEF Tick, Resolves, UserSession
<1>4. CASE RaiseCost
  <2>1. users'[e].epoch = users[e].epoch /\ users'[e].status = users[e].status
    <3>1. users[e] \in User  BY <1>1 DEF SessionInv, AdminInv, TypeOK
    <3> QED  BY <1>1, <1>4, <3>1 DEF RaiseCost, User
  <2> QED  BY <1>4, <2>1 DEF RaiseCost, Resolves, e
<1>5. ASSUME NEW w \in Requests, Commit(w) PROVE Resolves(s)
  <2>1. PICK r \in inflight :
          /\ IF Taken(r.effect) THEN UNCHANGED <<users, sessions, tokens, failures>>
             ELSE Write(r.effect)
          /\ now' = now
    BY <1>5 DEF Commit
  <2>2. CASE ~ Taken(r.effect)
    <3>1. Write(r.effect)  BY <2>1, <2>2
    <3>2. sessions'[s] = [sessions[s] EXCEPT !.revoked = @ \/ s \in r.effect.revoke]
      BY <2>2, <3>1, CommitSessions DEF SessionInv
    <3>3. /\ sessions'[s].user = e /\ sessions'[s].epoch = sessions[s].epoch
          /\ sessions'[s].expires = sessions[s].expires
          /\ ~ sessions'[s].revoked => ~ sessions[s].revoked
      BY <1>1, <3>2 DEF UserSession, e
    <3>4. \/ users'[e].epoch = users[e].epoch + 1
          \/ users'[e].epoch = users[e].epoch
      BY <1>1, <2>2, <3>1, CommitEpochs
    <3>5. users'[e].epoch = sessions[s].epoch /\ users'[e].status = "ACTIVE"
      BY <3>3 DEF Resolves
    <3>6. sessions[s].epoch <= users[e].epoch
          /\ (users[e].status # "ACTIVE" => sessions[s].epoch < users[e].epoch)
      BY <1>1 DEF Dated, e
    <3>7. users[e].epoch = sessions[s].epoch /\ users[e].status = "ACTIVE"
      BY <1>1, <3>4, <3>5, <3>6
    <3> QED  BY <2>1, <3>3, <3>7 DEF Resolves, e
  <2> QED  BY <1>2, <2>1, <2>2
<1>6. ASSUME NEW w, NEW op, NEW f, Begin(w, op, f) PROVE Resolves(s)
  BY <1>2, <1>6 DEF Begin
<1>7. CASE UNCHANGED vars  BY <1>2, <1>7 DEF vars
<1>8. ASSUME NEW w \in Requests, NEW x \in Emails, Visitor(w, x) PROVE Resolves(s)
  BY <1>6, <1>7, <1>8 DEF Visitor, LoginLockedOut, FailedLogin, Signup
<1>9. ASSUME NEW w \in Requests, NEW x \in DOMAIN users, Owner(w, x) PROVE Resolves(s)
  BY <1>6, <1>9 DEF Owner, ResendVerification, LoginUnverified, Login, RequestPasswordReset
<1>10. ASSUME NEW w \in Requests, NEW t \in DOMAIN tokens, Follow(w, t) PROVE Resolves(s)
  BY <1>6, <1>10 DEF Follow, VerifyEmail, ResetRejected, ResetPassword
<1>11. ASSUME NEW w \in Requests, NEW x \in DOMAIN sessions, SignedIn(w, x) PROVE Resolves(s)
  BY <1>6, <1>7, <1>11 DEF SignedIn, Logout, RevokeSessions, ChangePassword
<1>12. ASSUME NEW w \in Requests, NEW x \in DOMAIN sessions, NEW y \in DOMAIN users,
              Administer(w, x, y)
       PROVE  Resolves(s)
  BY <1>6, <1>12 DEF Administer, ChangeStatus, ChangeRole
<1> QED  BY <1>3, <1>4, <1>5, <1>7, <1>8, <1>9, <1>10, <1>11, <1>12 DEF Next

\* While the requests that revoke sessions do not overlap one another, and the
\* cost of a hash is never raised, a cookie that works was opened with the
\* password the account has now, however sign-ins overlap a reset or a suspension
\* (authenticate, resolve_session and revoke_all_sessions of accounts/service.py).
THEOREM CookiesFollowPassword ==
    /\ EpochOps \subseteq Serial
    /\ ~ HashUpgrade
    /\ Spec
    => []SessionsFollowPassword
<1> SUFFICES ASSUME EpochOps \subseteq Serial, ~ HashUpgrade
             PROVE  Spec => []SessionsFollowPassword
  OBVIOUS
<1>1. SessionInv => SessionsFollowPassword  BY SessionInvFollows
<1>2. SessionInv /\ [Next]_vars => SessionInv'  BY SessionNext
<1> QED  BY <1>1, <1>2, SessionInvInit, PTL DEF Spec

\* Under the same serialisation a session that stopped working never works
\* again: not by the reactivation of its account, nor by a sign-in that
\* overlapped the revocation (resolve_session and revoke_all_sessions).
THEOREM RevokedForGood ==
    EpochOps \subseteq Serial /\ Spec => NeverRevived
<1> SUFFICES ASSUME EpochOps \subseteq Serial PROVE Spec => NeverRevived
  OBVIOUS
<1>1. SessionInv /\ [Next]_vars => SessionInv'  BY SessionNext
<1>2. SessionInv /\ [Next]_vars
      => [\A s \in DOMAIN sessions : Resolves(s)' => Resolves(s)]_vars
  BY StepRevivesNothing
<1> QED  BY <1>1, <1>2, SessionInvInit, PTL DEF Spec, NeverRevived

------------------------------------------------------------------------------
(***************************************************************************)
(* Reset links.  A request for one retires what it reads to be outstanding *)
(* and so must not overlap another; whatever else is in flight sends none  *)
(* and only uses links up.                                                 *)
(***************************************************************************)
Sends(f) == \E i \in DOMAIN f.token : f.token[i].purpose = "reset_password"

RetiresOthers(f) ==
    \A i \in DOMAIN f.token : Outstanding(f.token[i].user, "reset_password") \subseteq f.use

Retires(op, f) ==
    /\ Len(f.token) <= 1
    /\ op # "forgot" => ~ Sends(f)
    /\ op = "forgot" => RetiresOthers(f)

LinkInv ==
    /\ AdminInv
    /\ LatestLinkOnly
    /\ \A r, q \in inflight : r.op = "forgot" /\ q.op = "forgot" => r = q
    /\ \A r \in inflight : Retires(r.op, r.effect)

LEMMA BeginRetires ==
    ASSUME "forgot" \in Serial, LinkInv, AdminInv',
           NEW w, NEW op, NEW f, Begin(w, op, f), Retires(op, f)
    PROVE  LinkInv'
<1> DEFINE n == [by |-> w, op |-> op, effect |-> f]
<1>1. inflight' = inflight \cup {n} /\ tokens' = tokens  BY DEF Begin
<1>2. n.op = op /\ n.effect = f  OBVIOUS
<1> HIDE DEF n
<1>3. \A r \in inflight : ~ (op = "forgot" /\ r.op = "forgot")  BY DEF Begin
<1>4. (\A r, q \in inflight : r.op = "forgot" /\ q.op = "forgot" => r = q)'
  BY <1>1, <1>2, <1>3 DEF LinkInv
<1>5. \A o, g : Retires(o, g)' <=> Retires(o, g)
  BY <1>1 DEF Retires, Sends, RetiresOthers, Outstanding
<1>6. (\A r \in inflight : Retires(r.op, r.effect))'  BY <1>1, <1>2, <1>5 DEF LinkInv
<1>7. LatestLinkOnly'  BY <1>1 DEF LinkInv, LatestLinkOnly, Outstanding
<1> QED  BY <1>4, <1>6, <1>7 DEF LinkInv

\* Most requests send no link.
LEMMA NoLinkRetires ==
    ASSUME NEW op, NEW f, f.token = <<>>
    PROVE  Retires(op, f)
  BY DEF Retires, Sends, RetiresOthers

LEMMA OneToken ==
    ASSUME NEW e, NEW purpose
    PROVE  LET k == NewToken(e, purpose)
           IN  Len(k) = 1 /\ DOMAIN k = {1} /\ k[1].user = e /\ k[1].purpose = purpose
  BY DEF NewToken

LEMMA IssueRetires ==
    ASSUME NEW e, NEW op, NEW purpose, NEW f,
           f.token = NewToken(e, purpose),
           \/ purpose # "reset_password" /\ op # "forgot"
           \/ purpose = "reset_password" /\ op = "forgot" /\ f.use = Outstanding(e, purpose)
    PROVE  Retires(op, f)
<1>1. Len(f.token) = 1 /\ DOMAIN f.token = {1}
      /\ f.token[1].user = e /\ f.token[1].purpose = purpose
  BY OneToken
<1> QED  BY <1>1 DEF Retires, Sends, RetiresOthers

LEMMA VisitorRetires ==
    ASSUME "forgot" \in Serial, LinkInv, AdminInv', NEW w, NEW e, Visitor(w, e),
           ~ UNCHANGED vars
    PROVE  LinkInv'
<1>1. CASE FailedLogin(w, e)
  <2> DEFINE f == [NoEffect EXCEPT !.failed = {e}]
  <2>1. f.token = <<>>  BY DEF NoEffect
  <2>2. Begin(w, "login", f)  BY <1>1 DEF FailedLogin
  <2> HIDE DEF f
  <2> QED  BY <2>1, <2>2, NoLinkRetires, BeginRetires
<1>2. ASSUME NEW p, Signup(w, e, p) PROVE LinkInv'
  <2> DEFINE first == DOMAIN users = {} \/ e \in AdminEmails
             row == [role |-> IF first THEN "ADMIN" ELSE "USER", status |-> "ACTIVE",
                     verified |-> ~ RequireVerification, epoch |-> 0, hash |-> HashPassword(p)]
             f == [NoEffect EXCEPT !.created = [x \in {e} |-> row],
                                   !.token = NewToken(e, "verify_email")]
  <2>1. Begin(w, "signup", f)  BY <1>2 DEF Signup
  <2> HIDE DEF row
  <2>2. f.token = NewToken(e, "verify_email")  BY DEF NoEffect
  <2> HIDE DEF f
  <2>3. Retires("signup", f)  BY <2>2, IssueRetires
  <2> QED  BY <2>1, <2>3, BeginRetires
<1> QED  BY <1>1, <1>2 DEF Visitor, LoginLockedOut

LEMMA OwnerRetires ==
    ASSUME "forgot" \in Serial, LinkInv, AdminInv', NEW w, NEW e \in DOMAIN users,
           Owner(w, e)
    PROVE  LinkInv'
<1>1. ASSUME NEW op, NEW purpose, Begin(w, op, IssueToken(e, purpose)),
             \/ purpose # "reset_password" /\ op # "forgot"
             \/ purpose = "reset_password" /\ op = "forgot"
      PROVE  LinkInv'
  <2> DEFINE f == IssueToken(e, purpose)
  <2>1. f.token = NewToken(e, purpose) /\ f.use = Outstanding(e, purpose)
    BY DEF IssueToken, NoEffect
  <2>2. Begin(w, op, f)  BY <1>1
  <2> HIDE DEF f
  <2>3. Retires(op, f)  BY <1>1, <2>1, IssueRetires
  <2> QED  BY <2>2, <2>3, BeginRetires
<1>2. CASE Login(w, e)
  <2> DEFINE row == [users[e] EXCEPT !.hash.outdated = FALSE]
             session == [NoEffect EXCEPT !.session = NewSession(e, row)]
             f == IF row = users[e] THEN session
                  ELSE [session EXCEPT !.changed = Change(e, row)]
  <2>1. Begin(w, "login", f)  BY <1>2 DEF Login
  <2> HIDE DEF row
  <2>2. f.token = <<>>  BY DEF NoEffect
  <2> HIDE DEF f
  <2> QED  BY <2>1, <2>2, NoLinkRetires, BeginRetires
<1> QED
  BY <1>1, <1>2 DEF Owner, ResendVerification, LoginUnverified, RequestPasswordReset

LEMMA FollowRetires ==
    ASSUME "forgot" \in Serial, LinkInv, AdminInv', NEW w, NEW t \in DOMAIN tokens,
           Follow(w, t)
    PROVE  LinkInv'
<1> DEFINE e == tokens[t].user
<1>1. CASE VerifyEmail(w, t)
  <2> DEFINE row == [users[e] EXCEPT !.verified = TRUE]
             f == [NoEffect EXCEPT !.changed = Change(e, row), !.use = {t}]
  <2>1. Begin(w, "verify", f)  BY <1>1 DEF VerifyEmail
  <2> HIDE DEF row
  <2>2. f.token = <<>>  BY DEF NoEffect
  <2> HIDE DEF f
  <2> QED  BY <2>1, <2>2, NoLinkRetires, BeginRetires
<1>2. CASE ResetRejected(w, t)
  <2> DEFINE f == [NoEffect EXCEPT !.use = {t}]
  <2>1. Begin(w, "reset", f)  BY <1>2 DEF ResetRejected
  <2>2. f.token = <<>>  BY DEF NoEffect
  <2> HIDE DEF f
  <2> QED  BY <2>1, <2>2, NoLinkRetires, BeginRetires
<1>3. ASSUME NEW p, ResetPassword(w, t, p) PROVE LinkInv'
  <2> DEFINE row == [users[e] EXCEPT !.hash = HashPassword(p), !.verified = TRUE]
             f == [RevokeAllSessions(e, row) EXCEPT !.use = {t}]
  <2>1. Begin(w, "reset", f)  BY <1>3 DEF ResetPassword
  <2> HIDE DEF row
  <2>2. f.token = <<>>  BY DEF RevokeAllSessions, NoEffect
  <2> HIDE DEF f
  <2> QED  BY <2>1, <2>2, NoLinkRetires, BeginRetires
<1> QED  BY <1>1, <1>2, <1>3 DEF Follow

LEMMA SignedInRetires ==
    ASSUME "forgot" \in Serial, LinkInv, AdminInv', NEW w, NEW s \in DOMAIN sessions,
           SignedIn(w, s), ~ UNCHANGED vars
    PROVE  LinkInv'
<1> DEFINE e == sessions[s].user
<1>1. CASE Logout(w, s)
  <2> DEFINE f == [NoEffect EXCEPT !.revoke = {s}]
  <2>1. Begin(w, "logout", f)  BY <1>1 DEF Logout
  <2>2. f.token = <<>>  BY DEF NoEffect
  <2> HIDE DEF f
  <2> QED  BY <2>1, <2>2, NoLinkRetires, BeginRetires
<1>2. CASE RevokeSessions(w, s)
  <2> DEFINE f == RevokeAllSessions(e, users[e])
  <2>1. Begin(w, "revoke", f)  BY <1>2 DEF RevokeSessions
  <2>2. f.token = <<>>  BY DEF RevokeAllSessions, NoEffect
  <2> HIDE DEF f
  <2> QED  BY <2>1, <2>2, NoLinkRetires, BeginRetires
<1> QED  BY <1>1, <1>2 DEF SignedIn, ChangePassword

LEMMA AdministerRetires ==
    ASSUME "forgot" \in Serial, LinkInv, AdminInv', NEW w, NEW s \in DOMAIN sessions,
           NEW e \in DOMAIN users, Administer(w, s, e)
    PROVE  LinkInv'
<1>1. ASSUME NEW role, ChangeRole(w, s, e, role) PROVE LinkInv'
  <2> DEFINE f == [NoEffect EXCEPT !.changed = Change(e, [users[e] EXCEPT !.role = role]),
                                   !.actor = {sessions[s].user}]
  <2>1. Begin(w, "role", f)  BY <1>1 DEF ChangeRole
  <2>2. f.token = <<>>  BY DEF NoEffect
  <2> HIDE DEF f
  <2> QED  BY <2>1, <2>2, NoLinkRetires, BeginRetires
<1>2. ASSUME NEW status, ChangeStatus(w, s, e, status) PROVE LinkInv'
  <2> DEFINE f == [SetAccountStatus(e, status) EXCEPT !.actor = {sessions[s].user}]
  <2>1. Begin(w, "status", f)  BY <1>2 DEF ChangeStatus
  <2>2. f.token = <<>>  BY DEF SetAccountStatus, RevokeAllSessions, NoEffect
  <2> HIDE DEF f
  <2> QED  BY <2>1, <2>2, NoLinkRetires, BeginRetires
<1> QED  BY <1>1, <1>2 DEF Administer

\* The rows of links a commit leaves.
LEMMA CommitLinks ==
    ASSUME AdminInv, NEW r \in inflight, ~ Taken(r.effect), Write(r.effect)
    PROVE  /\ DOMAIN tokens = 1 .. Len(tokens) /\ Len(tokens) \in Nat
           /\ DOMAIN r.effect.token = 1 .. Len(r.effect.token) /\ Len(r.effect.token) \in Nat
           /\ DOMAIN tokens' = 1 .. Len(tokens) + Len(r.effect.token)
           /\ \A t \in DOMAIN tokens :
                 /\ tokens'[t].user = tokens[t].user
                 /\ tokens'[t].purpose = tokens[t].purpose
                 /\ ~ tokens'[t].used => ~ tokens[t].used /\ t \notin r.effect.use
           /\ \A t \in DOMAIN tokens' \ DOMAIN tokens :
                 tokens'[t] = r.effect.token[t - Len(tokens)]
<1> DEFINE f == r.effect
           old == [t \in DOMAIN tokens |-> [tokens[t] EXCEPT !.used = @ \/ t \in f.use]]
<1>1. tokens' = old \o f.token  BY DEF Write
<1>2. f.token \in Seq(OneTimeToken)  BY DEF AdminInv, TypeOK, Effects
<1>3. Len(tokens) \in Nat /\ DOMAIN tokens = 1 .. Len(tokens)  BY DEF AdminInv, TypeOK
<1>4. DOMAIN old = 1 .. Len(tokens)  BY <1>3
<1>5. old \in Seq({old[t] : t \in 1 .. Len(tokens)}) /\ Len(old) = Len(tokens)
  BY <1>3, <1>4
<1>6. \A t \in DOMAIN tokens :
          /\ old[t].user = tokens[t].user /\ old[t].purpose = tokens[t].purpose
          /\ ~ old[t].used => ~ tokens[t].used /\ t \notin f.use
  <2>1. \A t \in DOMAIN tokens : tokens[t] \in OneTimeToken  BY DEF AdminInv, TypeOK
  <2> QED  BY <2>1 DEF OneTimeToken
<1> HIDE DEF old, f
<1>7. Len(f.token) \in Nat /\ DOMAIN f.token = 1 .. Len(f.token)
      /\ DOMAIN tokens' = 1 .. Len(tokens) + Len(f.token)
  <2>1. DOMAIN (old \o f.token) = 1 .. Len(old) + Len(f.token)
        /\ Len(f.token) \in Nat /\ DOMAIN f.token = 1 .. Len(f.token)
    <3>1. PICK S : old \in Seq(S)  BY <1>5
    <3> DEFINE new == f.token
    <3>2. new \in Seq(OneTimeToken)  BY <1>2
    <3> HIDE DEF new
    <3>3. DOMAIN (old \o new) = 1 .. Len(old) + Len(new)
          /\ Len(new) \in Nat /\ DOMAIN new = 1 .. Len(new)
      BY <3>1, <3>2, ConcatIndices
    <3> QED  BY <3>3 DEF new
  <2> QED  BY <1>1, <1>5, <2>1
<1>8. \A t \in 1 .. Len(tokens) + Len(f.token) :
          tokens'[t] = IF t <= Len(tokens) THEN old[t] ELSE f.token[t - Len(tokens)]
  BY <1>1, <1>2, <1>5, ConcatIndices
<1>9. \A t \in DOMAIN tokens : tokens'[t] = old[t]  BY <1>3, <1>7, <1>8
<1>10. \A t \in DOMAIN tokens' \ DOMAIN tokens : tokens'[t] = f.token[t - Len(tokens)]
  BY <1>3, <1>7, <1>8
<1>11. \A t \in DOMAIN tokens :
          /\ tokens'[t].user = tokens[t].user /\ tokens'[t].purpose = tokens[t].purpose
          /\ ~ tokens'[t].used => ~ tokens[t].used /\ t \notin f.use
  BY <1>6, <1>9, Zenon
<1> QED  BY <1>3, <1>7, <1>10, <1>11, Zenon DEF f

LEMMA CommitRetires ==
    ASSUME LinkInv, AdminInv', NEW w, Commit(w)
    PROVE  LinkInv'
<1>1. PICK r \in inflight :
        /\ IF Taken(r.effect) THEN UNCHANGED <<users, sessions, tokens, failures>>
           ELSE Write(r.effect)
        /\ inflight' = inflight \ {r}
  BY DEF Commit
<1>2. (\A q, x \in inflight : q.op = "forgot" /\ x.op = "forgot" => q = x)'
  BY <1>1 DEF LinkInv
<1>3. CASE Taken(r.effect)
  <2>1. tokens' = tokens  BY <1>1, <1>3
  <2>2. (\A q \in inflight : Retires(q.op, q.effect))'
    BY <1>1, <2>1 DEF LinkInv, Retires, Sends, RetiresOthers, Outstanding
  <2>3. LatestLinkOnly'  BY <2>1 DEF LinkInv, LatestLinkOnly, Outstanding
  <2> QED  BY <1>2, <2>2, <2>3 DEF LinkInv
<1>4. CASE ~ Taken(r.effect)
  <2> DEFINE f == r.effect
             k == Len(tokens)
             m == Len(f.token)
  <2>1. Retires(r.op, f)  BY DEF LinkInv
  <2>2. /\ DOMAIN tokens = 1 .. k /\ k \in Nat
        /\ DOMAIN f.token = 1 .. m /\ m \in Nat
        /\ DOMAIN tokens' = 1 .. k + m
        /\ \A t \in DOMAIN tokens :
              /\ tokens'[t].user = tokens[t].user
              /\ tokens'[t].purpose = tokens[t].purpose
              /\ ~ tokens'[t].used => ~ tokens[t].used /\ t \notin f.use
        /\ \A t \in DOMAIN tokens' \ DOMAIN tokens : tokens'[t] = f.token[t - k]
    BY <1>1, <1>4, CommitLinks DEF LinkInv
  <2>a. m <= 1  BY <2>1 DEF Retires
  <2> HIDE DEF f, k, m
  <2>3. m \in {0, 1}  BY <2>2, <2>a
  <2>4. \A t \in DOMAIN tokens' \ DOMAIN tokens :
            t = k + 1 /\ 1 \in DOMAIN f.token /\ tokens'[t] = f.token[1]
    BY <2>2, <2>3
  <2>5. LatestLinkOnly'
    <3> SUFFICES ASSUME NEW t \in DOMAIN tokens', tokens'[t].purpose = "reset_password",
                        NEW x \in DOMAIN tokens', tokens'[x].user = tokens'[t].user,
                        tokens'[x].purpose = "reset_password", ~ tokens'[x].used
                 PROVE  x >= t
      BY DEF LatestLinkOnly, Outstanding
    <3>1. CASE x \notin DOMAIN tokens  BY <2>2, <2>3, <2>4, <3>1
    <3>2. CASE x \in DOMAIN tokens /\ t \in DOMAIN tokens
      <4>1. x \in Outstanding(tokens[t].user, "reset_password")
        BY <2>2, <3>2 DEF Outstanding
      <4>2. tokens[t].purpose = "reset_password"  BY <2>2, <3>2
      <4> QED  BY <3>2, <4>1, <4>2 DEF LinkInv, LatestLinkOnly
    <3>3. CASE x \in DOMAIN tokens /\ t \notin DOMAIN tokens
      <4>1. 1 \in DOMAIN f.token /\ f.token[1].purpose = "reset_password"
            /\ f.token[1].user = tokens'[x].user
        BY <2>4, <3>3
      <4>2. RetiresOthers(f)  BY <2>1, <4>1 DEF Retires, Sends
      <4>3. x \in Outstanding(f.token[1].user, "reset_password")
        BY <2>2, <3>3, <4>1 DEF Outstanding
      <4>4. x \in f.use  BY <4>1, <4>2, <4>3 DEF RetiresOthers
      <4> QED  BY <2>2, <3>3, <4>4
    <3> QED  BY <3>1, <3>2, <3>3
  <2>6. ASSUME NEW q \in inflight, q # r PROVE Retires(q.op, q.effect)'
    <3> DEFINE g == q.effect
    <3>1. Retires(q.op, g)  BY DEF LinkInv
    <3> HIDE DEF g
    <3>2. CASE q.op # "forgot"
      <4>1. Retires(q.op, g)'  BY <3>1, <3>2 DEF Retires, Sends
      <4> QED  BY <4>1 DEF g
    <3>3. CASE q.op = "forgot"
      <4>1. r.op # "forgot"  BY <2>6, <3>3 DEF LinkInv
      <4>2. ~ Sends(f)  BY <2>1, <4>1 DEF Retires
      <4>3. ASSUME NEW u PROVE Outstanding(u, "reset_password")'
                                 \subseteq Outstanding(u, "reset_password")
        BY <2>2, <2>4, <4>2 DEF Outstanding, Sends
      <4>4. RetiresOthers(g) /\ Len(g.token) <= 1  BY <3>1, <3>3 DEF Retires
      <4>5. RetiresOthers(g)'
        <5> SUFFICES ASSUME NEW i \in DOMAIN g.token
                     PROVE  Outstanding(g.token[i].user, "reset_password")' \subseteq g.use
          BY DEF RetiresOthers
        <5>1. PICK u : u = g.token[i].user  OBVIOUS
        <5>2. Outstanding(u, "reset_password")' \subseteq g.use
          BY <4>3, <4>4, <5>1 DEF RetiresOthers
        <5> QED  BY <5>1, <5>2
      <4>6. Retires(q.op, g)'  BY <3>3, <4>4, <4>5 DEF Retires
      <4> QED  BY <4>6 DEF g
    <3> QED  BY <3>2, <3>3
  <2>7. (\A q \in inflight : Retires(q.op, q.effect))'  BY <1>1, <2>6
  <2> QED  BY <1>2, <2>5, <2>7 DEF LinkInv
<1> QED  BY <1>3, <1>4

LEMMA LinkInvInit == Init => LinkInv
  BY InitSound DEF Init, LinkInv, LatestLinkOnly

LEMMA LinkNext ==
    ASSUME "forgot" \in Serial, LinkInv, [Next]_vars
    PROVE  LinkInv'
<1>1. AdminInv'  BY NextKeeps DEF LinkInv
<1>2. "forgot" \in Serial  OBVIOUS
<1>3. CASE UNCHANGED <<tokens, inflight>>
  <2>1. LatestLinkOnly'  BY <1>3 DEF LinkInv, LatestLinkOnly, Outstanding
  <2>2. (\A q \in inflight : Retires(q.op, q.effect))'
    BY <1>3 DEF LinkInv, Retires, Sends, RetiresOthers, Outstanding
  <2> QED  BY <1>1, <1>3, <2>1, <2>2 DEF LinkInv
<1>4. ASSUME NEW w \in Requests, NEW e \in Emails, Visitor(w, e) PROVE LinkInv'
  BY <1>1, <1>2, <1>3, <1>4, VisitorRetires DEF vars
<1>5. ASSUME NEW w \in Requests, NEW e \in DOMAIN users, Owner(w, e) PROVE LinkInv'
  BY <1>1, <1>2, <1>5, OwnerRetires
<1>6. ASSUME NEW w \in Requests, NEW t \in DOMAIN tokens, Follow(w, t) PROVE LinkInv'
  BY <1>1, <1>2, <1>6, FollowRetires
<1>7. ASSUME NEW w \in Requests, NEW s \in DOMAIN sessions, SignedIn(w, s) PROVE LinkInv'
  BY <1>1, <1>2, <1>3, <1>7, SignedInRetires DEF vars
<1>8. ASSUME NEW w \in Requests, NEW s \in DOMAIN sessions, NEW e \in DOMAIN users,
             Administer(w, s, e)
      PROVE  LinkInv'
  BY <1>1, <1>2, <1>8, AdministerRetires
<1>9. ASSUME NEW w \in Requests, Commit(w) PROVE LinkInv'
  BY <1>1, <1>9, CommitRetires
<1>10. CASE Tick \/ RaiseCost  BY <1>3, <1>10 DEF Tick, RaiseCost
<1>11. CASE UNCHANGED vars  BY <1>3, <1>11 DEF vars
<1> QED  BY <1>4, <1>5, <1>6, <1>7, <1>8, <1>9, <1>10, <1>11 DEF Next

\* While requests for a reset link do not overlap one another, of the links sent
\* to a user only the latest can work, whatever uses links up or sends links of
\* the other kind meanwhile (issue_token of accounts/service.py).
THEOREM OnlyLatestWorks ==
    "forgot" \in Serial /\ Spec => []LatestLinkOnly
<1> SUFFICES ASSUME "forgot" \in Serial
             PROVE  Spec => []LatestLinkOnly
  OBVIOUS
<1>1. LinkInv => LatestLinkOnly  BY DEF LinkInv
<1>2. LinkInv /\ [Next]_vars => LinkInv'  BY LinkNext
<1> QED  BY <1>1, <1>2, LinkInvInit, PTL DEF Spec

------------------------------------------------------------------------------
(***************************************************************************)
(* Failed sign-ins.  One that was let through and is not yet recorded is   *)
(* as good as recorded; there are no more of them than threads.            *)
(***************************************************************************)
Guessing(e) == {r \in inflight : e \in r.effect.failed}

Guesses(e) == Cardinality(RecentFailures(e)) + Cardinality(Guessing(e))

FailInv ==
    /\ now \in Nat
    /\ failures \in [Emails -> Seq(Nat)]
    /\ \A r \in inflight : r.by \in Requests
    /\ \A r, q \in inflight : r.by = q.by => r = q
    /\ \A e \in Emails : Guesses(e) < LoginMaxAttempts + Cardinality(Requests)

\* Each thread serves one request.
LEMMA ThreadsBound ==
    ASSUME NEW S, NEW T, IsFiniteSet(T),
           \A r \in S : r.by \in T, \A r, q \in S : r.by = q.by => r = q
    PROVE  IsFiniteSet(S) /\ Cardinality(S) \in Nat /\ Cardinality(S) <= Cardinality(T)
<1> DEFINE F == [r \in S |-> r.by]
<1>1. F \in Injection(S, T)  BY DEF Injection, IsInjective
<1> HIDE DEF F
<1>2. IsFiniteSet(S) /\ Cardinality(S) <= Cardinality(T)  BY <1>1, FS_Injection
<1> QED  BY <1>2, FS_CardinalityType

LEMMA GuessingFinite ==
    ASSUME FailInv, IsFiniteSet(Requests), NEW e
    PROVE  IsFiniteSet(Guessing(e)) /\ Cardinality(Guessing(e)) \in Nat
<1>1. IsFiniteSet(inflight)  BY ThreadsBound DEF FailInv
<1>2. Guessing(e) \subseteq inflight  BY DEF Guessing
<1> QED  BY <1>1, <1>2, FS_Subset, FS_CardinalityType

LEMMA RecentFinite ==
    ASSUME FailInv, NEW e \in Emails
    PROVE  IsFiniteSet(RecentFailures(e)) /\ Cardinality(RecentFailures(e)) \in Nat
<1>1. failures[e] \in Seq(Nat)  BY DEF FailInv
<1>2. DOMAIN failures[e] = 1 .. Len(failures[e]) /\ Len(failures[e]) \in Nat
  BY <1>1, LenProperties
<1>3. IsFiniteSet(DOMAIN failures[e])  BY <1>2, FS_Interval
<1>4. RecentFailures(e) \subseteq DOMAIN failures[e]  BY DEF RecentFailures
<1> QED  BY <1>3, <1>4, FS_Subset, FS_CardinalityType

\* Any other request begins.
LEMMA BeginFails ==
    ASSUME FailInv, NEW w \in Requests, NEW op, NEW f, Begin(w, op, f), f.failed = {}
    PROVE  FailInv'
<1> DEFINE n == [by |-> w, op |-> op, effect |-> f]
<1>1. inflight' = inflight \cup {n} /\ failures' = failures /\ now' = now  BY DEF Begin
<1>2. n.by = w /\ n.effect = f  OBVIOUS
<1>3. \A r \in inflight : r.by # w  BY DEF Begin
<1> HIDE DEF n
<1>4. \A e \in Emails : Guessing(e)' = Guessing(e)  BY <1>1, <1>2 DEF Guessing
<1>5. \A e \in Emails : RecentFailures(e)' = RecentFailures(e)
  BY <1>1 DEF RecentFailures
<1>6. \A e \in Emails : Guesses(e)' = Guesses(e)  BY <1>4, <1>5 DEF Guesses
<1> QED  BY <1>1, <1>2, <1>3, <1>6 DEF FailInv

LEMMA FailedLoginFails ==
    ASSUME FailInv, IsFiniteSet(Requests), NEW w \in Requests, NEW e \in Emails,
           FailedLogin(w, e)
    PROVE  FailInv'
<1> DEFINE f == [NoEffect EXCEPT !.failed = {e}]
           n == [by |-> w, op |-> "login", effect |-> f]
<1>0. f.failed = {e}  BY DEF NoEffect
<1>1. Begin(w, "login", f) /\ Cardinality(RecentFailures(e)) < LoginMaxAttempts
  <2>1. ~ (Cardinality(RecentFailures(e)) >= LoginMaxAttempts)
    BY DEF FailedLogin, IsLockedOut
  <2> QED  BY <2>1, RecentFinite, AccountsAssumption DEF FailedLogin
<1> HIDE DEF f
<1>2. inflight' = inflight \cup {n} /\ failures' = failures /\ now' = now  BY <1>1 DEF Begin
<1>3. n.by = w /\ n.effect = f  OBVIOUS
<1>4. \A r \in inflight : r.by # w  BY <1>1 DEF Begin
<1> HIDE DEF n
<1>5. /\ \A r \in inflight' : r.by \in Requests
      /\ \A r, q \in inflight' : r.by = q.by => r = q
  BY <1>2, <1>3, <1>4 DEF FailInv
<1>6. \A x \in Emails : RecentFailures(x)' = RecentFailures(x)
  BY <1>2 DEF RecentFailures
<1>7. ASSUME NEW x \in Emails
      PROVE  Guesses(x)' < LoginMaxAttempts + Cardinality(Requests)
  <2>1. CASE x # e
    <3>1. Guessing(x)' = Guessing(x)  BY <1>0, <1>2, <1>3, <2>1 DEF Guessing
    <3> QED  BY <1>6, <3>1 DEF FailInv, Guesses
  <2>2. CASE x = e
    <3>1. IsFiniteSet(inflight') /\ Cardinality(inflight') <= Cardinality(Requests)
          /\ Cardinality(inflight') \in Nat
      BY <1>5, ThreadsBound
    <3>2. Guessing(x)' \subseteq inflight'  BY DEF Guessing
    <3>3. Cardinality(Guessing(x)') \in Nat
          /\ Cardinality(Guessing(x)') <= Cardinality(inflight')
      BY <3>1, <3>2, FS_Subset, FS_CardinalityType
    <3>4. Cardinality(Requests) \in Nat  BY FS_CardinalityType
    <3>5. Cardinality(RecentFailures(x)) \in Nat /\ LoginMaxAttempts \in Nat
      BY RecentFinite, AccountsAssumption
    <3>6. Cardinality(Guessing(x)') <= Cardinality(Requests)  BY <3>1, <3>3, <3>4
    <3>7. Cardinality(RecentFailures(x)) < LoginMaxAttempts  BY <1>1, <2>2
    <3>8. Guesses(x)' = Cardinality(RecentFailures(x)) + Cardinality(Guessing(x)')
      BY <1>6 DEF Guesses
    <3> QED  BY <3>3, <3>4, <3>5, <3>6, <3>7, <3>8
  <2> QED  BY <2>1, <2>2
<1> QED  BY <1>2, <1>5, <1>7 DEF FailInv

LEMMA CommitFails ==
    ASSUME FailInv, IsFiniteSet(Requests), NEW w, Commit(w)
    PROVE  FailInv'
<1>1. PICK r \in inflight :
        /\ IF Taken(r.effect) THEN UNCHANGED <<users, sessions, tokens, failures>>
           ELSE Write(r.effect)
        /\ inflight' = inflight \ {r}
        /\ now' = now
  BY DEF Commit
<1>2. Cardinality(Requests) \in Nat /\ LoginMaxAttempts \in Nat /\ now \in Nat
  BY FS_CardinalityType, AccountsAssumption DEF FailInv
<1>3. failures' \in [Emails -> Seq(Nat)]
  <2>1. CASE Taken(r.effect)  BY <1>1, <2>1 DEF FailInv
  <2>2. CASE ~ Taken(r.effect)
    <3>1. failures' = [e \in Emails |-> IF e \in r.effect.failed
                                        THEN Append(failures[e], now) ELSE failures[e]]
      BY <1>1, <2>2 DEF Write
    <3> QED  BY <1>2, <3>1 DEF FailInv
  <2> QED  BY <2>1, <2>2
<1>4. ASSUME NEW e \in Emails
      PROVE  Guesses(e)' < LoginMaxAttempts + Cardinality(Requests)
  <2>1. /\ IsFiniteSet(RecentFailures(e)) /\ Cardinality(RecentFailures(e)) \in Nat
        /\ IsFiniteSet(Guessing(e)) /\ Cardinality(Guessing(e)) \in Nat
    BY RecentFinite, GuessingFinite
  <2>2. Guessing(e)' = Guessing(e) \ {r}  BY <1>1 DEF Guessing
  <2>3. Cardinality(RecentFailures(e)) + Cardinality(Guessing(e))
            < LoginMaxAttempts + Cardinality(Requests)
    BY DEF FailInv, Guesses
  <2>4. /\ Cardinality(Guessing(e)') \in Nat
        /\ Cardinality(Guessing(e)') =
              IF r \in Guessing(e) THEN Cardinality(Guessing(e)) - 1
              ELSE Cardinality(Guessing(e))
    BY <2>1, <2>2, FS_RemoveElement, FS_CardinalityType
  <2>5. CASE failures'[e] = failures[e]
    <3>1. RecentFailures(e)' = RecentFailures(e)  BY <1>1, <2>5 DEF RecentFailures
    <3> QED  BY <1>2, <2>1, <2>3, <2>4, <3>1 DEF Guesses
  <2>6. CASE failures'[e] # failures[e]
    <3>1. e \in r.effect.failed /\ failures'[e] = Append(failures[e], now)
      BY <1>1, <2>6 DEF Write
    <3>2. failures[e] \in Seq(Nat)  BY DEF FailInv
    <3> DEFINE last == Len(failures[e]) + 1
    <3>3. RecentFailures(e)' \subseteq RecentFailures(e) \cup {last}
      <4>1. /\ DOMAIN failures'[e] = 1 .. last
            /\ DOMAIN failures[e] = 1 .. Len(failures[e]) /\ Len(failures[e]) \in Nat
            /\ \A i \in 1 .. Len(failures[e]) : failures'[e][i] = failures[e][i]
        BY <1>2, <3>1, <3>2
      <4> QED  BY <1>1, <4>1 DEF RecentFailures
    <3> HIDE DEF last
    <3>4. /\ IsFiniteSet(RecentFailures(e) \cup {last})
          /\ Cardinality(RecentFailures(e) \cup {last}) <= Cardinality(RecentFailures(e)) + 1
          /\ Cardinality(RecentFailures(e) \cup {last}) \in Nat
      <4> DEFINE R == RecentFailures(e)
      <4>1. IsFiniteSet(R) /\ Cardinality(R) \in Nat  BY <2>1
      <4> HIDE DEF R
      <4>2. /\ IsFiniteSet(R \cup {last})
            /\ Cardinality(R \cup {last}) \in {Cardinality(R), Cardinality(R) + 1}
        BY <4>1, FS_AddElement
      <4> QED  BY <4>1, <4>2 DEF R
    <3>5. /\ Cardinality(RecentFailures(e)') \in Nat
          /\ Cardinality(RecentFailures(e)') <= Cardinality(RecentFailures(e) \cup {last})
      BY <3>3, <3>4, FS_Subset, FS_CardinalityType
    <3>6. Cardinality(RecentFailures(e)') <= Cardinality(RecentFailures(e)) + 1
      BY <2>1, <3>4, <3>5
    <3>7. r \in Guessing(e)  BY <3>1 DEF Guessing
    <3>8. Cardinality(Guessing(e)') = Cardinality(Guessing(e)) - 1  BY <2>4, <3>7
    <3> QED  BY <1>2, <2>1, <2>3, <2>4, <3>5, <3>6, <3>8 DEF Guesses
  <2> QED  BY <2>5, <2>6
<1>5. /\ \A q \in inflight' : q.by \in Requests
      /\ \A q, x \in inflight' : q.by = x.by => q = x
  BY <1>1 DEF FailInv
<1> QED  BY <1>1, <1>2, <1>3, <1>4, <1>5 DEF FailInv

LEMMA TickFails ==
    ASSUME FailInv, IsFiniteSet(Requests), Tick
    PROVE  FailInv'
<1>1. now' = now + 1 /\ failures' = failures /\ inflight' = inflight /\ LoginWindow \in Nat
  BY AccountsAssumption DEF Tick
<1>2. ASSUME NEW e \in Emails
      PROVE  Guesses(e)' < LoginMaxAttempts + Cardinality(Requests)
  <2>1. RecentFailures(e)' \subseteq RecentFailures(e)
    <3>1. \A i \in DOMAIN failures[e] : failures[e][i] \in Nat  BY DEF FailInv
    <3> QED  BY <1>1, <3>1 DEF RecentFailures, FailInv
  <2>2. /\ Cardinality(RecentFailures(e)') \in Nat
        /\ Cardinality(RecentFailures(e)') <= Cardinality(RecentFailures(e))
        /\ Cardinality(RecentFailures(e)) \in Nat
    BY <2>1, RecentFinite, FS_Subset, FS_CardinalityType
  <2>3. Guessing(e) = {} /\ Guessing(e)' = {}  BY DEF Tick, Guessing
  <2>4. Cardinality({}) = 0  BY FS_EmptySet
  <2>5. Cardinality(RecentFailures(e)) + 0 < LoginMaxAttempts + Cardinality(Requests)
    BY <2>3, <2>4 DEF FailInv, Guesses
  <2>6. Guesses(e)' = Cardinality(RecentFailures(e)') + 0  BY <2>3, <2>4 DEF Guesses
  <2>7. LoginMaxAttempts \in Nat /\ Cardinality(Requests) \in Nat
    BY FS_CardinalityType, AccountsAssumption
  <2> QED  BY <2>2, <2>5, <2>6, <2>7
<1> QED  BY <1>1, <1>2 DEF FailInv

\* Nothing is failed by a request that does not say so.
LEMMA OtherEffects ==
    /\ \A u : [NoEffect EXCEPT !.use = u].failed = {}
    /\ \A s : [NoEffect EXCEPT !.revoke = s].failed = {}
    /\ \A c : [NoEffect EXCEPT !.changed = c].failed = {}
    /\ \A s : [NoEffect EXCEPT !.session = s].failed = {}
    /\ \A c, s : [[NoEffect EXCEPT !.session = s] EXCEPT !.changed = c].failed = {}
    /\ \A c, k : [NoEffect EXCEPT !.created = c, !.token = k].failed = {}
    /\ \A c, u : [NoEffect EXCEPT !.changed = c, !.use = u].failed = {}
    /\ \A e, purpose : IssueToken(e, purpose).failed = {}
    /\ \A e, row : RevokeAllSessions(e, row).failed = {}
    /\ \A e, row, u : [RevokeAllSessions(e, row) EXCEPT !.use = u].failed = {}
    /\ \A c, a : [NoEffect EXCEPT !.changed = c, !.actor = a].failed = {}
    /\ \A e, status, a : [SetAccountStatus(e, status) EXCEPT !.actor = a].failed = {}
  BY DEF NoEffect, IssueToken, RevokeAllSessions, SetAccountStatus

LEMMA RoutesFail ==
    ASSUME FailInv, NEW w \in Requests, ~ UNCHANGED vars,
           \/ \E e, p : Signup(w, e, p)
           \/ \E e : Owner(w, e)
           \/ \E t : Follow(w, t)
           \/ \E s : SignedIn(w, s)
           \/ \E s, e : Administer(w, s, e)
    PROVE  FailInv'
<1>0. \A op, f : Begin(w, op, f) /\ f.failed = {} => FailInv'  BY BeginFails
<1>1. ASSUME NEW e, NEW p, Signup(w, e, p) PROVE FailInv'
  BY <1>0, <1>1, OtherEffects, Zenon DEF Signup
<1>2. ASSUME NEW e, Owner(w, e) PROVE FailInv'
  <2>1. CASE Login(w, e)
    <3> DEFINE row == [users[e] EXCEPT !.hash.outdated = FALSE]
               session == [NoEffect EXCEPT !.session = NewSession(e, row)]
               f == IF row = users[e] THEN session
                    ELSE [session EXCEPT !.changed = Change(e, row)]
    <3>1. Begin(w, "login", f)  BY <2>1 DEF Login
    <3> HIDE DEF row
    <3>2. f.failed = {}  BY DEF NoEffect
    <3> HIDE DEF f
    <3> QED  BY <1>0, <3>1, <3>2
  <2>2. CASE ResendVerification(w, e)
    BY <1>0, <2>2, OtherEffects, Zenon DEF ResendVerification
  <2>3. CASE LoginUnverified(w, e)
    BY <1>0, <2>3, OtherEffects, Zenon DEF LoginUnverified
  <2>4. CASE RequestPasswordReset(w, e)
    BY <1>0, <2>4, OtherEffects, Zenon DEF RequestPasswordReset
  <2> QED  BY <1>2, <2>1, <2>2, <2>3, <2>4 DEF Owner
<1>3. ASSUME NEW t, Follow(w, t) PROVE FailInv'
  <2>1. CASE VerifyEmail(w, t)  BY <1>0, <2>1, OtherEffects, Zenon DEF VerifyEmail
  <2>2. CASE ResetRejected(w, t)  BY <1>0, <2>2, OtherEffects, Zenon DEF ResetRejected
  <2>3. ASSUME NEW p, ResetPassword(w, t, p) PROVE FailInv'
    BY <1>0, <2>3, OtherEffects, Zenon DEF ResetPassword
  <2> QED  BY <1>3, <2>1, <2>2, <2>3 DEF Follow
<1>4. ASSUME NEW s, SignedIn(w, s) PROVE FailInv'
  <2>1. CASE Logout(w, s)  BY <1>0, <2>1, OtherEffects, Zenon DEF Logout
  <2>2. CASE RevokeSessions(w, s)  BY <1>0, <2>2, OtherEffects, Zenon DEF RevokeSessions
  <2> QED  BY <1>4, <2>1, <2>2 DEF SignedIn, ChangePassword
<1>5. ASSUME NEW s, NEW e, Administer(w, s, e) PROVE FailInv'
  <2>1. ASSUME NEW status, ChangeStatus(w, s, e, status) PROVE FailInv'
    BY <1>0, <2>1, OtherEffects, Zenon DEF ChangeStatus
  <2>2. ASSUME NEW role, ChangeRole(w, s, e, role) PROVE FailInv'
    BY <1>0, <2>2, OtherEffects, Zenon DEF ChangeRole
  <2> QED  BY <1>5, <2>1, <2>2 DEF Administer
<1> QED  BY <1>1, <1>2, <1>3, <1>4, <1>5

LEMMA FailNext ==
    ASSUME IsFiniteSet(Requests), FailInv, [Next]_vars
    PROVE  FailInv'
<1>1. CASE UNCHANGED <<now, failures, inflight>>
  <2>1. \A e \in Emails : Guesses(e)' = Guesses(e)
    BY <1>1 DEF Guesses, Guessing, RecentFailures
  <2> QED  BY <1>1, <2>1 DEF FailInv
<1>2. CASE RaiseCost \/ UNCHANGED vars  BY <1>1, <1>2 DEF RaiseCost, vars
<1>3. ASSUME NEW w \in Requests, NEW e \in Emails, Visitor(w, e) PROVE FailInv'
  BY <1>1, <1>2, <1>3, FailedLoginFails, RoutesFail DEF Visitor, LoginLockedOut
<1>4. ASSUME NEW w \in Requests, Commit(w) PROVE FailInv'
  BY <1>4, CommitFails
<1>5. CASE Tick  BY <1>5, TickFails
<1>6. ASSUME NEW w \in Requests,
             \/ \E e : Owner(w, e)
             \/ \E t : Follow(w, t)
             \/ \E s : SignedIn(w, s)
             \/ \E s, e : Administer(w, s, e)
      PROVE  FailInv'
  BY <1>2, <1>6, RoutesFail
<1> QED  BY <1>2, <1>3, <1>4, <1>5, <1>6 DEF Next

LEMMA FailInvInit ==
    ASSUME IsFiniteSet(Requests), Requests # {}, Init
    PROVE  FailInv
<1>1. \A e \in Emails : RecentFailures(e) = {} /\ Guessing(e) = {}
  BY DEF Init, RecentFailures, Guessing
<1>2. Cardinality(Requests) \in Nat /\ Cardinality(Requests) # 0
  BY FS_CardinalityType, FS_EmptySet
<1>3. \A e \in Emails : Guesses(e) = 0  BY <1>1, FS_EmptySet DEF Guesses
<1>4. 0 < LoginMaxAttempts + Cardinality(Requests)  BY <1>2, AccountsAssumption
<1> QED  BY <1>3, <1>4 DEF Init, FailInv

\* Sign-ins that check the count of failures before they add their own exceed the
\* limit by no more than are under way at once, whatever overlaps: is_locked_out
\* and authenticate of accounts/service.py.
THEOREM LockoutBounds ==
    ASSUME IsFiniteSet(Requests), Requests # {}
    PROVE  Spec => []FailuresBounded
<1>1. FailInv => FailuresBounded
  <2> SUFFICES ASSUME FailInv, NEW e \in Emails
               PROVE  Cardinality(RecentFailures(e)) < LoginMaxAttempts + Cardinality(Requests)
    BY DEF FailuresBounded
  <2>1. Cardinality(RecentFailures(e)) \in Nat /\ Cardinality(Guessing(e)) \in Nat
        /\ Cardinality(Requests) \in Nat /\ LoginMaxAttempts \in Nat
    BY RecentFinite, GuessingFinite, FS_CardinalityType, AccountsAssumption
  <2> QED  BY <2>1 DEF FailInv, Guesses
<1>2. FailInv /\ [Next]_vars => FailInv'  BY FailNext
<1> QED  BY <1>1, <1>2, FailInvInit, PTL DEF Spec
==============================================================================
