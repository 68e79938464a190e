---------------------------- MODULE OfficeProofs ----------------------------
(***************************************************************************)
(* What an office does before anything is sold: who may sign in and do     *)
(* what, leads, customers' papers, prices and quotations, and branches,    *)
(* teams and territories.  The components share no rows.  Each is proved   *)
(* about for any values of its constants, so that it holds at every desk   *)
(* that has an instance of it.                                             *)
(***************************************************************************)
EXTENDS Access, Sequences, FiniteSetTheorems, TLAPS

(* Leads and their visits, with constants and variables of their own.      *)
CONSTANTS Lead, Contact, Owner, Reason, Activity, Dues, Visit, NoOne
VARIABLES lead, assignees, reason, customer, activity, visit, views

Pipeline == INSTANCE Leads WITH old <- views

(* The papers of a customer.                                               *)
CONSTANTS Document, Reviewer, Manager, LastDay
VARIABLES day, paper, readings, lapsed

Papers == INSTANCE Documents WITH today <- day, document <- paper, old <- readings

(* Price lists, cost sheets and quotations.                                *)
CONSTANTS PriceList, CostSheet, Quote, Seller, Managers, RoleOf, RuleSets, Requests, Windows
VARIABLES list, sheet, approval, quote, lists

Offer == INSTANCE Quotations WITH User <- Seller, old <- lists

(* Branches, departments, where users belong, teams and territories.       *)
CONSTANTS Branch, Department, Member, Team, Territory
VARIABLES branch, department, place, team, territory

Places == INSTANCE Organization WITH User <- Member

(***************************************************************************)
(* Sessions, links and passwords: for any users, tokens and passwords.     *)
(***************************************************************************)
UserRow ==
    [exists: BOOLEAN, active: BOOLEAN, password: Password \cup {None}, roles: SUBSET Role]
TokenRow ==
    [user: User \cup {None}, family: Token \cup {None}, revoked: BOOLEAN, expired: BOOLEAN]
ResetRow == [user: User \cup {None}, consumed: BOOLEAN, expired: BOOLEAN]
AccessRow == [user: User, family: Token, current: BOOLEAN]

(* SQL's NULL is nobody and no token, and the founder is somebody.         *)
Apart ==
    /\ None \notin User \cup Token
    /\ Founder \in User /\ Admin \in Role /\ Password # {}

(* A row of a table that was written names a user; a session goes back to  *)
(* the token it began with, and so does what it was given.                 *)
UserRows ==
    /\ user \in [User -> UserRow]
    /\ \A u \in User : ~user[u].exists => user[u] = NoUser
TokenRows ==
    /\ token \in [Token -> TokenRow]
    /\ \A t \in Token : token[t] # NoToken =>
          token[t].user \in User /\ token[t].family \in Token /\ token[token[t].family] # NoToken
ResetRows ==
    /\ reset \in [Reset -> ResetRow]
    /\ \A q \in Reset : reset[q] # NoReset => reset[q].user \in User
AccessRows ==
    /\ access \subseteq AccessRow
    /\ \A x \in access : token[x.family] # NoToken

(* The three parts of OneToken.                                            *)
OneLive ==
    \A t, s \in Token : Live(t) /\ Live(s) /\ token[t].family = token[s].family => t = s
LiveActive == \A t \in Token : Live(t) => token[t].user \in Active
OneLink ==
    \A p, q \in Reset :
        /\ {reset[p], reset[q]} \cap {NoReset} = {} /\ reset[p].user = reset[q].user
        /\ ~reset[p].consumed /\ ~reset[q].consumed
        => p = q

SessionInv == /\ UserRows /\ TokenRows /\ ResetRows /\ AccessRows
              /\ OneLive /\ LiveActive /\ OneLink

LEMMA SessionShows == SessionInv => OneToken
  BY DEF SessionInv, OneToken, OneLive, LiveActive, OneLink

LEMMA SessionStart == ASSUME Apart, Init PROVE SessionInv
  <1>1. (CHOOSE p \in Password : TRUE) \in Password
    BY DEF Apart
  <1>2. UserRows
    BY <1>1 DEF UserRows, UserRow, Init, NoUser, Apart
  <1> QED
    BY <1>2 DEF SessionInv, TokenRows, ResetRows, AccessRows, OneLive, LiveActive, OneLink, Init,
             TokenRow, ResetRow, AccessRow, Live, NoToken, NoReset

-----------------------------------------------------------------------------
LEMMA TokenIssued == ASSUME Apart, TokenRows, NEW t \in Token
                     PROVE  token[t] # NoToken <=> token[t].user \in User
  BY DEF Apart, TokenRows, NoToken

LEMMA NamedIssued == ASSUME Apart, NEW row, row.user \in User PROVE row # NoToken
  BY DEF Apart, NoToken

LEMMA ResetIssued == ASSUME Apart, ResetRows, NEW q \in Reset
                     PROVE  reset[q] # NoReset <=> reset[q].user \in User
  BY DEF Apart, ResetRows, NoReset

(* A step that gives nobody a token, but may end some.                     *)
Ending ==
    /\ token' \in [Token -> TokenRow]
    /\ \A t \in Token : /\ token'[t].user = token[t].user
                        /\ token'[t].family = token[t].family
                        /\ token[t].revoked => token'[t].revoked
                        /\ token[t].expired => token'[t].expired
                        /\ token[t] = NoToken => token'[t] = NoToken

LEMMA RevokedEnds ==
    ASSUME TokenRows, NEW S, \A t \in S : token[t] # NoToken, token' = Revoked(S)
    PROVE  Ending /\ \A t \in Token : t \in S => token'[t].revoked
  BY DEF Ending, TokenRows, TokenRow, Revoked

LEMMA SameEnds == ASSUME TokenRows, UNCHANGED token PROVE Ending
  BY DEF Ending, TokenRows

LEMMA EndingRows ==
    ASSUME Apart, TokenRows, Ending
    PROVE  /\ TokenRows'
           /\ \A t \in Token : /\ token'[t] # NoToken <=> token[t] # NoToken
                               /\ Live(t)' => Live(t)
  <1>1. ASSUME NEW t \in Token PROVE token'[t] # NoToken <=> token[t] # NoToken
    <2>1. token[t] # NoToken => token'[t].user \in User
      BY DEF TokenRows, Ending
    <2> QED BY <2>1, NamedIssued DEF Ending
  <1>2. ASSUME NEW t \in Token PROVE Live(t)' => Live(t)
    BY <1>1 DEF Ending, Live, TokenRows, TokenRow
  <1>3. TokenRows'
    BY <1>1 DEF Ending, TokenRows
  <1> QED BY <1>1, <1>2, <1>3

(* What a step that gives out no token has to leave as it is.              *)
LEMMA EndingKeeps ==
    ASSUME Apart, SessionInv, Ending, UserRows', ResetRows', OneLink',
           \A t \in Token :
              token[t].user \in Active => token'[t].revoked \/ token[t].user \in Active',
           access' \subseteq AccessRow, \A x \in access' : token[x.family] # NoToken
    PROVE  SessionInv'
  <1>1. TokenRows' /\ \A t \in Token : /\ token'[t] # NoToken <=> token[t] # NoToken
                                       /\ Live(t)' => Live(t)
    BY EndingRows DEF SessionInv
  <1>2. AccessRows'
    BY <1>1 DEF AccessRows, AccessRow
  <1>3. OneLive'
    BY <1>1 DEF OneLive, SessionInv, Ending
  <1>4. LiveActive'
    BY <1>1 DEF LiveActive, SessionInv, Ending, Live
  <1> QED BY <1>1, <1>2, <1>3, <1>4 DEF SessionInv

-----------------------------------------------------------------------------
(* Sessions.                                                               *)

LEMMA LoginStep == ASSUME Apart, SessionInv, NEW u \in User, NEW t \in Token, Login(u, t)
                   PROVE  SessionInv'
  <1> DEFINE row == [NoToken EXCEPT !.user = u, !.family = t]
  <1>1. /\ row \in TokenRow /\ row # NoToken
        /\ row.user = u /\ row.family = t /\ ~row.revoked /\ ~row.expired
    BY DEF NoToken, TokenRow, Apart
  <1>2. token' = [token EXCEPT ![t] = row] /\ token[t] = NoToken
    BY DEF Login, Issue
  <1> HIDE DEF row
  <1>3. TokenRows'
    BY <1>1, <1>2 DEF SessionInv, TokenRows
  <1> DEFINE given == [user |-> u, family |-> t, current |-> TRUE]
  <1>10. given \in AccessRow /\ given.family = t /\ access' = access \cup {given}
    BY DEF AccessRow, Login, Issue
  <1> HIDE DEF given
  <1>4. AccessRows'
    BY <1>1, <1>2, <1>10 DEF SessionInv, AccessRows, AccessRow, TokenRows
  <1>5. \A s \in Token : s # t => token'[s] = token[s]
    BY <1>2 DEF SessionInv, TokenRows
  <1>6. \A s \in Token : Live(s) => token[s].family # t
    BY <1>2 DEF SessionInv, TokenRows, Live
  <1>7. OneLive'
    BY <1>1, <1>2, <1>5, <1>6 DEF SessionInv, TokenRows, OneLive, Live
  <1>8. LiveActive'
    BY <1>1, <1>2, <1>5 DEF SessionInv, TokenRows, LiveActive, Live, Login, Active, Known
  <1>9. UserRows' /\ ResetRows' /\ OneLink'
    BY DEF SessionInv, UserRows, ResetRows, OneLink, Login
  <1> QED BY <1>3, <1>4, <1>7, <1>8, <1>9 DEF SessionInv

LEMMA RotateStep ==
    ASSUME Apart, SessionInv, NEW t \in Token, NEW new \in Token, RotateRefreshToken(t, new)
    PROVE  SessionInv'
  <1> DEFINE spent == [token[t] EXCEPT !.revoked = TRUE]
  <1>1. /\ Live(t) /\ token[new] = NoToken /\ new # t
        /\ token[t].user \in User /\ token[t].family \in Token
    BY DEF RotateRefreshToken, Issue, Live, SessionInv, TokenRows
  <1>2. /\ token' \in [Token -> TokenRow]
        /\ token'[new] = token[t]
        /\ \A s \in Token \ {t, new} : token'[s] = token[s]
        /\ token'[t] = spent
    <2>1. spent \in TokenRow /\ token[t] \in TokenRow
      BY DEF SessionInv, TokenRows, TokenRow
    <2>2. token' = [[token EXCEPT ![new] = token[t]] EXCEPT ![t] = spent]
      BY <1>1 DEF RotateRefreshToken, SessionInv, TokenRows
    <2> QED BY <1>1, <2>1, <2>2 DEF SessionInv, TokenRows
  <1> DEFINE given == [user |-> token[t].user, family |-> token[t].family, current |-> TRUE]
  <1>10. given \in AccessRow /\ given.family = token[t].family /\ access' = access \cup {given}
    BY <1>1 DEF AccessRow, RotateRefreshToken, Issue
  <1> HIDE DEF given
  <1>3. spent.user = token[t].user /\ spent.family = token[t].family /\ spent.revoked
    BY DEF SessionInv, TokenRows, TokenRow
  <1>4. spent # NoToken
    BY <1>3 DEF NoToken
  <1> HIDE DEF spent
  <1>11. token[t] # NoToken
    BY <1>1 DEF Live
  <1>5. TokenRows'
    <2>1. \A s \in Token : token[s] # NoToken => token'[s] # NoToken
      BY <1>2, <1>4, <1>11
    <2>2. ASSUME NEW s \in Token, token'[s] # NoToken
          PROVE  token'[s].user \in User /\ token'[s].family \in Token
                 /\ token[token'[s].family] # NoToken
      BY <1>1, <1>2, <1>3, <1>11, <2>2 DEF SessionInv, TokenRows
    <2> QED BY <1>2, <2>1, <2>2 DEF TokenRows
  <1>6. AccessRows'
    <2>1. \A s \in Token : token[s] # NoToken => token'[s] # NoToken
      BY <1>2, <1>4, <1>11
    <2>2. token[token[t].family] # NoToken
      BY <1>11 DEF SessionInv, TokenRows
    <2> QED BY <1>1, <1>10, <2>1, <2>2 DEF SessionInv, AccessRows, AccessRow
  <1>7. OneLive'
    <2>1. ASSUME NEW s \in Token, Live(s)' PROVE s # t
      BY <2>1, <1>2, <1>3 DEF Live
    <2>2. ASSUME NEW s \in Token, Live(s)', s # new PROVE Live(s) /\ token'[s] = token[s]
      BY <2>1, <2>2, <1>2 DEF Live
    <2>3. ASSUME NEW s \in Token, Live(s)', s # new PROVE token'[s].family # token[t].family
      BY <2>1, <2>2, <2>3, <1>1 DEF SessionInv, OneLive
    <2> QED BY <2>2, <2>3, <1>2 DEF SessionInv, OneLive
  <1>8. LiveActive'
    BY <1>1, <1>2, <1>3
       DEF SessionInv, LiveActive, Live, RotateRefreshToken, Active, Known
  <1>9. UserRows' /\ ResetRows' /\ OneLink'
    BY DEF SessionInv, UserRows, ResetRows, OneLink, RotateRefreshToken
  <1> QED BY <1>5, <1>6, <1>7, <1>8, <1>9 DEF SessionInv

LEMMA RevokeFamilyStep == ASSUME Apart, SessionInv, NEW t \in Token, token[t] # NoToken,
                                 RevokeFamily(t)
                          PROVE  SessionInv'
  <1>1. Ending
    <2> DEFINE S == {s \in Token : token[s].family = token[t].family}
    <2>1. \A s \in S : token[s] # NoToken
      BY DEF SessionInv, TokenRows, NoToken, Apart
    <2> QED BY <2>1, RevokedEnds DEF RevokeFamily, SessionInv
  <1> QED
    BY <1>1, EndingKeeps DEF RevokeFamily, SessionInv, UserRows, ResetRows, OneLink, AccessRows,
                             Active, Known

LEMMA ExpiryEnds == ASSUME Apart, SessionInv, NEW t \in Token,
                           RefreshExpired(t) \/ TokenExpires(t)
                    PROVE  Ending
  <1>1. token[t] # NoToken
    BY DEF RefreshExpired, TokenExpires, Live, NoToken
  <1>2. PICK row : /\ token' = [token EXCEPT ![t] = row]
                   /\ \/ row = [token[t] EXCEPT !.revoked = TRUE]
                      \/ row = [token[t] EXCEPT !.expired = TRUE]
    BY DEF RefreshExpired, TokenExpires
  <1>3. /\ row \in TokenRow /\ row.user = token[t].user /\ row.family = token[t].family
        /\ token[t].revoked => row.revoked
        /\ token[t].expired => row.expired
    BY <1>2 DEF SessionInv, TokenRows, TokenRow
  <1> QED BY <1>1, <1>2, <1>3 DEF SessionInv, TokenRows, Ending

LEMMA ExpiryStep == ASSUME Apart, SessionInv, NEW t \in Token,
                           RefreshExpired(t) \/ TokenExpires(t)
                    PROVE  SessionInv'
  BY ExpiryEnds, EndingKeeps DEF RefreshExpired, TokenExpires, SessionInv, UserRows, ResetRows,
                                 OneLink, AccessRows, Active, Known

LEMMA SessionSteps == ASSUME Apart, SessionInv, SessionStep PROVE SessionInv'
  <1>1. ASSUME NEW u \in User, NEW t \in Token, Login(u, t) PROVE SessionInv'
    BY <1>1, LoginStep
  <1>2. ASSUME NEW t \in Token, NEW new \in Token, RotateRefreshToken(t, new) PROVE SessionInv'
    BY <1>2, RotateStep
  <1>3. ASSUME NEW t \in Token, \/ RefreshReused(t) \/ RefreshExpired(t) \/ RefreshDisabled(t)
                                \/ Logout(t) \/ TokenExpires(t)
        PROVE  SessionInv'
    BY <1>3, RevokeFamilyStep, ExpiryStep DEF RefreshReused, RefreshDisabled, Logout, Live
  <1> QED BY <1>1, <1>2, <1>3 DEF SessionStep

-----------------------------------------------------------------------------
(* Passwords and accounts: what happens to a user, to what he was given,   *)
(* and to the links he was sent.                                           *)

LEMMA UserChange ==
    ASSUME UserRows, NEW u \in User, NEW row \in UserRow, row.exists,
           user' = [user EXCEPT ![u] = row]
    PROVE  /\ UserRows' /\ user'[u] = row
           /\ \A w \in User : w # u => user'[w] = user[w]
           /\ \A w \in User : w # u => (w \in Active <=> w \in Active')
           /\ u \in Active' <=> row.active
  BY DEF UserRows, Active, Known

LEMMA VersionRaised ==
    ASSUME AccessRows, NEW u, RaiseVersion(u)
    PROVE  /\ access' \subseteq AccessRow /\ \A x \in access' : token[x.family] # NoToken
           /\ \A x \in access' : x.user = u => ~x.current
           /\ \A x \in access' : x.user # u => x \in access
  <1>1. ASSUME NEW x \in access'
        PROVE  /\ x \in AccessRow /\ token[x.family] # NoToken
               /\ x.user = u => ~x.current
               /\ x.user # u => x \in access
    <2>1. PICK y \in access : x = IF y.user = u THEN [y EXCEPT !.current = FALSE] ELSE y
      BY DEF RaiseVersion
    <2> QED BY <2>1 DEF AccessRows, AccessRow
  <1> QED BY <1>1

LEMMA SessionsRevoked ==
    ASSUME Apart, TokenRows, NEW u \in User, RevokeUserSessions(u)
    PROVE  Ending /\ \A t \in Token : token[t].user = u => token'[t].revoked
  <1> DEFINE S == {t \in Token : token[t].user = u}
  <1>1. \A t \in S : token[t] # NoToken
    BY DEF NoToken, Apart
  <1> QED BY <1>1, RevokedEnds DEF RevokeUserSessions

LEMMA LinksConsumed ==
    ASSUME Apart, ResetRows, NEW u \in User
    PROVE  /\ Consumed(u) \in [Reset -> ResetRow]
           /\ \A q \in Reset :
                 /\ Consumed(u)[q].user = reset[q].user
                 /\ Consumed(u)[q].consumed <=> reset[q].consumed \/ reset[q].user = u
                 /\ Consumed(u)[q] # NoReset => reset[q] # NoReset
  <1>1. ASSUME NEW q \in Reset
        PROVE  /\ Consumed(u)[q] \in ResetRow
               /\ Consumed(u)[q].user = reset[q].user
               /\ Consumed(u)[q].consumed <=> reset[q].consumed \/ reset[q].user = u
    BY DEF Consumed, ResetRows, ResetRow
  <1>2. ASSUME NEW q \in Reset, Consumed(u)[q] # NoReset PROVE reset[q] # NoReset
    BY <1>2 DEF Consumed, NoReset, Apart
  <1> QED BY <1>1, <1>2 DEF Consumed

LEMMA SetPasswordStep ==
    ASSUME Apart, SessionInv, NEW u \in Active, NEW password \in Password,
           SetPassword(u, password)
    PROVE  SessionInv'
  <1> u \in User
    BY DEF Active, Known
  <1> DEFINE row == [user[u] EXCEPT !.password = password]
  <1>1. row \in UserRow /\ row.exists /\ row.active
    BY DEF SessionInv, UserRows, UserRow, Active, Known
  <1>2. user' = [user EXCEPT ![u] = row]
    BY DEF SetPassword
  <1> HIDE DEF row
  <1>3. UserRows' /\ \A w \in User : w \in Active => w \in Active'
    BY <1>1, <1>2, UserChange DEF SessionInv
  <1>4. Ending
    BY SessionsRevoked DEF SessionInv, SetPassword
  <1>5. access' \subseteq AccessRow /\ \A x \in access' : token[x.family] # NoToken
    BY VersionRaised DEF SessionInv, SetPassword
  <1>6. ResetRows' /\ OneLink'
    BY LinksConsumed DEF SessionInv, SetPassword, ResetRows, OneLink
  <1>7. \A t \in Token : token[t].user \in Active => token[t].user \in Active'
    BY <1>3 DEF Active, Known
  <1> QED BY <1>3, <1>4, <1>5, <1>6, <1>7, EndingKeeps

LEMMA RequestStep ==
    ASSUME Apart, SessionInv, NEW u \in User, NEW q \in Reset, RequestPasswordReset(u, q)
    PROVE  SessionInv'
  <1> DEFINE row == [NoReset EXCEPT !.user = u]
  <1>1. row \in ResetRow /\ row.user = u
    BY DEF NoReset, ResetRow
  <1> HIDE DEF row
  <1>2. /\ reset' \in [Reset -> ResetRow] /\ reset'[q] = row
        /\ \A p \in Reset \ {q} : reset'[p] = Consumed(u)[p]
    BY <1>1, LinksConsumed DEF RequestPasswordReset, SessionInv, row
  <1>3. ResetRows'
    BY <1>1, <1>2, LinksConsumed DEF ResetRows, SessionInv
  <1>4. OneLink'
    BY <1>1, <1>2, LinksConsumed DEF OneLink, SessionInv
  <1>5. Ending
    BY SameEnds DEF SessionInv, RequestPasswordReset, sessions
  <1> QED BY <1>3, <1>4, <1>5, EndingKeeps
          DEF SessionInv, UserRows, AccessRows, RequestPasswordReset, sessions, Active, Known

LEMMA ResetExpiryStep == ASSUME Apart, SessionInv, NEW q \in Reset, ResetExpires(q)
                         PROVE  SessionInv'
  <1> DEFINE row == [reset[q] EXCEPT !.expired = TRUE]
  <1>1. row \in ResetRow /\ row.user = reset[q].user /\ row.consumed = reset[q].consumed
    BY DEF SessionInv, ResetRows, ResetRow
  <1>2. reset' = [reset EXCEPT ![q] = row]
    BY DEF ResetExpires
  <1> HIDE DEF row
  <1>5. reset[q] # NoReset /\ reset[q].user \in User
    BY DEF SessionInv, ResetRows, ResetExpires
  <1>6. /\ reset' \in [Reset -> ResetRow] /\ reset'[q] = row
        /\ \A p \in Reset : p # q => reset'[p] = reset[p]
    BY <1>1, <1>2 DEF SessionInv, ResetRows
  <1>3. ResetRows' /\ OneLink'
    <2>1. ResetRows'
      BY <1>1, <1>5, <1>6 DEF SessionInv, ResetRows
    <2>2. \A p \in Reset : /\ reset'[p] # NoReset => reset[p] # NoReset
                           /\ reset'[p].user = reset[p].user
                           /\ reset'[p].consumed = reset[p].consumed
      BY <1>1, <1>5, <1>6
    <2> QED BY <2>1, <2>2 DEF SessionInv, OneLink
  <1>4. Ending
    BY SameEnds DEF SessionInv, ResetExpires, sessions
  <1> QED BY <1>3, <1>4, EndingKeeps
          DEF SessionInv, UserRows, AccessRows, ResetExpires, sessions, Active, Known

LEMMA PasswordSteps == ASSUME Apart, SessionInv, PasswordStep PROVE SessionInv'
  <1>1. ASSUME NEW u \in User, NEW password \in Password, ChangePassword(u, password)
        PROVE  SessionInv'
    BY <1>1, SetPasswordStep DEF ChangePassword
  <1>2. ASSUME NEW q \in Reset, NEW password \in Password, ResetPassword(q, password)
        PROVE  SessionInv'
    BY <1>2, SetPasswordStep DEF ResetPassword
  <1> QED BY <1>1, <1>2, RequestStep, ResetExpiryStep DEF PasswordStep

(* What a request does to a user's row and to his sessions.                *)
LEMMA CreateUserStep ==
    ASSUME Apart, SessionInv, NEW a, NEW u \in User, NEW password \in Password,
           NEW active \in BOOLEAN, CreateUser(a, u, password, active)
    PROVE  SessionInv'
  <1> DEFINE row == [exists |-> TRUE, active |-> active, password |-> password, roles |-> {}]
  <1>1. row \in UserRow /\ row.exists
    BY DEF UserRow
  <1>2. user' = [user EXCEPT ![u] = row]
    BY DEF CreateUser
  <1> HIDE DEF row
  <1>3. UserRows' /\ \A w \in User : w \in Active => w \in Active'
    BY <1>1, <1>2, UserChange DEF SessionInv, CreateUser, Active, Known
  <1>4. Ending
    BY SameEnds DEF SessionInv, CreateUser, sessions
  <1>5. \A t \in Token : token[t].user \in Active => token[t].user \in Active'
    BY <1>3 DEF Active, Known
  <1> QED BY <1>3, <1>4, <1>5, EndingKeeps
          DEF SessionInv, ResetRows, OneLink, AccessRows, CreateUser, sessions

LEMMA SwitchStep ==
    ASSUME Apart, SessionInv, NEW u \in Known, NEW active \in BOOLEAN,
           user' = [user EXCEPT ![u].active = active],
           \/ RaiseVersion(u) /\ RevokeUserSessions(u)
           \/ (user[u].active => active) /\ UNCHANGED sessions,
           UNCHANGED reset
    PROVE  SessionInv'
  <1> u \in User
    BY DEF Known
  <1> DEFINE row == [user[u] EXCEPT !.active = active]
  <1>1. row \in UserRow /\ row.exists /\ row.active = active
    BY DEF SessionInv, UserRows, UserRow, Known
  <1>2. user' = [user EXCEPT ![u] = row]
    OBVIOUS
  <1> HIDE DEF row
  <1>3. /\ UserRows'
        /\ u \in Active' <=> active
        /\ \A w \in User : w # u => (w \in Active <=> w \in Active')
    BY <1>1, <1>2, UserChange DEF SessionInv
  <1>4. Ending
    BY SessionsRevoked, SameEnds DEF SessionInv, sessions
  <1>5. access' \subseteq AccessRow /\ \A x \in access' : token[x.family] # NoToken
    BY VersionRaised DEF SessionInv, AccessRows, sessions
  <1>6. \A t \in Token : token[t].user \in Active =>
                            token'[t].revoked \/ token[t].user \in Active'
    <2>1. CASE RaiseVersion(u) /\ RevokeUserSessions(u)
      BY <1>3, <2>1, SessionsRevoked DEF SessionInv, Active, Known
    <2>2. CASE user[u].active => active
      BY <1>3, <2>2 DEF Active, Known
    <2> QED BY <2>1, <2>2
  <1>7. ResetRows' /\ OneLink'
    BY DEF SessionInv, ResetRows, OneLink
  <1> QED BY <1>3, <1>4, <1>5, <1>6, <1>7, EndingKeeps

LEMMA AccountSteps == ASSUME Apart, SessionInv, NEW a \in User, AccountStep(a) PROVE SessionInv'
  <1>1. ASSUME NEW u \in User, NEW active \in BOOLEAN, UpdateUser(a, u, active)
        PROVE  SessionInv'
    BY <1>1, SwitchStep DEF UpdateUser, sessions
  <1>2. ASSUME NEW u \in User, DeactivateUser(a, u) PROVE SessionInv'
    BY <1>2, SwitchStep DEF DeactivateUser
  <1> QED BY <1>1, <1>2, CreateUserStep DEF AccountStep

LEMMA RoleSteps == ASSUME Apart, SessionInv, NEW a \in User, RoleStep(a) PROVE SessionInv'
  <1>1. ASSUME NEW u \in User, NEW roles \in SUBSET Role, ReplaceUserRoles(a, u, roles)
        PROVE  SessionInv'
    <2> DEFINE row == [user[u] EXCEPT !.roles = roles]
    <2>1. row \in UserRow /\ row.exists /\ row.active = user[u].active
      BY <1>1 DEF SessionInv, UserRows, UserRow, Known, ReplaceUserRoles
    <2>2. user' = [user EXCEPT ![u] = row]
      BY <1>1 DEF ReplaceUserRoles
    <2> HIDE DEF row
    <2>3. UserRows' /\ \A w \in User : w \in Active => w \in Active'
      BY <2>1, <2>2, UserChange DEF SessionInv, Active, Known
    <2>4. Ending
      BY <1>1, SameEnds DEF SessionInv, ReplaceUserRoles
    <2>5. access' \subseteq AccessRow /\ \A x \in access' : token[x.family] # NoToken
      BY <1>1, VersionRaised DEF SessionInv, ReplaceUserRoles
    <2>6. \A t \in Token : token[t].user \in Active => token[t].user \in Active'
      BY <2>3 DEF Active, Known
    <2> QED BY <1>1, <2>3, <2>4, <2>5, <2>6, EndingKeeps
            DEF SessionInv, ResetRows, OneLink, ReplaceUserRoles
  <1>2. ASSUME UNCHANGED <<user, reset, sessions>> PROVE SessionInv'
    BY <1>2 DEF SessionInv, UserRows, TokenRows, ResetRows, AccessRows, OneLive, LiveActive,
                OneLink, Live, Active, Known, sessions
  <1> QED BY <1>1, <1>2 DEF RoleStep, DeleteRole, CreateRole, UpdateRole

LEMMA SessionInvStep == ASSUME Apart, SessionInv, [Next]_vars PROVE SessionInv'
  <1>1. ASSUME UNCHANGED vars PROVE SessionInv'
    BY <1>1 DEF SessionInv, UserRows, TokenRows, ResetRows, AccessRows, OneLive, LiveActive,
                OneLink, Live, Active, Known, vars
  <1> QED BY <1>1, SessionSteps, PasswordSteps, AccountSteps, RoleSteps DEF Next

(* Of a session's tokens at most one can be used, none of somebody who may *)
(* not sign in, and of a user's links to set a new password one works.     *)
THEOREM TokensCorrect == ASSUME Apart PROVE Spec => []OneToken
  <1>1. Init => SessionInv
    BY SessionStart
  <1>2. SessionInv /\ [Next]_vars => SessionInv'
    BY SessionInvStep
  <1> QED BY <1>1, <1>2, SessionShows, PTL DEF Spec

-----------------------------------------------------------------------------
(* What was ended is ended for good.  A step that gives out no token opens *)
(* nothing, so it has to leave alone whoever is active and keeps a token   *)
(* of the present version; and a token that is given out is of a session   *)
(* that could be used before, or of one that begins.                       *)

LEMMA EndingEnds ==
    ASSUME Apart, SessionInv, Ending,
           \A x \in access' : x.current /\ x.user \in Active =>
               /\ user'[x.user].password = user[x.user].password
               /\ user'[x.user].roles = user[x.user].roles
    PROVE  EndedStep
  <1> SUFFICES ASSUME NEW x \in access \cap access', Accepted(x)'
               PROVE  /\ Accepted(x)
                      /\ user'[x.user].password = user[x.user].password
                      /\ user'[x.user].roles = user[x.user].roles
    BY DEF EndedStep
  <1>1. PICK t \in Token : token[t].user = x.user /\ token[t].family = x.family /\ Live(t)
    BY EndingRows DEF SessionInv, Ending, Accepted
  <1>2. x.user \in Active /\ x.current
    BY <1>1 DEF SessionInv, LiveActive, Accepted
  <1>3. Accepted(x)
    BY <1>1, <1>2 DEF Accepted, Active
  <1> QED BY <1>2, <1>3

LEMMA SessionsEnded == ASSUME Apart, SessionInv, SessionStep PROVE EndedStep
  <1> USE DEF SessionInv
  <1>1. ASSUME NEW u \in User, NEW t \in Token, Login(u, t) PROVE EndedStep
    <2> SUFFICES ASSUME NEW x \in access, Accepted(x)'
                 PROVE  Accepted(x) /\ UNCHANGED user
      BY DEF EndedStep
    <2>1. x.family # t
      BY <1>1 DEF AccessRows, Login, Issue
    <2>2. \A s \in Token : s # t => token'[s] = token[s]
      BY <1>1 DEF TokenRows, Login
    <2>3. token'[t].family = t
      BY <1>1 DEF TokenRows, Login, NoToken
    <2>4. PICK s \in Token : token'[s].user = x.user /\ token'[s].family = x.family /\ Live(s)'
      BY DEF Accepted
    <2>5. s # t
      BY <2>1, <2>3, <2>4
    <2>6. token[s].user = x.user /\ token[s].family = x.family /\ Live(s)
      BY <2>2, <2>4, <2>5 DEF Live
    <2>7. UNCHANGED user
      BY <1>1 DEF Login
    <2> QED BY <2>6, <2>7 DEF Accepted
  <1>2. ASSUME NEW t \in Token, NEW new \in Token, RotateRefreshToken(t, new) PROVE EndedStep
    <2> SUFFICES ASSUME NEW x \in access, Accepted(x)'
                 PROVE  Accepted(x) /\ UNCHANGED user
      BY DEF EndedStep
    <2>1. Live(t) /\ token[new] = NoToken /\ new # t
      BY <1>2 DEF RotateRefreshToken, Issue, Live
    <2>2. token'[new] = token[t] /\ \A s \in Token : s \notin {t, new} => token'[s] = token[s]
      BY <1>2, <2>1 DEF RotateRefreshToken, TokenRows
    <2>3. PICK s \in Token : token'[s].user = x.user /\ token'[s].family = x.family /\ Live(s)'
      BY DEF Accepted
    <2>4. s # t
      BY <1>2, <2>1, <2>3 DEF RotateRefreshToken, TokenRows, TokenRow, Live
    <2>5. \E r \in Token : token[r].user = x.user /\ token[r].family = x.family /\ Live(r)
      <3>1. CASE s = new
        BY <2>1, <2>2, <2>3, <3>1
      <3>2. CASE s # new
        BY <2>2, <2>3, <2>4, <3>2 DEF Live
      <3> QED BY <3>1, <3>2
    <2>6. UNCHANGED user
      BY <1>2 DEF RotateRefreshToken
    <2> QED BY <2>5, <2>6 DEF Accepted
  <1>3. ASSUME NEW t \in Token, token[t] # NoToken, RevokeFamily(t) PROVE EndedStep
    <2> DEFINE S == {s \in Token : token[s].family = token[t].family}
    <2>1. \A s \in S : token[s] # NoToken
      BY <1>3 DEF TokenRows, NoToken, Apart
    <2>2. Ending
      BY <1>3, <2>1, RevokedEnds DEF RevokeFamily
    <2> QED BY <1>3, <2>2, EndingEnds DEF RevokeFamily
  <1>4. ASSUME NEW t \in Token, RefreshExpired(t) \/ TokenExpires(t) PROVE EndedStep
    BY <1>4, ExpiryEnds, EndingEnds DEF RefreshExpired, TokenExpires
  <1> QED BY <1>1, <1>2, <1>3, <1>4
          DEF SessionStep, RefreshReused, RefreshDisabled, Logout, Live

(* Whoever sets a password or changes an account ends what was given to    *)
(* that user, if the password or the roles change.                         *)
LEMMA AccountsEnded ==
    ASSUME Apart, SessionInv, PasswordStep \/ \E a \in User : AccountStep(a) \/ RoleStep(a)
    PROVE  EndedStep
  <1> USE DEF SessionInv
  <1>1. ASSUME NEW u \in User, NEW password, SetPassword(u, password) PROVE EndedStep
    <2>1. Ending
      BY <1>1, SessionsRevoked DEF SetPassword
    <2>2. \A x \in access' : x.user = u => ~x.current
      BY <1>1, VersionRaised DEF SetPassword
    <2>3. \A w \in User : w # u => user'[w] = user[w]
      BY <1>1 DEF SetPassword, UserRows
    <2> QED BY <2>1, <2>2, <2>3, EndingEnds DEF Active, Known
  <1>2. ASSUME NEW a, NEW u \in User, NEW password, NEW active, CreateUser(a, u, password, active)
        PROVE  EndedStep
    <2>1. Ending
      BY <1>2, SameEnds DEF CreateUser, sessions
    <2>2. \A w \in Active : user'[w] = user[w]
      BY <1>2 DEF CreateUser, UserRows, Active, Known
    <2> QED BY <2>1, <2>2, EndingEnds
  <1>3. ASSUME NEW u \in Known, NEW active, user' = [user EXCEPT ![u].active = active],
               RevokeUserSessions(u) \/ UNCHANGED token
        PROVE  EndedStep
    <2>1. Ending
      BY <1>3, SessionsRevoked, SameEnds DEF Known
    <2>2. \A w \in User : user'[w].password = user[w].password /\ user'[w].roles = user[w].roles
      BY <1>3 DEF UserRows, UserRow, Known
    <2> QED BY <2>1, <2>2, EndingEnds DEF Active, Known
  <1>4. ASSUME NEW a, NEW u \in User, NEW roles, ReplaceUserRoles(a, u, roles) PROVE EndedStep
    <2>1. Ending
      BY <1>4, SameEnds DEF ReplaceUserRoles
    <2>2. \A x \in access' : x.user = u => ~x.current
      BY <1>4, VersionRaised DEF ReplaceUserRoles
    <2>3. \A w \in User : w # u => user'[w] = user[w]
      BY <1>4 DEF ReplaceUserRoles, UserRows
    <2> QED BY <2>1, <2>2, <2>3, EndingEnds DEF Active, Known
  <1>5. ASSUME UNCHANGED <<user, sessions>> PROVE EndedStep
    <2>1. Ending
      BY <1>5, SameEnds DEF sessions
    <2> QED BY <1>5, <2>1, EndingEnds
  <1>6. ASSUME PasswordStep PROVE EndedStep
    BY <1>1, <1>5, <1>6 DEF PasswordStep, ChangePassword, ResetPassword, ResetExpires,
                            RequestPasswordReset, Active, Known
  <1>7. ASSUME NEW a \in User, AccountStep(a) PROVE EndedStep
    BY <1>2, <1>3, <1>7 DEF AccountStep, UpdateUser, DeactivateUser, sessions
  <1>8. ASSUME NEW a \in User, RoleStep(a) PROVE EndedStep
    BY <1>4, <1>5, <1>8 DEF RoleStep, DeleteRole, CreateRole, UpdateRole
  <1> QED BY <1>6, <1>7, <1>8

LEMMA EndedStepHolds == ASSUME Apart, SessionInv, [Next]_vars PROVE [EndedStep]_vars
  BY SessionsEnded, AccountsEnded DEF Next

(* A new password, a deactivation or other roles end what was signed in    *)
(* before; and what was ended is ended for good.                           *)
THEOREM EndedCorrect == ASSUME Apart PROVE Spec => EndedForGood
  <1>1. Init => SessionInv
    BY SessionStart
  <1>2. SessionInv /\ [Next]_vars => SessionInv' /\ [EndedStep]_vars
    BY SessionInvStep, EndedStepHolds
  <1> QED BY <1>1, <1>2, PTL DEF Spec, EndedForGood

-----------------------------------------------------------------------------
(* Nobody gains a permission by a request of somebody without it.  That    *)
(* needs of the rows only that a user who is not there has no roles.       *)
GrantInv ==
    /\ role = [r \in Role |-> role[r]]
    /\ UserRows

LEMMA GrantStart == ASSUME Apart, Init PROVE GrantInv
  BY SessionStart DEF GrantInv, SessionInv, Init

(* Roles of a user who gains nothing by it.                                *)
LEMMA SameRoles ==
    ASSUME NEW u, user'[u].roles = user[u].roles, \A r \in user[u].roles : role'[r] = role[r]
    PROVE  Effective(u)' = Effective(u)
  BY DEF Effective, Granted

LEMMA RoleGiven ==
    ASSUME GrantInv, NEW a, NEW r \in Role, NEW permissions, MayGrant(a, permissions),
           role' = [role EXCEPT ![r] = permissions], UNCHANGED user, NEW u \in User
    PROVE  Effective(u)' \ Effective(u) \subseteq Effective(a)
  <1> SUFFICES ASSUME NEW p, p \in Effective(u)', p \notin Effective(a) PROVE p \in Effective(u)
    OBVIOUS
  <1>1. user[u].roles \subseteq Role
    BY DEF GrantInv, UserRows, UserRow
  <1>2. \A s \in Role : role'[s] = IF s = r THEN permissions ELSE role[s]
    BY DEF GrantInv
  <1>3. p \notin permissions
    BY DEF MayGrant
  <1>4. PICK s \in user[u].roles : p \in role'[s]
    BY DEF Effective, Granted
  <1>5. p \in role[s]
    BY <1>1, <1>2, <1>3, <1>4
  <1> QED BY <1>4, <1>5 DEF Effective, Granted

LEMMA GrantStepHolds == ASSUME GrantInv PROVE GrantStep
  <1> SUFFICES ASSUME NEW u \in User, NEW a \in User, RoleStep(a) \/ AccountStep(a)
               PROVE  Effective(u)' \ Effective(u) \subseteq Effective(a)
    BY DEF GrantStep
  <1>1. ASSUME NEW r \in Role, DeleteRole(a, r) PROVE Effective(u)' = Effective(u)
    <2>1. r \notin user[u].roles /\ user[u].roles \subseteq Role
      BY <1>1 DEF DeleteRole, Known, GrantInv, UserRows, UserRow, NoUser
    <2> QED BY <1>1, <2>1, SameRoles DEF DeleteRole, GrantInv
  <1>2. ASSUME NEW r \in Role, NEW p, CreateRole(a, r, p) \/ UpdateRole(a, r, p)
        PROVE  Effective(u)' \ Effective(u) \subseteq Effective(a)
    BY <1>2, RoleGiven DEF CreateRole, UpdateRole
  <1>3. ASSUME NEW w \in User, NEW roles, ReplaceUserRoles(a, w, roles)
        PROVE  Effective(u)' \ Effective(u) \subseteq Effective(a)
    <2>1. CASE u = w
      <3>1. user'[u].roles = roles /\ UNCHANGED role
        BY <1>3, <2>1 DEF ReplaceUserRoles, GrantInv, UserRows, UserRow
      <3>2. Effective(u)' \subseteq Granted(roles)
        BY <3>1 DEF Effective, Granted
      <3> QED BY <1>3, <3>2 DEF ReplaceUserRoles, MayGrant
    <2>2. CASE u # w
      BY <1>3, <2>2, SameRoles DEF ReplaceUserRoles, GrantInv, UserRows
    <2> QED BY <2>1, <2>2
  <1>4. ASSUME AccountStep(a) PROVE Effective(u)' = Effective(u)
    <2>1. user'[u].roles = user[u].roles /\ UNCHANGED role
      <3>1. ASSUME NEW w \in Known, NEW active, user' = [user EXCEPT ![w].active = active]
            PROVE  user'[u].roles = user[u].roles
        BY <3>1 DEF GrantInv, UserRows, UserRow, Known
      <3>2. ASSUME NEW w \in User, NEW active, NEW password, CreateUser(a, w, password, active)
            PROVE  user'[u].roles = user[u].roles
        <4>1. user'[w].roles = {} /\ user[w].roles = {}
          BY <3>2 DEF CreateUser, GrantInv, UserRows, NoUser
        <4> QED BY <3>2, <4>1 DEF CreateUser, GrantInv, UserRows
      <3>3. UNCHANGED role
        BY <1>4 DEF AccountStep, UpdateUser, CreateUser, DeactivateUser
      <3> QED BY <1>4, <3>1, <3>2, <3>3 DEF AccountStep, UpdateUser, DeactivateUser
    <2> QED BY <2>1, SameRoles
  <1> QED BY <1>1, <1>2, <1>3, <1>4 DEF RoleStep

LEMMA GrantInvStep == ASSUME Apart, SessionInv, GrantInv, [Next]_vars PROVE GrantInv'
  <1>1. UserRows'
    BY SessionInvStep DEF SessionInv
  <1>2. (role = [r \in Role |-> role[r]])'
    BY DEF GrantInv, Next, vars, SessionStep, Login, RotateRefreshToken, RefreshReused,
           RefreshExpired, RefreshDisabled, Logout, TokenExpires, RevokeFamily, PasswordStep,
           ChangePassword, ResetPassword, SetPassword, ResetExpires, RequestPasswordReset,
           AccountStep, UpdateUser, CreateUser, DeactivateUser, RoleStep, DeleteRole, CreateRole,
           UpdateRole, ReplaceUserRoles
  <1> QED BY <1>1, <1>2 DEF GrantInv

(* Nobody gains a permission by a request of somebody who does not have    *)
(* it, whatever is done with roles, portal roles and what they hold.       *)
THEOREM GrantsCorrect == ASSUME Apart PROVE Spec => GrantsHeld
  <1>1. Init => SessionInv /\ GrantInv
    BY SessionStart, GrantStart
  <1>2. SessionInv /\ GrantInv /\ [Next]_vars => SessionInv' /\ GrantInv' /\ [GrantStep]_vars
    BY SessionInvStep, GrantInvStep, GrantStepHolds
  <1> QED BY <1>1, <1>2, PTL DEF Spec, GrantsHeld

-----------------------------------------------------------------------------
-----------------------------------------------------------------------------
(* The types of accounts, roles and sessions.                              *)

(* The built-in roles are among the roles, the administrators have all     *)
(* permissions, and no set of permissions is NULL.                         *)
RolesGiven ==
    /\ DOMAIN System \subseteq Role /\ Admin \in DOMAIN System /\ System[Admin] = Permission
    /\ \A r \in DOMAIN System : System[r] \in SUBSET Permission
    /\ Grants \subseteq SUBSET Permission
    /\ None \notin SUBSET Permission

RoleRow == (SUBSET Permission) \cup {None}
RoleRows ==
    /\ role \in [Role -> RoleRow]
    /\ DOMAIN System \subseteq Roles /\ role[Admin] = Permission
Holding == \A u \in Known : user[u].password \in Password /\ user[u].roles \subseteq Roles
TokensNamed ==
    \A t \in Token : token[t] # NoToken =>
        token[t].user \in Known /\ token[token[t].family].user = token[t].user
ResetsNamed == \A q \in Reset : reset[q] # NoReset => reset[q].user \in Known
AccessNamed == \A x \in access : x.user \in Known

AccountInv == RoleRows /\ Holding /\ TokensNamed /\ ResetsNamed /\ AccessNamed

LEMMA AccountStart == ASSUME Apart, RolesGiven, Init PROVE AccountInv
  <1>1. RoleRows
    <2>1. role = [r \in Role |-> IF r \in DOMAIN System THEN System[r] ELSE None]
      BY DEF Init
    <2>2. role \in [Role -> RoleRow]
      <3>1. None \in RoleRow /\ SUBSET Permission \subseteq RoleRow
        BY DEF RoleRow
      <3> QED BY <2>1, <3>1 DEF RolesGiven
    <2>3. \A r \in DOMAIN System : r \in Role /\ role[r] = System[r] /\ System[r] # None
      BY <2>1 DEF RolesGiven
    <2>4. role[Admin] = Permission
      BY <2>3 DEF RolesGiven
    <2> QED BY <2>2, <2>3, <2>4 DEF RoleRows, Roles
  <1>2. (CHOOSE p \in Password : TRUE) \in Password
    BY DEF Apart
  <1>3. Known = {Founder}
    BY DEF Init, Known, NoUser, Apart
  <1>4. Holding
    BY <1>1, <1>2, <1>3 DEF Init, Apart, RolesGiven, RoleRows, Holding
  <1> QED BY <1>1, <1>4 DEF Init, TokensNamed, ResetsNamed, AccessNamed, AccountInv

(* A role keeps its users when its permissions are replaced, and goes when *)
(* nobody has it.                                                          *)
LEMMA RoleStepTypes ==
    ASSUME RolesGiven, UserRows, RoleRows, Holding, NEW a \in User, RoleStep(a)
    PROVE  RoleRows' /\ Holding' /\ Known' = Known
  <1>1. ASSUME NEW r \in Role, NEW p \in Grants, r # Admin, role' = [role EXCEPT ![r] = p],
               UNCHANGED user
        PROVE  RoleRows' /\ Holding' /\ Known' = Known
    <2>1. p \in SUBSET Permission /\ p # None
      BY DEF RolesGiven
    <2>2. Roles \subseteq Roles' /\ role'[Admin] = role[Admin]
      BY <1>1, <2>1 DEF Roles, RoleRows, RolesGiven
    <2>3. role' \in [Role -> RoleRow]
      BY <1>1, <2>1 DEF RoleRows, RoleRow
    <2>4. Known' = Known
      BY <1>1 DEF Known
    <2> QED BY <1>1, <2>2, <2>3, <2>4 DEF RoleRows, Holding, Known
  <1>2. ASSUME NEW r \in Role, NEW p \in Grants, CreateRole(a, r, p) \/ UpdateRole(a, r, p)
        PROVE  r # Admin /\ role' = [role EXCEPT ![r] = p] /\ UNCHANGED user
    BY <1>2 DEF CreateRole, UpdateRole, RoleRows, RolesGiven, Roles
  <1>3. ASSUME NEW r \in Role, DeleteRole(a, r) PROVE RoleRows' /\ Holding' /\ Known' = Known
    <2>1. r \notin DOMAIN System /\ r # Admin
      BY <1>3 DEF DeleteRole, RolesGiven
    <2>2. Roles' = Roles \ {r}
      BY <1>3 DEF DeleteRole, Roles, RoleRows
    <2>3. Known' = Known /\ UNCHANGED user /\ \A u \in Known : r \notin user[u].roles
      BY <1>3 DEF DeleteRole, Known
    <2>4. role' \in [Role -> RoleRow] /\ role'[Admin] = role[Admin]
      <3>1. role' = [role EXCEPT ![r] = None]
        BY <1>3 DEF DeleteRole
      <3>2. None \in RoleRow
        BY DEF RoleRow
      <3> QED BY <2>1, <3>1, <3>2 DEF RoleRows, RolesGiven
    <2>5. RoleRows'
      BY <2>1, <2>2, <2>4 DEF RoleRows
    <2>6. Holding'
      BY <2>2, <2>3 DEF Holding
    <2> QED BY <2>3, <2>5, <2>6
  <1>4. ASSUME NEW u \in User, NEW roles, ReplaceUserRoles(a, u, roles)
        PROVE  RoleRows' /\ Holding' /\ Known' = Known
    <2> DEFINE row == [user[u] EXCEPT !.roles = roles]
    <2>1. row.exists = user[u].exists /\ row.password = user[u].password /\ row.roles = roles
      BY DEF UserRows, UserRow
    <2>2. user' = [user EXCEPT ![u] = row] /\ UNCHANGED role /\ roles \subseteq Roles
      BY <1>4 DEF ReplaceUserRoles
    <2> HIDE DEF row
    <2>3. Known' = Known
      BY <2>1, <2>2 DEF Known, UserRows
    <2>4. RoleRows' /\ Roles' = Roles
      BY <2>2 DEF RoleRows, Roles
    <2>5. Holding'
      BY <2>1, <2>2, <2>3, <2>4 DEF Holding, UserRows, Known
    <2> QED BY <2>3, <2>4, <2>5
  <1> QED BY <1>1, <1>2, <1>3, <1>4 DEF RoleStep

(* Whoever is there stays, whatever becomes of the account.                *)
LEMMA UserKept ==
    ASSUME UserRows, RoleRows, Holding, NEW u \in User, NEW row, row.exists,
           row.password \in Password, row.roles \subseteq Roles,
           user' = [user EXCEPT ![u] = row], UNCHANGED role
    PROVE  RoleRows' /\ Holding' /\ Known \subseteq Known'
  <1>1. RoleRows' /\ Roles' = Roles
    BY DEF RoleRows, Roles
  <1>2. \A w \in User : user'[w] = IF w = u THEN row ELSE user[w]
    BY DEF UserRows
  <1>3. Known \subseteq Known'
    BY <1>2 DEF Known
  <1>4. Holding'
    BY <1>1, <1>2 DEF Holding, Known
  <1> QED BY <1>1, <1>3, <1>4

LEMMA PasswordTypes ==
    ASSUME UserRows, RoleRows, Holding, NEW u \in Known, NEW password \in Password,
           SetPassword(u, password)
    PROVE  RoleRows' /\ Holding' /\ Known \subseteq Known'
  <1> DEFINE row == [user[u] EXCEPT !.password = password]
  <1>0. u \in User /\ user[u].exists
    BY DEF Known
  <1>1. row.exists /\ row.password \in Password /\ row.roles = user[u].roles
    BY <1>0 DEF UserRows, UserRow
  <1>2. user' = [user EXCEPT ![u] = row] /\ UNCHANGED role
    BY DEF SetPassword
  <1>3. user[u].roles \subseteq Roles
    BY DEF Holding
  <1> HIDE DEF row
  <1> QED BY <1>0, <1>1, <1>2, <1>3, UserKept

LEMMA SwitchTypes ==
    ASSUME UserRows, RoleRows, Holding, NEW u \in Known, NEW active,
           user' = [user EXCEPT ![u].active = active], UNCHANGED role
    PROVE  RoleRows' /\ Holding' /\ Known \subseteq Known'
  <1> DEFINE row == [user[u] EXCEPT !.active = active]
  <1>0. u \in User /\ user[u].exists
    BY DEF Known
  <1>1. row.exists /\ row.password = user[u].password /\ row.roles = user[u].roles
    BY <1>0 DEF UserRows, UserRow
  <1>2. user' = [user EXCEPT ![u] = row]
    OBVIOUS
  <1>3. user[u].roles \subseteq Roles /\ user[u].password \in Password
    BY DEF Holding
  <1> HIDE DEF row
  <1> QED BY <1>0, <1>1, <1>2, <1>3, UserKept

LEMMA AccountTypes ==
    ASSUME RolesGiven, UserRows, ResetRows, RoleRows, Holding, ResetsNamed, [Next]_vars
    PROVE  RoleRows' /\ Holding' /\ Known \subseteq Known'
  <1>1. ASSUME UNCHANGED <<user, role>> PROVE RoleRows' /\ Holding' /\ Known \subseteq Known'
    BY <1>1 DEF RoleRows, Holding, Known, Roles
  <1>2. ASSUME SessionStep \/ UNCHANGED vars PROVE UNCHANGED <<user, role>>
    BY <1>2 DEF SessionStep, Login, RotateRefreshToken, RefreshReused, RefreshExpired,
                RefreshDisabled, Logout, TokenExpires, RevokeFamily, vars
  <1>3. ASSUME PasswordStep PROVE RoleRows' /\ Holding' /\ Known \subseteq Known'
    <2>1. ASSUME NEW u, NEW password \in Password, ChangePassword(u, password)
          PROVE  RoleRows' /\ Holding' /\ Known \subseteq Known'
      BY <2>1, PasswordTypes DEF ChangePassword, Active
    <2>2. ASSUME NEW q \in Reset, NEW password \in Password, ResetPassword(q, password)
          PROVE  RoleRows' /\ Holding' /\ Known \subseteq Known'
      BY <2>2, PasswordTypes DEF ResetPassword, Active
    <2>3. ASSUME NEW q, NEW u, ResetExpires(q) \/ RequestPasswordReset(u, q)
          PROVE  UNCHANGED <<user, role>>
      BY <2>3 DEF ResetExpires, RequestPasswordReset
    <2> QED BY <1>1, <1>3, <2>1, <2>2, <2>3 DEF PasswordStep
  <1>4. ASSUME NEW a, AccountStep(a) PROVE RoleRows' /\ Holding' /\ Known \subseteq Known'
    <2>1. ASSUME NEW u \in User, NEW password \in Password, NEW active,
                 CreateUser(a, u, password, active)
          PROVE  RoleRows' /\ Holding' /\ Known \subseteq Known'
      <3> DEFINE row == [exists |-> TRUE, active |-> active, password |-> password,
                         roles |-> {}]
      <3>1. row.exists /\ row.password \in Password /\ row.roles \subseteq Roles
        OBVIOUS
      <3>2. user' = [user EXCEPT ![u] = row] /\ UNCHANGED role
        BY <2>1 DEF CreateUser
      <3> HIDE DEF row
      <3> QED BY <3>1, <3>2, UserKept
    <2>2. ASSUME NEW u, NEW active, UpdateUser(a, u, active) \/ DeactivateUser(a, u)
          PROVE  RoleRows' /\ Holding' /\ Known \subseteq Known'
      BY <2>2, SwitchTypes DEF UpdateUser, DeactivateUser
    <2> QED BY <1>4, <2>1, <2>2 DEF AccountStep
  <1> QED BY <1>1, <1>2, <1>3, <1>4, RoleStepTypes DEF Next

(* What was given to somebody is somebody's who is there.                   *)
LEMMA EndingNames ==
    ASSUME Apart, TokenRows, TokensNamed, Ending, Known \subseteq Known'
    PROVE  TokensNamed'
  <1>1. \A t \in Token : token'[t] # NoToken <=> token[t] # NoToken
    BY EndingRows
  <1> QED BY <1>1 DEF TokensNamed, TokenRows, Ending

LEMMA SessionNames ==
    ASSUME Apart, SessionInv, TokensNamed, AccessNamed, SessionStep
    PROVE  TokensNamed' /\ AccessNamed' /\ UNCHANGED reset
  <1> TokenRows
    BY DEF SessionInv
  <1>1. ASSUME NEW u \in User, NEW t \in Token, Login(u, t)
        PROVE  TokensNamed' /\ AccessNamed' /\ UNCHANGED reset
    <2> DEFINE row == [NoToken EXCEPT !.user = u, !.family = t]
    <2>1. row.user = u /\ row.family = t
      BY DEF NoToken
    <2>2. token' = [token EXCEPT ![t] = row] /\ UNCHANGED <<user, reset>> /\ u \in Known
      BY <1>1 DEF Login, Active
    <2> HIDE DEF row
    <2>3. \A s \in Token : token'[s] = IF s = t THEN row ELSE token[s]
      BY <2>2 DEF TokenRows
    <2>4. Known' = Known
      BY <2>2 DEF Known
    <2>5. TokensNamed'
      <3> SUFFICES ASSUME NEW s \in Token, token'[s] # NoToken
                   PROVE  /\ token'[s].user \in Known
                          /\ token'[token'[s].family].user = token'[s].user
        BY <2>4 DEF TokensNamed
      <3>1. CASE s = t
        BY <2>1, <2>2, <2>3, <3>1
      <3>2. CASE s # t
        <4>1. /\ token'[s] = token[s] /\ token[s] # NoToken
              /\ token[s].family \in Token /\ token[token[s].family] # NoToken
          BY <2>3, <3>2 DEF TokenRows
        <4>2. token[t] = NoToken
          BY <1>1 DEF Login, Issue
        <4>3. token'[token[s].family] = token[token[s].family]
          BY <2>3, <4>1, <4>2
        <4> QED BY <4>1, <4>3 DEF TokensNamed
      <3> QED BY <3>1, <3>2
    <2>6. AccessNamed'
      BY <1>1, <2>2, <2>4 DEF Login, Issue, AccessNamed
    <2> QED BY <2>2, <2>5, <2>6
  <1>2. ASSUME NEW t \in Token, NEW new \in Token, RotateRefreshToken(t, new)
        PROVE  TokensNamed' /\ AccessNamed' /\ UNCHANGED reset
    <2>1. /\ token' = [token EXCEPT ![new] = token[t], ![t].revoked = TRUE]
          /\ UNCHANGED <<user, reset>> /\ token[t].user \in Known
          /\ token[new] = NoToken /\ token[t] # NoToken
      BY <1>2 DEF RotateRefreshToken, Active, Issue, Live
    <2>2. \A s \in Token : /\ token'[s].user = (IF s = new THEN token[t] ELSE token[s]).user
                           /\ token'[s].family = (IF s = new THEN token[t] ELSE token[s]).family
      BY <2>1 DEF TokenRows, TokenRow
    <2>3. Known' = Known
      BY <2>1 DEF Known
    <2>4. \A s \in Token : s # new /\ s # t => token'[s] = token[s]
      BY <2>1 DEF TokenRows
    <2>5. TokensNamed'
      <3> SUFFICES ASSUME NEW s \in Token, token'[s] # NoToken
                   PROVE  /\ token'[s].user \in Known
                          /\ token'[token'[s].family].user = token'[s].user
        BY <2>3 DEF TokensNamed
      <3>1. PICK o \in Token : /\ token[o] # NoToken /\ token'[s].user = token[o].user
                              /\ token'[s].family = token[o].family
        BY <2>1, <2>2, <2>4
      <3>2. /\ token[o].family \in Token /\ token[token[o].family] # NoToken
            /\ token[token[o].family].user = token[o].user /\ token[o].user \in Known
        BY <3>1 DEF TokenRows, TokensNamed
      <3>3. token[o].family # new
        BY <2>1, <3>2
      <3> QED BY <2>2, <3>1, <3>2, <3>3
    <2>6. AccessNamed'
      BY <1>2, <2>1, <2>3 DEF RotateRefreshToken, Issue, AccessNamed
    <2> QED BY <2>1, <2>5, <2>6
  <1>3. ASSUME Ending, UNCHANGED <<user, role, reset, access>>
        PROVE  TokensNamed' /\ AccessNamed' /\ UNCHANGED reset
    <2>1. Known' = Known
      BY <1>3 DEF Known
    <2> QED BY <1>3, <2>1, EndingNames DEF AccessNamed
  <1>4. ASSUME NEW t \in Token, token[t] # NoToken, RevokeFamily(t) PROVE Ending
    <2> DEFINE S == {s \in Token : token[s].family = token[t].family}
    <2>1. \A s \in S : token[s] # NoToken
      BY <1>4 DEF TokenRows, NoToken, Apart
    <2> QED BY <1>4, <2>1, RevokedEnds DEF RevokeFamily
  <1>5. ASSUME NEW t \in Token, RefreshReused(t) \/ RefreshDisabled(t) \/ Logout(t)
        PROVE  TokensNamed' /\ AccessNamed' /\ UNCHANGED reset
    BY <1>3, <1>4, <1>5 DEF RefreshReused, RefreshDisabled, Logout, RevokeFamily, Live
  <1>6. ASSUME NEW t \in Token, RefreshExpired(t) \/ TokenExpires(t)
        PROVE  TokensNamed' /\ AccessNamed' /\ UNCHANGED reset
    <2>1. token[t] # NoToken
      BY <1>6 DEF RefreshExpired, TokenExpires, Live, NoToken
    <2> QED BY <1>3, <1>6, <2>1, ExpiryEnds DEF RefreshExpired, TokenExpires
  <1> QED BY <1>1, <1>2, <1>5, <1>6 DEF SessionStep

LEMMA PasswordNames ==
    ASSUME Apart, SessionInv, NEW u \in Known, NEW password \in Password,
           SetPassword(u, password), TokensNamed, ResetsNamed, AccessNamed, Known \subseteq Known'
    PROVE  TokensNamed' /\ ResetsNamed' /\ AccessNamed'
  <1>0. u \in User /\ TokenRows /\ ResetRows /\ AccessRows
    BY DEF Known, SessionInv
  <1>1. TokensNamed'
    BY <1>0, SessionsRevoked, EndingNames DEF SetPassword
  <1>2. ResetsNamed'
    BY <1>0, LinksConsumed DEF SetPassword, ResetsNamed
  <1>3. AccessNamed'
    BY <1>0, VersionRaised DEF SetPassword, AccessNamed
  <1> QED BY <1>1, <1>2, <1>3

LEMMA AccountInvStep ==
    ASSUME Apart, RolesGiven, SessionInv, AccountInv, [Next]_vars
    PROVE  AccountInv'
  <1>0. UserRows /\ TokenRows /\ ResetRows /\ AccessRows
    BY DEF SessionInv
  <1>1. RoleRows' /\ Holding' /\ Known \subseteq Known'
    BY <1>0, AccountTypes DEF AccountInv
  <1> SUFFICES TokensNamed' /\ ResetsNamed' /\ AccessNamed'
    BY <1>1 DEF AccountInv
  <1> USE DEF AccountInv
  <1>2. ASSUME UNCHANGED reset PROVE ResetsNamed'
    BY <1>1, <1>2 DEF ResetsNamed
  <1>3. ASSUME UNCHANGED token PROVE TokensNamed'
    BY <1>1, <1>3 DEF TokensNamed
  <1>4. ASSUME UNCHANGED access PROVE AccessNamed'
    BY <1>1, <1>4 DEF AccessNamed
  <1>5. ASSUME SessionStep PROVE TokensNamed' /\ ResetsNamed' /\ AccessNamed'
    BY <1>2, <1>5, SessionNames
  <1>6. ASSUME NEW u, NEW password \in Password, ChangePassword(u, password)
        PROVE  TokensNamed' /\ ResetsNamed' /\ AccessNamed'
    BY <1>1, <1>6, PasswordNames DEF ChangePassword, Active
  <1>7. ASSUME NEW q \in Reset, NEW password \in Password, ResetPassword(q, password)
        PROVE  TokensNamed' /\ ResetsNamed' /\ AccessNamed'
    BY <1>1, <1>7, PasswordNames DEF ResetPassword, Active
  <1>8. ASSUME NEW q \in Reset, ResetExpires(q)
        PROVE  TokensNamed' /\ ResetsNamed' /\ AccessNamed'
    <2>1. UNCHANGED <<token, access>> /\ reset' = [reset EXCEPT ![q].expired = TRUE]
          /\ reset[q] # NoReset
      BY <1>8 DEF ResetExpires, sessions
    <2>2. \A p \in Reset : reset'[p].user = reset[p].user /\ (p # q => reset'[p] = reset[p])
      BY <1>0, <2>1 DEF ResetRows, ResetRow
    <2>3. ResetsNamed'
      BY <1>1, <2>1, <2>2 DEF ResetsNamed
    <2> QED BY <1>3, <1>4, <2>1, <2>3
  <1>9. ASSUME NEW u \in User, NEW q \in Reset, RequestPasswordReset(u, q)
        PROVE  TokensNamed' /\ ResetsNamed' /\ AccessNamed'
    <2> DEFINE row == [NoReset EXCEPT !.user = u]
    <2>1. row.user = u
      BY DEF NoReset
    <2>2. UNCHANGED <<token, access>> /\ reset' = [Consumed(u) EXCEPT ![q] = row] /\ u \in Known
      BY <1>9 DEF RequestPasswordReset, sessions, Active
    <2> HIDE DEF row
    <2>3. \A p \in Reset : reset'[p] = IF p = q THEN row ELSE Consumed(u)[p]
      BY <1>0, <2>2, LinksConsumed
    <2>4. ResetsNamed'
      BY <1>0, <1>1, <2>1, <2>2, <2>3, LinksConsumed DEF ResetsNamed
    <2> QED BY <1>3, <1>4, <2>2, <2>4
  <1>10. ASSUME NEW u \in User, RaiseVersion(u) PROVE AccessNamed'
    <2>1. ASSUME NEW x \in access' PROVE x.user \in Known
      <3>1. PICK y \in access : x = IF y.user = u THEN [y EXCEPT !.current = FALSE] ELSE y
        BY <1>10 DEF RaiseVersion
      <3> QED BY <1>0, <3>1 DEF AccessRows, AccessRow, AccessNamed
    <2> QED BY <1>1, <2>1 DEF AccessNamed
  <1>11. ASSUME NEW u \in User, RevokeUserSessions(u) PROVE TokensNamed'
    BY <1>0, <1>1, <1>11, SessionsRevoked, EndingNames
  <1>12. ASSUME NEW a, AccountStep(a) PROVE TokensNamed' /\ ResetsNamed' /\ AccessNamed'
    <2>1. ASSUME NEW u, NEW active, UpdateUser(a, u, active)
          PROVE  TokensNamed' /\ ResetsNamed' /\ AccessNamed'
      BY <1>2, <1>3, <1>4, <1>10, <1>11, <2>1 DEF UpdateUser, sessions, Known
    <2>2. ASSUME NEW u, DeactivateUser(a, u) PROVE TokensNamed' /\ ResetsNamed' /\ AccessNamed'
      BY <1>2, <1>10, <1>11, <2>2 DEF DeactivateUser, Known
    <2>3. ASSUME NEW u, NEW password, NEW active, CreateUser(a, u, password, active)
          PROVE  TokensNamed' /\ ResetsNamed' /\ AccessNamed'
      BY <1>2, <1>3, <1>4, <2>3 DEF CreateUser, sessions
    <2> QED BY <1>12, <2>1, <2>2, <2>3 DEF AccountStep
  <1>13. ASSUME NEW a, RoleStep(a) PROVE TokensNamed' /\ ResetsNamed' /\ AccessNamed'
    <2>1. ASSUME NEW u \in User, NEW roles, ReplaceUserRoles(a, u, roles)
          PROVE  TokensNamed' /\ ResetsNamed' /\ AccessNamed'
      BY <1>2, <1>3, <1>10, <2>1 DEF ReplaceUserRoles
    <2>2. ASSUME NEW r, NEW p, DeleteRole(a, r) \/ CreateRole(a, r, p) \/ UpdateRole(a, r, p)
          PROVE  UNCHANGED <<reset, token, access>>
      BY <2>2 DEF DeleteRole, CreateRole, UpdateRole, sessions
    <2> QED BY <1>2, <1>3, <1>4, <1>13, <2>1, <2>2 DEF RoleStep
  <1>14. ASSUME UNCHANGED vars PROVE UNCHANGED <<reset, token, access>>
    BY <1>14 DEF vars
  <1>15. ASSUME PasswordStep PROVE TokensNamed' /\ ResetsNamed' /\ AccessNamed'
    BY <1>6, <1>7, <1>8, <1>9, <1>15 DEF PasswordStep
  <1> QED BY <1>2, <1>3, <1>4, <1>5, <1>12, <1>13, <1>14, <1>15 DEF Next

LEMMA AccountTyped == ASSUME SessionInv, AccountInv PROVE TypeOK
  <1>1. \A u \in Known : user[u].active \in BOOLEAN
    BY DEF SessionInv, UserRows, UserRow, Known
  <1>2. \A r \in Roles : role[r] \subseteq Permission
    BY DEF AccountInv, RoleRows, RoleRow, Roles
  <1>3. access \subseteq [user: Known, family: Token, current: BOOLEAN]
    BY DEF SessionInv, AccessRows, AccessRow, AccountInv, AccessNamed
  <1> QED BY <1>1, <1>2, <1>3
          DEF AccountInv, RoleRows, Holding, TokensNamed, ResetsNamed, TypeOK

(* Users have roles that are there, the administrators keep all            *)
(* permissions, and sessions, links and access tokens are somebody's.      *)
THEOREM AccountsCorrect == ASSUME Apart, RolesGiven PROVE Spec => []TypeOK
  <1>1. Init => SessionInv /\ AccountInv
    BY SessionStart, AccountStart
  <1>2. SessionInv /\ AccountInv /\ [Next]_vars => SessionInv' /\ AccountInv'
    BY SessionInvStep, AccountInvStep
  <1>3. SessionInv /\ AccountInv => TypeOK
    BY AccountTyped
  <1> QED BY <1>1, <1>2, <1>3, PTL DEF Spec

(***************************************************************************)
(* Leads: for any leads, owners, activities and visits.                    *)
(***************************************************************************)

(* NULL is nobody and no lead; due times are numbers.                      *)
LeadsApart == NoOne \notin Lead \cup Owner /\ Dues \subseteq Nat

(* The types of the rows, without what they refer to.                      *)
LeadRows ==
    /\ lead \in [Lead -> Pipeline!LeadRow]
    /\ assignees \in [Lead -> SUBSET Owner]
    /\ customer \subseteq Lead
    /\ activity \in [Activity -> Pipeline!ActivityRow]
    /\ visit \in [Visit -> Pipeline!VisitRow]
    /\ \A v \in views : v.activity \in [Activity -> Pipeline!ActivityRow]

ConvertedInv == \A l \in customer : lead[l].status = "CONVERTED"

(* What the rows of a lead refer to is there.                              *)
Referred ==
    /\ \A a \in Activity : activity[a].lead \in Pipeline!Known \cup {NoOne}
    /\ \A w \in Visit : visit[w].lead \in Pipeline!Known \cup {NoOne}

LeadInv == LeadRows /\ Referred /\ Pipeline!OneAssignee /\ ConvertedInv

LEMMA LeadStart == ASSUME LeadsApart, Pipeline!Init PROVE LeadInv
  BY DEF LeadsApart, Pipeline!Init, LeadInv, LeadRows, Referred, ConvertedInv,
         Pipeline!OneAssignee,
         Pipeline!Known, Pipeline!NoLead, Pipeline!NoActivity, Pipeline!NoVisit,
         Pipeline!LeadRow, Pipeline!ActivityRow, Pipeline!VisitRow

LEMMA ViewsTyped == ASSUME LeadRows, NEW v \in Pipeline!Views
                    PROVE  v.activity \in [Activity -> Pipeline!ActivityRow]
  BY DEF LeadRows, Pipeline!Views, Pipeline!Snapshot

(* There is an earliest follow-up if there is any.                         *)
LEMMA EarliestDue ==
    ASSUME LeadsApart, NEW rows \in [Activity -> Pipeline!ActivityRow], NEW l \in Lead
    PROVE  Pipeline!Earliest(rows, l) \in {0} \cup Dues
  <1> DEFINE D == Pipeline!PendingDues(rows, l)
             earlier == OpToRel(<, Nat)
  <1>1. D \subseteq Nat /\ D \subseteq {0} \cup Dues
    <2>1. ASSUME NEW d \in D PROVE d \in {0} \cup Dues
      <3>1. PICK a \in Activity : d = rows[a].due
        BY <2>1 DEF Pipeline!PendingDues, Pipeline!Pending
      <3>2. rows[a] \in Pipeline!ActivityRow
        OBVIOUS
      <3> QED BY <3>1, <3>2 DEF Pipeline!ActivityRow
    <2>2. D \subseteq {0} \cup Dues
      BY <2>1
    <2> HIDE DEF D
    <2>3. {0} \cup Dues \subseteq Nat
      BY DEF LeadsApart
    <2> QED BY <2>2, <2>3
  <1>2. ASSUME D # {} PROVE \E d \in D : \A e \in D : d <= e
    <2>1. PICK d \in D : \A e \in D : <<e, d>> \notin earlier
      <3> HIDE DEF D, earlier
      <3>1. IsWellFoundedOn(earlier, Nat)
        BY NatLessThanWellFounded DEF earlier
      <3> QED BY <1>1, <1>2, <3>1, WFMin
    <2>2. \A e \in D : d <= e
      <3>1. earlier = {ss \in Nat \X Nat : ss[1] < ss[2]}
        BY DEF OpToRel
      <3> HIDE DEF D, earlier
      <3>2. ASSUME NEW e \in D, e < d PROVE <<e, d>> \in earlier
        BY <1>1, <3>1, <3>2
      <3>3. ASSUME NEW e \in D PROVE d <= e
        <4>1. d \in Nat /\ e \in Nat /\ ~(e < d)
          BY <1>1, <2>1, <3>2
        <4> QED BY <4>1
      <3> QED BY <3>3
    <2> QED BY <2>1, <2>2
  <1>3. CASE D = {}
    BY <1>3 DEF Pipeline!Earliest
  <1>4. CASE D # {}
    <2> DEFINE first == CHOOSE d \in D : \A e \in D : d <= e
    <2>1. first \in D
      BY <1>2, <1>4
    <2>2. Pipeline!Earliest(rows, l) = first
      BY <1>4 DEF Pipeline!Earliest
    <2> QED BY <1>1, <2>1, <2>2
  <1> QED BY <1>3, <1>4

(* The ways a step that deletes none can treat one lead: it is reassigned  *)
(* or entered, or its assignment stays and it does not become a lead.      *)
LeadCourse(l) ==
    \/ /\ lead[l].status # "CONVERTED" /\ lead'[l].status # "NONE"
       /\ assignees'[l] = Pipeline!Assignment(lead'[l].owner)
    \/ /\ lead'[l].status = "NONE" <=> lead[l].status = "NONE"
       /\ lead[l].status = "CONVERTED" =>
             lead'[l].status = "CONVERTED" /\ lead'[l].keys = lead[l].keys
       /\ lead'[l].owner = lead[l].owner
       /\ assignees'[l] = assignees[l]

(* ... and its next follow-up stays, or it is new and has none.            *)
NextCourse(l) ==
    IF lead[l].status = "NONE" THEN lead'[l].status = "NONE" \/ lead'[l].next = 0
                               ELSE lead'[l].next = lead[l].next

(* A step finds each lead in one of these ways, and sets the next          *)
(* follow-up only of those that it touched.                                *)
LeadsMove(touched) ==
    /\ lead' \in [Lead -> Pipeline!LeadRow]
    /\ assignees' \in [Lead -> SUBSET Owner]
    /\ \A l \in Lead : LeadCourse(l)
    /\ \A l \in Lead \ touched : NextCourse(l)

LEMMA LeadsStay == ASSUME LeadRows, UNCHANGED <<lead, assignees>> PROVE LeadsMove({})
  BY DEF LeadRows, LeadsMove, LeadCourse, NextCourse

(* One lead gets a new row, and keeps its owner.                           *)
LEMMA OneLeadMoves ==
    ASSUME LeadRows, NEW touched, NEW l \in Lead, NEW row \in Pipeline!LeadRow,
           lead' = [lead EXCEPT ![l] = row], UNCHANGED assignees,
           row.owner = lead[l].owner,
           row.status = "NONE" <=> lead[l].status = "NONE",
           lead[l].status = "CONVERTED" => row.status = "CONVERTED" /\ row.keys = lead[l].keys,
           l \in touched \/ row.next = lead[l].next
    PROVE  LeadsMove(touched)
  BY DEF LeadRows, LeadsMove, LeadCourse, NextCourse

LEMMA SetLeadMoves ==
    ASSUME LeadRows, NEW l \in Lead, NEW row \in Pipeline!LeadRow, Pipeline!SetLead(l, row),
           lead[l].status \notin {"NONE", "CONVERTED"}, row.status # "NONE",
           row.owner = lead[l].owner, row.next = lead[l].next
    PROVE  LeadsMove({})
  BY OneLeadMoves DEF Pipeline!SetLead

LEMMA AddLeadsMoves ==
    ASSUME LeadsApart, LeadRows, NEW added \in SUBSET Lead, NEW keys \in [added -> SUBSET Contact],
           NEW owners \in [added -> Owner \cup {NoOne}], Pipeline!AddLeads(added, keys, owners)
    PROVE  LeadsMove({})
  <1>1. ASSUME NEW l \in added
        PROVE  /\ Pipeline!NewLead(keys[l], owners[l]) \in Pipeline!LeadRow
               /\ Pipeline!NewLead(keys[l], owners[l]).owner = owners[l]
               /\ Pipeline!NewLead(keys[l], owners[l]).status # "NONE"
               /\ Pipeline!NewLead(keys[l], owners[l]).next = 0
    BY DEF Pipeline!NewLead, Pipeline!NoLead, Pipeline!LeadRow, Pipeline!LeadStatus
  <1>2. \A l \in added : Pipeline!Assignment(owners[l]) \subseteq Owner
    BY DEF Pipeline!Assignment
  <1>3. \A l \in Lead :
            IF l \in added THEN /\ lead'[l] = Pipeline!NewLead(keys[l], owners[l])
                                /\ assignees'[l] = Pipeline!Assignment(owners[l])
                                /\ lead[l].status = "NONE"
                           ELSE lead'[l] = lead[l] /\ assignees'[l] = assignees[l]
    BY DEF Pipeline!AddLeads
  <1>4. lead' \in [Lead -> Pipeline!LeadRow] /\ assignees' \in [Lead -> SUBSET Owner]
    BY <1>1, <1>2, <1>3 DEF LeadRows, Pipeline!AddLeads
  <1>5. ASSUME NEW l \in Lead PROVE LeadCourse(l) /\ NextCourse(l)
    <2>1. CASE l \in added
      BY <1>1, <1>3, <2>1 DEF LeadCourse, NextCourse
    <2>2. CASE l \notin added
      BY <1>3, <2>2 DEF LeadCourse, NextCourse
    <2> QED BY <2>1, <2>2
  <1> QED BY <1>4, <1>5 DEF LeadsMove

LEMMA AssignmentMoves ==
    ASSUME LeadsApart, LeadRows, NEW chosen, NEW owner \in Owner \cup {NoOne},
           \A l \in chosen : Pipeline!Editable(l), Pipeline!SetAssignment(chosen, owner)
    PROVE  LeadsMove({})
  <1>1. Pipeline!Assignment(owner) \subseteq Owner
    BY DEF Pipeline!Assignment
  <1>2. ASSUME NEW l \in Lead, l \in chosen
        PROVE  /\ lead'[l] \in Pipeline!LeadRow /\ lead'[l].owner = owner
               /\ assignees'[l] = Pipeline!Assignment(owner)
               /\ lead[l].status \notin {"NONE", "CONVERTED"} /\ lead'[l].status # "NONE"
               /\ lead'[l].next = lead[l].next
    BY <1>2 DEF LeadRows, Pipeline!LeadRow, Pipeline!LeadStatus, Pipeline!SetAssignment,
                Pipeline!Editable
  <1>3. ASSUME NEW l \in Lead, l \notin chosen
        PROVE  lead'[l] = lead[l] /\ assignees'[l] = assignees[l]
    BY <1>3 DEF Pipeline!SetAssignment
  <1>4. lead' \in [Lead -> Pipeline!LeadRow] /\ assignees' \in [Lead -> SUBSET Owner]
    <2>1. lead' = [l \in Lead |-> lead'[l]] /\ assignees' = [l \in Lead |-> assignees'[l]]
      BY DEF Pipeline!SetAssignment
    <2>2. \A l \in Lead : lead'[l] \in Pipeline!LeadRow /\ assignees'[l] \subseteq Owner
      BY <1>1, <1>2, <1>3 DEF LeadRows
    <2> QED BY <2>1, <2>2
  <1>5. ASSUME NEW l \in Lead PROVE LeadCourse(l) /\ NextCourse(l)
    <2>1. CASE l \in chosen
      BY <1>2, <2>1 DEF LeadCourse, NextCourse
    <2>2. CASE l \notin chosen
      BY <1>3, <2>2 DEF LeadCourse, NextCourse
    <2> QED BY <2>1, <2>2
  <1> QED BY <1>4, <1>5 DEF LeadsMove

LEMMA NextMoves ==
    ASSUME LeadRows, NEW l, NEW next \in {0} \cup Dues,
           lead' = [lead EXCEPT ![l].next = next], UNCHANGED assignees
    PROVE  LeadsMove({l})
  <1>1. CASE l \notin Lead
    <2>1. lead' = lead
      BY <1>1 DEF LeadRows
    <2> QED BY <2>1 DEF LeadRows, LeadsMove, LeadCourse, NextCourse
  <1>2. CASE l \in Lead
    <2> DEFINE row == [lead[l] EXCEPT !.next = next]
    <2>1. /\ row \in Pipeline!LeadRow /\ row.owner = lead[l].owner
          /\ row.status = lead[l].status /\ row.keys = lead[l].keys
      BY <1>2 DEF LeadRows, Pipeline!LeadRow
    <2>2. lead' = [lead EXCEPT ![l] = row]
      BY <1>2
    <2> HIDE DEF row
    <2> QED BY <1>2, <2>1, <2>2, OneLeadMoves
  <1> QED BY <1>1, <1>2

-----------------------------------------------------------------------------
LEMMA EntryMoves ==
    ASSUME LeadsApart, LeadRows, Pipeline!EntryStep
    PROVE  \/ LeadsMove({}) /\ UNCHANGED <<customer, activity, visit, views>>
           \/ \E l \in Lead : Pipeline!DeleteLead(l)
  <1>1. ASSUME NEW v \in Pipeline!Views, NEW l \in Lead, NEW keys \in Pipeline!SomeKeys,
               NEW owner \in Owner \cup {NoOne}, NEW override \in BOOLEAN,
               Pipeline!CreateLead(v, l, keys, owner, override)
        PROVE  LeadsMove({})
    <2>1. /\ [m \in {l} |-> keys] \in [{l} -> SUBSET Contact]
          /\ [m \in {l} |-> owner] \in [{l} -> Owner \cup {NoOne}]
      BY DEF Pipeline!SomeKeys
    <2> QED BY <1>1, <2>1, AddLeadsMoves DEF Pipeline!CreateLead
  <1>2. ASSUME NEW v \in Pipeline!Views, NEW imported \in SUBSET Lead,
               NEW skip \in BOOLEAN, NEW keys \in [imported -> Pipeline!SomeKeys],
               NEW owners \in [imported -> Owner \cup {NoOne}],
               Pipeline!CommitImport(v, imported, keys, owners, skip)
        PROVE  LeadsMove({})
    <2>1. keys \in [imported -> SUBSET Contact]
      BY DEF Pipeline!SomeKeys
    <2> QED BY <1>2, <2>1, AddLeadsMoves DEF Pipeline!CommitImport
  <1>3. ASSUME NEW v \in Pipeline!Views, NEW l \in Lead, NEW keys \in Pipeline!SomeKeys,
               Pipeline!UpdateLead(v, l, keys)
        PROVE  LeadsMove({})
    <2> DEFINE row == [lead[l] EXCEPT !.keys = keys]
    <2>1. /\ row \in Pipeline!LeadRow /\ row.owner = lead[l].owner
          /\ row.status = lead[l].status /\ row.next = lead[l].next
      BY DEF LeadRows, Pipeline!LeadRow, Pipeline!SomeKeys
    <2>2. Pipeline!SetLead(l, row) /\ lead[l].status \notin {"NONE", "CONVERTED"}
      BY <1>3 DEF Pipeline!UpdateLead, Pipeline!Editable
    <2> HIDE DEF row
    <2> QED BY <2>1, <2>2, SetLeadMoves
  <1>5. ASSUME NEW v \in Pipeline!Views, NEW primary \in Lead, NEW duplicates \in SUBSET Lead,
               Pipeline!ResolveDuplicates(v, primary, duplicates)
        PROVE  LeadsMove({})
    <2>1. ASSUME NEW m \in Lead
          PROVE  lead'[m] \in Pipeline!LeadRow /\ LeadCourse(m) /\ NextCourse(m)
      <3>1. CASE m \in duplicates
        <4>1. lead'[m] = [lead[m] EXCEPT !.primary = primary] /\ assignees'[m] = assignees[m]
          BY <1>5, <3>1 DEF Pipeline!ResolveDuplicates
        <4> QED BY <4>1 DEF LeadCourse, NextCourse, LeadRows, Pipeline!LeadRow
      <3>2. CASE m \notin duplicates
        <4>1. lead'[m] = lead[m] /\ assignees'[m] = assignees[m]
          BY <1>5, <3>2 DEF Pipeline!ResolveDuplicates
        <4> QED BY <4>1 DEF LeadCourse, NextCourse, LeadRows
      <3> QED BY <3>1, <3>2
    <2>2. lead' = [m \in Lead |-> lead'[m]] /\ assignees' \in [Lead -> SUBSET Owner]
      BY <1>5 DEF Pipeline!ResolveDuplicates, LeadRows
    <2> QED BY <2>1, <2>2 DEF LeadsMove
  <1>6. Pipeline!EntryStep => \/ \E l \in Lead : Pipeline!DeleteLead(l)
                              \/ UNCHANGED <<customer, activity, visit, views>>
    BY DEF Pipeline!EntryStep, Pipeline!CreateLead, Pipeline!CommitImport, Pipeline!AddLeads,
           Pipeline!UpdateLead, Pipeline!SetLead, Pipeline!ResolveDuplicates, Pipeline!others
  <1>7. LeadsMove({}) \/ \E l \in Lead : Pipeline!DeleteLead(l)
    BY <1>1, <1>2, <1>3, <1>5 DEF Pipeline!EntryStep
  <1> QED BY <1>6, <1>7

LEMMA PipelineMoves ==
    ASSUME LeadsApart, LeadRows, Pipeline!PipelineStep
    PROVE  /\ LeadsMove({}) /\ UNCHANGED <<activity, visit, views>>
           /\ \A l \in customer' \ customer : lead'[l].status = "CONVERTED"
  <1>1. ASSUME NEW l \in Lead, NEW owner \in Owner \cup {NoOne}, Pipeline!AssignLead(l, owner)
        PROVE  LeadsMove({})
    BY <1>1, AssignmentMoves DEF Pipeline!AssignLead
  <1>2. ASSUME NEW chosen \in SUBSET Lead, NEW owner \in Owner, Pipeline!BulkAssign(chosen, owner)
        PROVE  LeadsMove({})
    BY <1>2, AssignmentMoves DEF Pipeline!BulkAssign
  <1>3. ASSUME NEW l \in Lead, NEW target \in Pipeline!LeadStatus,
               Pipeline!EnsureTransition(l, target), NEW r \in Reason \cup {NoOne},
               \/ Pipeline!SetLead(l, [lead[l] EXCEPT !.status = target])
               \/ Pipeline!SetLead(l, [lead[l] EXCEPT !.status = target, !.reason = r])
        PROVE  LeadsMove({})
    <2>1. PICK row : /\ Pipeline!SetLead(l, row)
                     /\ \/ row = [lead[l] EXCEPT !.status = target]
                        \/ row = [lead[l] EXCEPT !.status = target, !.reason = r]
      BY <1>3
    <2>2. /\ row \in Pipeline!LeadRow /\ row.owner = lead[l].owner /\ row.keys = lead[l].keys
          /\ row.status = target /\ row.next = lead[l].next
      BY <2>1 DEF LeadRows, Pipeline!LeadRow
    <2>3. /\ lead[l].status # "NONE" /\ target # "NONE"
          /\ lead[l].status = "CONVERTED" => target = "CONVERTED"
      BY <1>3 DEF Pipeline!EnsureTransition, Pipeline!StatusTransitions, Pipeline!LeadStatus
    <2> QED BY <2>1, <2>2, <2>3, OneLeadMoves DEF Pipeline!SetLead
  <1>4. ASSUME NEW l \in Lead, Pipeline!ConvertLead(l) PROVE LeadsMove({})
    <2> DEFINE row == [lead[l] EXCEPT !.status = "CONVERTED"]
    <2>1. /\ row \in Pipeline!LeadRow /\ row.owner = lead[l].owner
          /\ row.status = "CONVERTED" /\ row.next = lead[l].next
      BY DEF LeadRows, Pipeline!LeadRow, Pipeline!LeadStatus
    <2>2. lead' = [lead EXCEPT ![l] = row] /\ UNCHANGED assignees /\ lead[l].status = "QUALIFIED"
      BY <1>4 DEF Pipeline!ConvertLead
    <2> HIDE DEF row
    <2> QED BY <2>1, <2>2, OneLeadMoves
  <1>5. ASSUME NEW r \in Reason, Pipeline!UpdateLostReason(r) PROVE LeadsMove({})
    BY <1>5, LeadsStay DEF Pipeline!UpdateLostReason
  <1>6. {"QUALIFIED", "LOST"} \subseteq Pipeline!LeadStatus
    BY DEF Pipeline!LeadStatus
  <1>7. ASSUME NEW l \in Lead, NEW target \in Pipeline!LeadStatus,
               Pipeline!TransitionStatus(l, target)
        PROVE  LeadsMove({})
    BY <1>3, <1>7 DEF Pipeline!TransitionStatus
  <1>8. ASSUME NEW l \in Lead, Pipeline!QualifyLead(l) PROVE LeadsMove({})
    BY <1>3, <1>6, <1>8 DEF Pipeline!QualifyLead
  <1>9. ASSUME NEW l \in Lead, NEW r \in Reason, Pipeline!MarkLeadLost(l, r) PROVE LeadsMove({})
    BY <1>3, <1>6, <1>9 DEF Pipeline!MarkLeadLost
  <1>10. /\ UNCHANGED <<activity, visit, views>>
         /\ \A l \in customer' \ customer : lead'[l].status = "CONVERTED"
    <2>1. ASSUME NEW l \in Lead, Pipeline!ConvertLead(l) PROVE lead'[l].status = "CONVERTED"
      BY <2>1 DEF Pipeline!ConvertLead, LeadRows, Pipeline!LeadRow
    <2> QED
      BY <2>1 DEF Pipeline!PipelineStep, Pipeline!AssignLead, Pipeline!BulkAssign, Pipeline!SetLead,
                  Pipeline!TransitionStatus, Pipeline!QualifyLead, Pipeline!ConvertLead,
                  Pipeline!MarkLeadLost, Pipeline!UpdateLostReason, Pipeline!others
  <1>11. LeadsMove({})
    BY <1>1, <1>2, <1>4, <1>5, <1>7, <1>8, <1>9 DEF Pipeline!PipelineStep
  <1> QED BY <1>10, <1>11

(* What a handler writes to an activity is a row, and what it makes the    *)
(* lead's next follow-up is a due time.                                    *)
LEMMA EntryTyped ==
    ASSUME NEW l \in Lead \cup {NoOne}, NEW follow_up \in BOOLEAN, NEW due \in {0} \cup Dues,
           NEW done \in BOOLEAN
    PROVE  Pipeline!Entry(l, follow_up, due, done) \in Pipeline!ActivityRow
  BY DEF Pipeline!Entry, Pipeline!ActivityRow

LEMMA SetActivityMoves ==
    ASSUME LeadsApart, LeadRows, NEW v \in Pipeline!Views, NEW a \in Activity, NEW l \in Lead,
           NEW row \in Pipeline!ActivityRow, Pipeline!SetActivity(v, a, l, row)
    PROVE  LeadsMove({l}) /\ activity' \in [Activity -> Pipeline!ActivityRow]
  <1>1. [v.activity EXCEPT ![a] = row] \in [Activity -> Pipeline!ActivityRow]
    BY ViewsTyped
  <1>2. Pipeline!Earliest([v.activity EXCEPT ![a] = row], l) \in {0} \cup Dues
    BY <1>1, EarliestDue
  <1>3. LeadsMove({l})
    BY <1>2, NextMoves DEF Pipeline!SetActivity
  <1> QED BY <1>3 DEF LeadRows, Pipeline!SetActivity

(* Which row an activity gets, for each of the four requests.              *)
LEMMA ActivityWrites ==
    ASSUME LeadRows, NEW v, NEW a \in Activity, NEW l \in Lead,
           \/ \E follow_up, done \in BOOLEAN, due \in Dues :
                 \/ Pipeline!CreateActivity(v, a, l, follow_up, due, done)
                 \/ Pipeline!UpdateActivity(v, a, l, follow_up, due, done)
           \/ Pipeline!CompleteFollowUp(v, a, l)
           \/ Pipeline!DeleteActivity(v, a, l)
    PROVE  \E row \in Pipeline!ActivityRow :
               /\ Pipeline!SetActivity(v, a, l, row)
               /\ row.lead \in {l, NoOne}
               /\ activity[a].lead \in {l, NoOne}
               /\ row.lead = l => l \in Pipeline!Known \/ activity[a].lead = l
  <1>1. ASSUME NEW follow_up \in BOOLEAN, NEW done \in BOOLEAN, NEW due \in Dues,
               \/ Pipeline!CreateActivity(v, a, l, follow_up, due, done)
               \/ Pipeline!UpdateActivity(v, a, l, follow_up, due, done)
        PROVE  LET row == Pipeline!Entry(l, follow_up, due, done)
               IN  /\ Pipeline!SetActivity(v, a, l, row)
                   /\ row \in Pipeline!ActivityRow
                   /\ row.lead = l
                   /\ activity[a].lead \in {l, NoOne}
                   /\ l \in Pipeline!Known \/ activity[a].lead = l
    <2>1. Pipeline!Entry(l, follow_up, due, done).lead = l
      BY DEF Pipeline!Entry
    <2>2. /\ activity[a].lead \in {l, NoOne}
          /\ l \in Pipeline!Known \/ activity[a].lead = l
          /\ Pipeline!SetActivity(v, a, l, Pipeline!Entry(l, follow_up, due, done))
      BY <1>1 DEF Pipeline!CreateActivity, Pipeline!UpdateActivity, Pipeline!NoActivity,
                  Pipeline!Known
    <2> QED BY <2>1, <2>2, EntryTyped
  <1>2. CASE Pipeline!CompleteFollowUp(v, a, l)
    <2> DEFINE row == [activity[a] EXCEPT !.done = TRUE]
    <2>1. row \in Pipeline!ActivityRow /\ row.lead = activity[a].lead
      BY DEF LeadRows, Pipeline!ActivityRow
    <2>2. Pipeline!SetActivity(v, a, l, row) /\ activity[a].lead = l
      BY <1>2 DEF Pipeline!CompleteFollowUp, Pipeline!Pending
    <2> HIDE DEF row
    <2> QED BY <2>1, <2>2
  <1>3. CASE Pipeline!DeleteActivity(v, a, l)
    <2>1. Pipeline!NoActivity \in Pipeline!ActivityRow /\ Pipeline!NoActivity.lead = NoOne
      BY DEF Pipeline!NoActivity, Pipeline!ActivityRow
    <2> QED BY <1>3, <2>1 DEF Pipeline!DeleteActivity
  <1> QED BY <1>1, <1>2, <1>3

LEMMA ActivityMoves ==
    ASSUME LeadsApart, LeadInv, Pipeline!ActivityStep
    PROVE  \E v \in Pipeline!Views, a \in Activity, l \in Lead, row \in Pipeline!ActivityRow :
              /\ LeadsMove({l}) /\ activity' \in [Activity -> Pipeline!ActivityRow]
              /\ Pipeline!SetActivity(v, a, l, row)
              /\ row.lead \in {l, NoOne}
              /\ row.lead = l => l \in Pipeline!Known
              /\ activity[a].lead \in {l, NoOne}
  <1>1. PICK v \in Pipeline!Views, a \in Activity, l \in Lead :
            \/ \E follow_up, done \in BOOLEAN, due \in Dues :
                  \/ Pipeline!CreateActivity(v, a, l, follow_up, due, done)
                  \/ Pipeline!UpdateActivity(v, a, l, follow_up, due, done)
            \/ Pipeline!CompleteFollowUp(v, a, l)
            \/ Pipeline!DeleteActivity(v, a, l)
    BY DEF Pipeline!ActivityStep
  <1>2. PICK row \in Pipeline!ActivityRow :
            /\ Pipeline!SetActivity(v, a, l, row)
            /\ row.lead \in {l, NoOne}
            /\ activity[a].lead \in {l, NoOne}
            /\ row.lead = l => l \in Pipeline!Known \/ activity[a].lead = l
    <2>1. LeadRows
      BY DEF LeadInv
    <2>2. \E row \in Pipeline!ActivityRow :
              /\ Pipeline!SetActivity(v, a, l, row)
              /\ row.lead \in {l, NoOne}
              /\ activity[a].lead \in {l, NoOne}
              /\ row.lead = l => l \in Pipeline!Known \/ activity[a].lead = l
      BY <1>1, <2>1, ActivityWrites
    <2> QED BY <2>2
  <1>3. LeadsMove({l}) /\ activity' \in [Activity -> Pipeline!ActivityRow]
    BY <1>2, SetActivityMoves DEF LeadInv
  <1>4. activity[a].lead = l => l \in Pipeline!Known
    BY DEF LeadInv, Referred, LeadsApart
  <1> QED BY <1>2, <1>3, <1>4

(* Visits stay with leads there are or with customers, and once completed  *)
(* as they are; only the check-out of a lead's visit writes to a lead.     *)
VisitsMove ==
    /\ visit' \in [Visit -> Pipeline!VisitRow]
    /\ \A w \in Visit :
          /\ visit[w].status = "COMPLETED" => visit'[w] = visit[w]
          /\ visit'[w].lead \in Pipeline!Known \cup {NoOne}

LEMMA OneVisitMoves ==
    ASSUME LeadInv, NEW w \in Visit, NEW row \in Pipeline!VisitRow,
           visit' = [visit EXCEPT ![w] = row], visit[w].status # "COMPLETED",
           row.lead \in Pipeline!Known \cup {NoOne}
    PROVE  VisitsMove
  BY DEF LeadInv, LeadRows, Referred, VisitsMove

LEMMA CheckOutMoves ==
    ASSUME LeadsApart, LeadInv, NEW w \in Visit, NEW a \in Activity, NEW due \in {0} \cup Dues,
           Pipeline!CheckOut(w, a, due)
    PROVE  LET l == visit[w].lead
           IN  /\ l \in Pipeline!Known
               /\ LeadsMove({l}) /\ activity' \in [Activity -> Pipeline!ActivityRow]
               /\ VisitsMove /\ visit'[w] = [visit[w] EXCEPT !.status = "COMPLETED"]
               /\ \/ UNCHANGED activity
                  \/ /\ activity[a].lead = NoOne
                     /\ \E row : activity' = [activity EXCEPT ![a] = row] /\ row.lead = l
  <1> DEFINE l == visit[w].lead
             row == Pipeline!Entry(l, TRUE, due, FALSE)
             seen == [visit[w] EXCEPT !.status = "COMPLETED"]
  <1>1. l \in Pipeline!Known /\ l \in Lead
    BY DEF LeadInv, Referred, Pipeline!CheckOut, Pipeline!Known
  <1>2. LeadsMove({l})
    BY NextMoves DEF Pipeline!CheckOut, LeadInv
  <1>3. row \in Pipeline!ActivityRow /\ row.lead = l
    BY <1>1, EntryTyped DEF Pipeline!Entry
  <1>4. seen \in Pipeline!VisitRow /\ seen.lead = l
    BY DEF LeadInv, LeadRows, Pipeline!VisitRow, Pipeline!VisitStatus
  <1>5. visit' = [visit EXCEPT ![w] = seen] /\ visit[w].status = "CHECKED_IN"
    BY DEF Pipeline!CheckOut
  <1>6. \/ UNCHANGED activity
        \/ activity[a] = Pipeline!NoActivity /\ activity' = [activity EXCEPT ![a] = row]
    BY DEF Pipeline!CheckOut
  <1>7. Pipeline!NoActivity.lead = NoOne
    BY DEF Pipeline!NoActivity
  <1> HIDE DEF row, seen
  <1>8. VisitsMove
    BY <1>1, <1>4, <1>5, OneVisitMoves
  <1>9. visit'[w] = seen
    BY <1>5 DEF LeadInv, LeadRows
  <1>10. activity' \in [Activity -> Pipeline!ActivityRow]
    BY <1>3, <1>6 DEF LeadInv, LeadRows
  <1> QED BY <1>1, <1>2, <1>3, <1>6, <1>7, <1>8, <1>9, <1>10 DEF seen

LEMMA VisitMoves ==
    ASSUME LeadsApart, LeadInv, Pipeline!VisitStep
    PROVE  \/ \E w \in Visit, a \in Activity, due \in {0} \cup Dues : Pipeline!CheckOut(w, a, due)
           \/ VisitsMove /\ UNCHANGED <<lead, assignees, customer, activity, views>>
  <1> SUFFICES ASSUME NEW w \in Visit, NEW row, Pipeline!SetVisit(w, row),
                      visit[w].status # "COMPLETED",
                      row \in Pipeline!VisitRow,
                      row.lead \in Pipeline!Known \cup {NoOne}
               PROVE  VisitsMove /\ UNCHANGED <<lead, assignees, customer, activity, views>>
    <2> DEFINE Fits(w, row) == /\ Pipeline!SetVisit(w, row) /\ visit[w].status # "COMPLETED"
                               /\ row \in Pipeline!VisitRow
                               /\ row.lead \in Pipeline!Known \cup {NoOne}
    <2>1. ASSUME NEW w \in Visit, NEW l, Pipeline!CreateVisit(w, l)
          PROVE  \E row : Fits(w, row)
      <3> DEFINE row == [lead |-> l, status |-> "SCHEDULED", due |-> FALSE]
      <3>1. row \in Pipeline!VisitRow /\ row.lead = l /\ l \in Pipeline!Known \cup {NoOne}
        BY <2>1 DEF Pipeline!VisitRow, Pipeline!VisitStatus, Pipeline!CreateVisit,
                    Pipeline!Visitor, Pipeline!Known
      <3> QED BY <2>1, <3>1 DEF Pipeline!CreateVisit
    <2>2. ASSUME NEW w \in Visit, NEW row, visit[w].status \notin {"NONE", "COMPLETED"},
                 Pipeline!SetVisit(w, row),
                 \/ \E l \in Pipeline!Visitor, due \in BOOLEAN :
                       row = [visit[w] EXCEPT !.lead = l, !.due = due]
                 \/ \E s \in Pipeline!VisitStatus : row = [visit[w] EXCEPT !.status = s]
                 \/ row = [visit[w] EXCEPT !.due = TRUE]
          PROVE  Fits(w, row)
      <3>1. row \in Pipeline!VisitRow /\ row.lead \in Pipeline!Known \cup {NoOne}
        BY <2>2 DEF LeadInv, LeadRows, Referred, Pipeline!VisitRow, Pipeline!Known,
                    Pipeline!Visitor
      <3> QED BY <2>2, <3>1
    <2>3. ASSUME NEW w \in Visit, NEW l, NEW reschedule \in BOOLEAN,
                 Pipeline!UpdateVisit(w, l, reschedule)
          PROVE  \E row : Fits(w, row)
      <3>1. (visit[w].due /\ ~reschedule) \in BOOLEAN
        OBVIOUS
      <3> HIDE DEF Fits
      <3> QED BY <2>2, <2>3, <3>1 DEF Pipeline!UpdateVisit, Pipeline!Upcoming
    <2>4. ASSUME NEW w \in Visit, Pipeline!DeleteVisit(w) PROVE \E row : Fits(w, row)
      <3>1. Pipeline!NoVisit \in Pipeline!VisitRow /\ Pipeline!NoVisit.lead = NoOne
        BY DEF Pipeline!NoVisit, Pipeline!VisitRow
      <3> QED BY <2>4, <3>1 DEF Pipeline!DeleteVisit
    <2>5. ASSUME NEW w \in Visit, NEW s \in Pipeline!VisitStatus, Pipeline!ChangeVisitStatus(w, s)
          PROVE  \E row : Fits(w, row)
      <3> HIDE DEF Fits
      <3> QED BY <2>2, <2>5 DEF Pipeline!ChangeVisitStatus, Pipeline!Upcoming
    <2>6. ASSUME NEW w \in Visit, Pipeline!CheckIn(w) \/ Pipeline!VisitFallsDue(w)
          PROVE  \E row : Fits(w, row)
      <3>1. "CHECKED_IN" \in Pipeline!VisitStatus
        BY DEF Pipeline!VisitStatus
      <3> HIDE DEF Fits
      <3> QED BY <2>2, <2>6, <3>1 DEF Pipeline!CheckIn, Pipeline!VisitFallsDue, Pipeline!Upcoming
    <2>7. ASSUME NEW w \in Visit, Pipeline!CheckOutCustomer(w) PROVE \E row : Fits(w, row)
      <3>1. "COMPLETED" \in Pipeline!VisitStatus
        BY DEF Pipeline!VisitStatus
      <3> HIDE DEF Fits
      <3> QED BY <2>2, <2>7, <3>1 DEF Pipeline!CheckOutCustomer
    <2> HIDE DEF Fits
    <2>8. \/ \E w \in Visit, a \in Activity, due \in {0} \cup Dues : Pipeline!CheckOut(w, a, due)
          \/ \E w \in Visit : \E row : Fits(w, row)
      BY <2>1, <2>3, <2>4, <2>5, <2>6, <2>7 DEF Pipeline!VisitStep
    <2> QED BY <2>8 DEF Fits
  <1> QED BY OneVisitMoves DEF Pipeline!SetVisit, Pipeline!others

-----------------------------------------------------------------------------
(* What the ways leads move in mean for the invariant.                     *)
LEMMA MovesKeep ==
    ASSUME LeadInv, NEW touched, LeadsMove(touched)
    PROVE  /\ Pipeline!OneAssignee'
           /\ Pipeline!Known \subseteq Pipeline!Known'
           /\ \A l \in customer : lead'[l].status = "CONVERTED"
           /\ \A l \in Lead : lead[l].status = "CONVERTED" =>
                 /\ lead'[l].status = "CONVERTED"
                 /\ lead'[l].owner = lead[l].owner /\ lead'[l].keys = lead[l].keys
  <1>1. ASSUME NEW l \in Lead, lead'[l].status # "NONE"
        PROVE  assignees'[l] = Pipeline!Assignment(lead'[l].owner)
    BY <1>1 DEF LeadsMove, LeadCourse, LeadInv, Pipeline!OneAssignee, Pipeline!Known
  <1>2. Pipeline!OneAssignee'
    BY <1>1 DEF Pipeline!OneAssignee, Pipeline!Known, Pipeline!Assignment
  <1>3. Pipeline!Known \subseteq Pipeline!Known'
    BY DEF LeadsMove, LeadCourse, Pipeline!Known
  <1>4. \A l \in Lead : lead[l].status = "CONVERTED" =>
           /\ lead'[l].status = "CONVERTED"
           /\ lead'[l].owner = lead[l].owner /\ lead'[l].keys = lead[l].keys
    BY DEF LeadsMove, LeadCourse
  <1>5. \A l \in customer : lead'[l].status = "CONVERTED"
    BY <1>4 DEF LeadInv, LeadRows, ConvertedInv
  <1> QED BY <1>2, <1>3, <1>4, <1>5

LEMMA MovesKeepInv ==
    ASSUME LeadsApart, LeadInv, NEW touched, LeadsMove(touched),
           UNCHANGED customer \/ (/\ customer' \subseteq Lead
                                  /\ \A l \in customer' \ customer : lead'[l].status = "CONVERTED"),
           activity' \in [Activity -> Pipeline!ActivityRow],
           \A a \in Activity : activity'[a].lead \in Pipeline!Known \cup {NoOne},
           VisitsMove, UNCHANGED views
    PROVE  LeadInv' /\ Pipeline!ConvertedStep
  <1>1. /\ Pipeline!OneAssignee'
        /\ Pipeline!Known \subseteq Pipeline!Known'
        /\ \A l \in customer : lead'[l].status = "CONVERTED"
        /\ \A l \in Lead : lead[l].status = "CONVERTED" =>
              /\ lead'[l].status = "CONVERTED"
              /\ lead'[l].owner = lead[l].owner /\ lead'[l].keys = lead[l].keys
    BY MovesKeep
  <1>2. LeadRows'
    BY DEF LeadInv, LeadRows, LeadsMove, VisitsMove, Pipeline!LeadRow, Pipeline!ActivityRow,
           Pipeline!VisitRow
  <1>3. Referred'
    BY <1>1 DEF Referred, VisitsMove
  <1>4. \A l \in customer' : lead'[l].status = "CONVERTED"
    BY <1>1
  <1> QED BY <1>1, <1>2, <1>3, <1>4 DEF LeadInv, ConvertedInv, Pipeline!ConvertedStep

LEMMA VisitsStay == ASSUME LeadInv, UNCHANGED visit PROVE VisitsMove
  BY DEF LeadInv, LeadRows, Referred, VisitsMove

(* The one step that takes a lead away.                                    *)
LEMMA DeletionRows ==
    ASSUME LeadsApart, LeadInv, NEW l \in Lead, Pipeline!DeleteLead(l)
    PROVE  /\ lead' \in [Lead -> Pipeline!LeadRow] /\ assignees' \in [Lead -> SUBSET Owner]
           /\ lead[l].status # "CONVERTED" /\ lead'[l].status = "NONE" /\ l \notin customer
           /\ \A m \in Lead \ {l} :
                 /\ lead'[m].status = lead[m].status /\ lead'[m].owner = lead[m].owner
                 /\ lead'[m].keys = lead[m].keys /\ lead'[m].next = lead[m].next
                 /\ assignees'[m] = assignees[m]
           /\ activity' \in [Activity -> Pipeline!ActivityRow]
           /\ \A a \in Activity : \/ activity'[a] = activity[a] /\ activity[a].lead # l
                                  \/ activity'[a].lead = NoOne /\ activity[a].lead = l
           /\ \A w \in Visit : visit[w].lead # l
           /\ UNCHANGED <<customer, visit, views>>
  <1>1. ASSUME NEW m \in Lead \ {l}
        PROVE  /\ lead'[m] \in Pipeline!LeadRow
               /\ lead'[m].status = lead[m].status /\ lead'[m].owner = lead[m].owner
               /\ lead'[m].keys = lead[m].keys /\ lead'[m].next = lead[m].next
               /\ assignees'[m] = assignees[m]
    <2>1. \/ lead'[m] = [lead[m] EXCEPT !.primary = NoOne]
          \/ lead'[m] = lead[m]
      BY DEF Pipeline!DeleteLead
    <2>2. assignees'[m] = assignees[m]
      BY DEF Pipeline!DeleteLead, LeadInv, LeadRows
    <2> QED BY <2>1, <2>2 DEF LeadInv, LeadRows, Pipeline!LeadRow
  <1>2. /\ lead'[l] \in Pipeline!LeadRow /\ lead'[l].status = "NONE" /\ assignees'[l] = {}
        /\ lead[l].status # "CONVERTED" /\ l \notin customer
    <2>1. lead'[l] = Pipeline!NoLead
      BY DEF Pipeline!DeleteLead
    <2>2. Pipeline!NoLead \in Pipeline!LeadRow /\ Pipeline!NoLead.status = "NONE"
      BY DEF Pipeline!NoLead, Pipeline!LeadRow
    <2>3. assignees'[l] = {} /\ lead[l].status # "CONVERTED" /\ l \notin customer
      BY DEF Pipeline!DeleteLead, Pipeline!Editable, LeadInv, LeadRows
    <2> QED BY <2>1, <2>2, <2>3
  <1>3. /\ lead' = [m \in Lead |-> lead'[m]] /\ assignees' = [m \in Lead |-> assignees'[m]]
        /\ activity' = [a \in Activity |-> activity'[a]]
    BY DEF Pipeline!DeleteLead, LeadInv, LeadRows
  <1>4. ASSUME NEW a \in Activity
        PROVE  /\ activity'[a] \in Pipeline!ActivityRow
               /\ \/ activity'[a] = activity[a] /\ activity[a].lead # l
                  \/ activity'[a].lead = NoOne /\ activity[a].lead = l
    <2>1. Pipeline!NoActivity \in Pipeline!ActivityRow /\ Pipeline!NoActivity.lead = NoOne
      BY DEF Pipeline!NoActivity, Pipeline!ActivityRow
    <2> QED BY <2>1 DEF Pipeline!DeleteLead, LeadInv, LeadRows
  <1>5. (\A w \in Visit : visit[w].lead # l) /\ UNCHANGED <<customer, visit, views>>
    BY DEF Pipeline!DeleteLead, Pipeline!others
  <1>6. /\ lead' \in [Lead -> Pipeline!LeadRow] /\ assignees' \in [Lead -> SUBSET Owner]
        /\ activity' \in [Activity -> Pipeline!ActivityRow]
    <2>1. \A m \in Lead : lead'[m] \in Pipeline!LeadRow /\ assignees'[m] \subseteq Owner
      BY <1>1, <1>2 DEF LeadInv, LeadRows
    <2> QED BY <1>3, <1>4, <2>1
  <1> QED BY <1>1, <1>2, <1>4, <1>5, <1>6

LEMMA DeletionKeeps ==
    ASSUME LeadsApart, LeadInv, NEW l \in Lead, Pipeline!DeleteLead(l)
    PROVE  LeadInv' /\ Pipeline!ConvertedStep
  <1>1. \A m \in Lead : m \in Pipeline!Known' <=> m \in Pipeline!Known /\ m # l
    BY DeletionRows DEF Pipeline!Known
  <1>2. LeadRows'
    BY DeletionRows DEF LeadInv, LeadRows, Pipeline!LeadRow, Pipeline!ActivityRow,
                        Pipeline!VisitRow
  <1>3. Referred'
    BY <1>1, DeletionRows DEF LeadInv, Referred, Pipeline!Known
  <1>4. Pipeline!OneAssignee'
    BY <1>1, DeletionRows DEF LeadInv, Pipeline!OneAssignee, Pipeline!Known, Pipeline!Assignment
  <1>5. Pipeline!ConvertedStep /\ ConvertedInv'
    BY DeletionRows DEF LeadInv, LeadRows, ConvertedInv, Pipeline!ConvertedStep
  <1> QED BY <1>2, <1>3, <1>4, <1>5 DEF LeadInv

LEMMA LeadInvStep ==
    ASSUME LeadsApart, LeadInv, [Pipeline!Next]_Pipeline!vars
    PROVE  LeadInv' /\ [Pipeline!ConvertedStep]_Pipeline!vars
  <1> USE DEF Pipeline!others
  <1>1. ASSUME Pipeline!EntryStep PROVE LeadInv' /\ Pipeline!ConvertedStep
    <2>1. ASSUME LeadsMove({}), UNCHANGED <<customer, activity, visit, views>>
          PROVE  LeadInv' /\ Pipeline!ConvertedStep
      BY <2>1, VisitsStay, MovesKeepInv DEF LeadInv, LeadRows, Referred
    <2> QED BY <1>1, <2>1, EntryMoves, DeletionKeeps DEF LeadInv
  <1>2. ASSUME Pipeline!PipelineStep PROVE LeadInv' /\ Pipeline!ConvertedStep
    <2>1. /\ LeadsMove({}) /\ UNCHANGED <<activity, visit, views>>
          /\ \A l \in customer' \ customer : lead'[l].status = "CONVERTED"
      BY <1>2, PipelineMoves DEF LeadInv
    <2>2. customer' \subseteq Lead
      BY <1>2 DEF Pipeline!PipelineStep, Pipeline!AssignLead, Pipeline!BulkAssign, Pipeline!SetLead,
                  Pipeline!TransitionStatus, Pipeline!QualifyLead, Pipeline!ConvertLead,
                  Pipeline!MarkLeadLost, Pipeline!UpdateLostReason, LeadInv, LeadRows
    <2> QED BY <2>1, <2>2, VisitsStay, MovesKeepInv DEF LeadInv, LeadRows, Referred
  <1>3. ASSUME Pipeline!ActivityStep PROVE LeadInv' /\ Pipeline!ConvertedStep
    <2>1. PICK v \in Pipeline!Views, a \in Activity, l \in Lead, row \in Pipeline!ActivityRow :
              /\ LeadsMove({l}) /\ activity' \in [Activity -> Pipeline!ActivityRow]
              /\ Pipeline!SetActivity(v, a, l, row)
              /\ row.lead \in {l, NoOne}
              /\ row.lead = l => l \in Pipeline!Known
      BY <1>3, ActivityMoves
    <2>2. activity' = [activity EXCEPT ![a] = row] /\ UNCHANGED <<customer, visit, views>>
      BY <2>1 DEF Pipeline!SetActivity
    <2>3. \A b \in Activity : activity'[b].lead \in Pipeline!Known \cup {NoOne}
      BY <2>1, <2>2 DEF LeadInv, LeadRows, Referred
    <2> QED BY <2>1, <2>2, <2>3, VisitsStay, MovesKeepInv
  <1>4. ASSUME Pipeline!VisitStep PROVE LeadInv' /\ Pipeline!ConvertedStep
    <2>1. ASSUME NEW w \in Visit, NEW a \in Activity, NEW due \in {0} \cup Dues,
                 Pipeline!CheckOut(w, a, due)
          PROVE  LeadInv' /\ Pipeline!ConvertedStep
      <3> DEFINE l == visit[w].lead
      <3>1. /\ l \in Pipeline!Known
            /\ LeadsMove({l}) /\ activity' \in [Activity -> Pipeline!ActivityRow]
            /\ VisitsMove
            /\ \/ UNCHANGED activity
               \/ /\ activity[a].lead = NoOne
                  /\ \E row : activity' = [activity EXCEPT ![a] = row] /\ row.lead = l
        BY <2>1, CheckOutMoves
      <3>2. \A b \in Activity : activity'[b].lead \in Pipeline!Known \cup {NoOne}
        BY <3>1 DEF LeadInv, LeadRows, Referred
      <3>3. UNCHANGED <<customer, views>>
        BY <2>1 DEF Pipeline!CheckOut
      <3> QED BY <3>1, <3>2, <3>3, MovesKeepInv
    <2>2. ASSUME VisitsMove, UNCHANGED <<lead, assignees, customer, activity, views>>
          PROVE  LeadInv' /\ Pipeline!ConvertedStep
      <3>1. LeadsMove({})
        BY <2>2, LeadsStay DEF LeadInv
      <3> QED BY <2>2, <3>1, MovesKeepInv DEF LeadInv, LeadRows, Referred
    <2> QED BY <1>4, <2>1, <2>2, VisitMoves
  <1>5. ASSUME Pipeline!Begin PROVE LeadInv' /\ Pipeline!ConvertedStep
    BY <1>5, ViewsTyped
       DEF Pipeline!Begin, Pipeline!Views, LeadInv, LeadRows, Referred, ConvertedInv,
           Pipeline!OneAssignee, Pipeline!Known, Pipeline!ConvertedStep
  <1>6. ASSUME UNCHANGED Pipeline!vars PROVE LeadInv'
    BY <1>6 DEF Pipeline!vars, LeadInv, LeadRows, Referred, ConvertedInv, Pipeline!OneAssignee,
                Pipeline!Known
  <1> QED BY <1>1, <1>2, <1>3, <1>4, <1>5, <1>6 DEF Pipeline!Next, Pipeline!Step

LEMMA LeadShows == LeadInv => Pipeline!OneAssignee
  BY DEF LeadInv

(* A lead is assigned to the user it names as owner and to nobody else.    *)
THEOREM AssigneeCorrect == ASSUME LeadsApart PROVE Pipeline!Spec => []Pipeline!OneAssignee
  <1>1. Pipeline!Init => LeadInv
    BY LeadStart
  <1>2. LeadInv /\ [Pipeline!Next]_Pipeline!vars => LeadInv'
    BY LeadInvStep
  <1> QED BY <1>1, <1>2, LeadShows, PTL DEF Pipeline!Spec

(* A lead is converted once and then rests.                                *)
THEOREM ConversionCorrect == ASSUME LeadsApart PROVE Pipeline!Spec => Pipeline!ConvertedRest
  <1>1. Pipeline!Init => LeadInv
    BY LeadStart
  <1>2. LeadInv /\ [Pipeline!Next]_Pipeline!vars
        => LeadInv' /\ [Pipeline!ConvertedStep]_Pipeline!vars
    BY LeadInvStep
  <1> QED BY <1>1, <1>2, PTL DEF Pipeline!Spec, Pipeline!ConvertedRest

-----------------------------------------------------------------------------
(* Follow-ups, one request after the other.                                *)
FollowInv == LeadInv /\ views = {} /\ Pipeline!NextFollowUp

LEMMA FollowStart == ASSUME LeadsApart, Pipeline!Init PROVE FollowInv
  BY LeadStart DEF FollowInv, Pipeline!Init, Pipeline!NextFollowUp, Pipeline!Known, Pipeline!NoLead

LEMMA FollowShows == FollowInv => Pipeline!NextFollowUp
  BY DEF FollowInv

(* What happens to others' activities makes no difference to a lead.       *)
LEMMA EarliestSame ==
    ASSUME NEW rows, NEW rows2, NEW l,
           \A a \in Activity : rows[a].lead = l \/ rows2[a].lead = l => rows[a] = rows2[a]
    PROVE  Pipeline!Earliest(rows, l) = Pipeline!Earliest(rows2, l)
  <1>1. Pipeline!Pending(rows, l) = Pipeline!Pending(rows2, l)
    BY DEF Pipeline!Pending
  <1>2. \A a \in Pipeline!Pending(rows, l) : rows[a] = rows2[a]
    BY DEF Pipeline!Pending
  <1>3. Pipeline!PendingDues(rows, l) = Pipeline!PendingDues(rows2, l)
    BY <1>1, <1>2 DEF Pipeline!PendingDues
  <1> QED BY <1>3 DEF Pipeline!Earliest

LEMMA NoneEarliest ==
    ASSUME NEW rows, NEW l, \A a \in Activity : rows[a].lead # l
    PROVE  Pipeline!Earliest(rows, l) = 0
  BY DEF Pipeline!Earliest, Pipeline!PendingDues, Pipeline!Pending

(* Leads that a step does not touch keep their next follow-up, if what     *)
(* happens to activities and visits is not theirs.                         *)
LEMMA UntouchedNext ==
    ASSUME LeadsApart, FollowInv, NEW touched, LeadsMove(touched),
           NEW l \in Lead \ touched, l \in Pipeline!Known',
           ~Pipeline!VisitedTo(l)' => ~Pipeline!VisitedTo(l),
           \A a \in Activity : activity[a].lead = l \/ activity'[a].lead = l
                                  => activity'[a] = activity[a]
    PROVE  ~Pipeline!VisitedTo(l)' => lead'[l].next = Pipeline!Earliest(activity', l)
  <1>1. Pipeline!Earliest(activity', l) = Pipeline!Earliest(activity, l)
    BY EarliestSame
  <1>2. NextCourse(l)
    BY DEF LeadsMove
  <1>3. CASE l \in Pipeline!Known
    <2>1. lead'[l].next = lead[l].next
      BY <1>2, <1>3 DEF NextCourse, Pipeline!Known
    <2> QED BY <1>1, <1>3, <2>1 DEF FollowInv, Pipeline!NextFollowUp
  <1>4. CASE l \notin Pipeline!Known
    <2>1. lead'[l].next = 0
      BY <1>2, <1>4 DEF NextCourse, Pipeline!Known
    <2>2. \A a \in Activity : activity[a].lead # l
      BY <1>4 DEF FollowInv, LeadInv, Referred, LeadsApart
    <2> QED BY <1>1, <2>1, <2>2, NoneEarliest
  <1> QED BY <1>3, <1>4

LEMMA FollowStep ==
    ASSUME LeadsApart, FollowInv, [Pipeline!Step]_Pipeline!vars
    PROVE  FollowInv'
  <1> USE DEF Pipeline!others
  <1> DEFINE Right(l) == ~Pipeline!VisitedTo(l)' => lead'[l].next = Pipeline!Earliest(activity', l)
  <1>0. SUFFICES \A l \in Pipeline!Known' : Right(l)
    <2>1. LeadInv'
      BY LeadInvStep DEF FollowInv, Pipeline!Next
    <2>2. views' = {}
      <3>1. ASSUME Pipeline!EntryStep PROVE UNCHANGED views
        BY <3>1, EntryMoves DEF FollowInv, LeadInv, Pipeline!DeleteLead
      <3>2. ASSUME Pipeline!PipelineStep PROVE UNCHANGED views
        BY <3>2, PipelineMoves DEF FollowInv, LeadInv
      <3>3. ASSUME Pipeline!ActivityStep PROVE UNCHANGED views
        BY <3>3, ActivityMoves DEF FollowInv, Pipeline!SetActivity
      <3>4. ASSUME Pipeline!VisitStep PROVE UNCHANGED views
        BY <3>4, VisitMoves DEF FollowInv, Pipeline!CheckOut
      <3> QED BY <3>1, <3>2, <3>3, <3>4 DEF FollowInv, Pipeline!Step, Pipeline!vars
    <2>3. (\A l \in Pipeline!Known' : Right(l)) => Pipeline!NextFollowUp'
      BY DEF Pipeline!NextFollowUp, Pipeline!Earliest, Pipeline!PendingDues, Pipeline!Pending
    <2> QED BY <2>1, <2>2, <2>3 DEF FollowInv
  <1>1. ASSUME NEW touched, LeadsMove(touched), UNCHANGED <<activity, visit>>,
               NEW l \in Pipeline!Known', l \notin touched
        PROVE  Right(l)
    <2>1. ~Pipeline!VisitedTo(l)' => ~Pipeline!VisitedTo(l)
      BY <1>1 DEF Pipeline!VisitedTo
    <2>2. l \in Lead
      BY DEF Pipeline!Known
    <2> QED BY <1>1, <2>1, <2>2, UntouchedNext
  <1>2. ASSUME NEW d \in Lead, Pipeline!DeleteLead(d), NEW l \in Pipeline!Known' PROVE Right(l)
    <2>1. /\ l \in Lead \ {d} /\ l \in Pipeline!Known /\ lead'[l].next = lead[l].next
          /\ UNCHANGED visit
      BY <1>2, DeletionRows DEF Pipeline!Known, FollowInv
    <2>2. \A a \in Activity : activity'[a].lead = l \/ activity[a].lead = l
                                 => activity'[a] = activity[a]
      BY <1>2, <2>1, DeletionRows DEF FollowInv, LeadsApart
    <2>3. Pipeline!Earliest(activity', l) = Pipeline!Earliest(activity, l)
      BY <2>2, EarliestSame
    <2>4. ~Pipeline!VisitedTo(l)' => ~Pipeline!VisitedTo(l)
      BY <2>1 DEF Pipeline!VisitedTo
    <2> QED BY <2>1, <2>3, <2>4 DEF FollowInv, Pipeline!NextFollowUp
  <1>3. ASSUME Pipeline!EntryStep \/ Pipeline!PipelineStep, NEW l \in Pipeline!Known'
        PROVE  Right(l)
    <2>1. \/ LeadsMove({}) /\ UNCHANGED <<activity, visit>>
          \/ \E d \in Lead : Pipeline!DeleteLead(d)
      BY <1>3, EntryMoves, PipelineMoves DEF FollowInv, LeadInv
    <2> QED BY <1>1, <1>2, <2>1
  <1>4. ASSUME Pipeline!ActivityStep, NEW m \in Pipeline!Known' PROVE Right(m)
    <2>1. PICK v \in Pipeline!Views, a \in Activity, l \in Lead, row \in Pipeline!ActivityRow :
              /\ LeadsMove({l}) /\ activity' \in [Activity -> Pipeline!ActivityRow]
              /\ Pipeline!SetActivity(v, a, l, row)
              /\ row.lead \in {l, NoOne}
              /\ activity[a].lead \in {l, NoOne}
      BY <1>4, ActivityMoves DEF FollowInv
    <2>2. /\ activity' = [v.activity EXCEPT ![a] = row] /\ v.activity = activity
          /\ UNCHANGED visit
      <3>1. v = Pipeline!Snapshot
        BY DEF FollowInv, Pipeline!Views
      <3>2. v.activity = activity
        BY <3>1 DEF Pipeline!Snapshot
      <3> QED BY <2>1, <3>2 DEF Pipeline!SetActivity
    <2>3. lead'[l].next = Pipeline!Earliest(activity', l)
      BY <2>1, <2>2 DEF Pipeline!SetActivity, FollowInv, LeadInv, LeadRows, Pipeline!LeadRow
    <2>4. CASE m = l
      BY <2>3, <2>4
    <2>5. CASE m # l
      <3>1. m \in Lead \ {l} /\ m # NoOne
        BY <2>5 DEF Pipeline!Known, LeadsApart
      <3>2. \A b \in Activity : activity[b].lead = m \/ activity'[b].lead = m
                                   => activity'[b] = activity[b]
        BY <2>1, <2>2, <3>1 DEF FollowInv, LeadInv, LeadRows
      <3>3. ~Pipeline!VisitedTo(m)' => ~Pipeline!VisitedTo(m)
        BY <2>2 DEF Pipeline!VisitedTo
      <3> QED BY <2>1, <3>1, <3>2, <3>3, UntouchedNext
    <2> QED BY <2>4, <2>5
  <1>5. ASSUME NEW w \in Visit, NEW a \in Activity, NEW due \in {0} \cup Dues,
               Pipeline!CheckOut(w, a, due), NEW m \in Pipeline!Known'
        PROVE  Right(m)
    <2> DEFINE l == visit[w].lead
    <2>1. /\ l \in Pipeline!Known /\ LeadsMove({l})
          /\ VisitsMove /\ visit'[w] = [visit[w] EXCEPT !.status = "COMPLETED"]
          /\ \/ UNCHANGED activity
             \/ /\ activity[a].lead = NoOne
                /\ \E row : activity' = [activity EXCEPT ![a] = row] /\ row.lead = l
      BY <1>5, CheckOutMoves DEF FollowInv
    <2>2. CASE m = l
      <3>1. visit'[w].lead = m /\ visit'[w].status = "COMPLETED"
        BY <2>1, <2>2 DEF FollowInv, LeadInv, LeadRows, Pipeline!VisitRow
      <3> QED BY <3>1 DEF Pipeline!VisitedTo
    <2>3. CASE m # l
      <3>1. m \in Lead \ {l} /\ m # NoOne
        BY <2>3 DEF Pipeline!Known, LeadsApart
      <3>2. \A b \in Activity : activity[b].lead = m \/ activity'[b].lead = m
                                   => activity'[b] = activity[b]
        BY <2>1, <3>1 DEF FollowInv, LeadInv, LeadRows
      <3>3. ~Pipeline!VisitedTo(m)' => ~Pipeline!VisitedTo(m)
        BY <2>1 DEF VisitsMove, Pipeline!VisitedTo
      <3> QED BY <2>1, <3>1, <3>2, <3>3, UntouchedNext
    <2> QED BY <2>2, <2>3
  <1>6. ASSUME Pipeline!VisitStep, NEW l \in Pipeline!Known' PROVE Right(l)
    <2>1. ASSUME VisitsMove, UNCHANGED <<lead, assignees, activity>> PROVE Right(l)
      <3>1. LeadsMove({})
        BY <2>1, LeadsStay DEF FollowInv, LeadInv
      <3>2. ~Pipeline!VisitedTo(l)' => ~Pipeline!VisitedTo(l)
        BY <2>1 DEF VisitsMove, Pipeline!VisitedTo
      <3>3. l \in Lead \ {}
        BY DEF Pipeline!Known
      <3> QED BY <2>1, <3>1, <3>2, <3>3, UntouchedNext
    <2> QED BY <1>5, <1>6, <2>1, VisitMoves DEF FollowInv
  <1>7. ASSUME UNCHANGED Pipeline!vars, NEW l \in Pipeline!Known' PROVE Right(l)
    <2>1. LeadsMove({}) /\ UNCHANGED <<activity, visit>>
      BY <1>7, LeadsStay DEF Pipeline!vars, FollowInv, LeadInv
    <2> QED BY <1>1, <2>1
  <1> QED BY <1>3, <1>4, <1>6, <1>7 DEF Pipeline!Step

(* One request after the other, a lead's next follow-up is the earliest    *)
(* that is pending, up to its first visit.                                 *)
THEOREM FollowUpCorrect ==
    ASSUME LeadsApart
    PROVE  Pipeline!Init /\ [][Pipeline!Step]_Pipeline!vars => []Pipeline!NextFollowUp
  <1>1. Pipeline!Init => FollowInv
    BY FollowStart
  <1>2. FollowInv /\ [Pipeline!Step]_Pipeline!vars => FollowInv'
    BY FollowStep
  <1> QED BY <1>1, <1>2, FollowShows, PTL

-----------------------------------------------------------------------------
-----------------------------------------------------------------------------
(* A lead found to be a duplicate goes back to one that is there: it is    *)
(* let go when that one is deleted.                                        *)
Linked == \A l \in Pipeline!Known : lead[l].primary \in Pipeline!Known \cup {NoOne}
ViewRow == [keys: [Lead -> SUBSET Contact], activity: [Activity -> Pipeline!ActivityRow],
            primary: [Lead -> Lead \cup {NoOne}]]
LinkInv == Linked /\ reason \in [Reason -> BOOLEAN] /\ views \subseteq ViewRow

LEMMA LinkStart == ASSUME Pipeline!Init PROVE LinkInv
  BY DEF Pipeline!Init, LinkInv, Linked, Pipeline!Known, Pipeline!NoLead

LEMMA OneLinkKeeps ==
    ASSUME LeadRows, Linked, NEW l \in Lead, NEW row, lead' = [lead EXCEPT ![l] = row],
           row.primary = lead[l].primary, row.status = "NONE" <=> lead[l].status = "NONE"
    PROVE  Linked'
  <1>1. \A m \in Lead : /\ lead'[m].primary = lead[m].primary
                        /\ lead'[m].status = "NONE" <=> lead[m].status = "NONE"
    BY DEF LeadRows
  <1>2. Pipeline!Known' = Pipeline!Known
    BY <1>1 DEF Pipeline!Known
  <1> QED BY <1>1, <1>2 DEF Linked, Pipeline!Known

LEMMA AddedLinks ==
    ASSUME LeadRows, Linked, NEW added \in SUBSET Lead, NEW keys, NEW owners,
           Pipeline!AddLeads(added, keys, owners)
    PROVE  Linked'
  <1>1. \A l \in added : /\ Pipeline!NewLead(keys[l], owners[l]).primary = NoOne
                         /\ Pipeline!NewLead(keys[l], owners[l]).status # "NONE"
    BY DEF Pipeline!NewLead, Pipeline!NoLead
  <1>2. \A l \in Lead : lead'[l] = IF l \in added THEN Pipeline!NewLead(keys[l], owners[l])
                                                  ELSE lead[l]
    BY DEF Pipeline!AddLeads
  <1>3. Pipeline!Known' = Pipeline!Known \cup added
    BY <1>1, <1>2 DEF Pipeline!Known
  <1> QED BY <1>1, <1>2, <1>3 DEF Linked, Pipeline!Known

LEMMA EntryLinks == ASSUME LeadRows, Linked, Pipeline!EntryStep PROVE Linked'
  <1>1. ASSUME NEW v, NEW l \in Lead, NEW keys, NEW owner, NEW override,
               Pipeline!CreateLead(v, l, keys, owner, override)
        PROVE  Linked'
    BY <1>1, AddedLinks DEF Pipeline!CreateLead
  <1>2. ASSUME NEW v, NEW imported \in SUBSET Lead, NEW owners, NEW skip, NEW keys,
               Pipeline!CommitImport(v, imported, keys, owners, skip)
        PROVE  Linked'
    BY <1>2, AddedLinks DEF Pipeline!CommitImport
  <1>3. ASSUME NEW v, NEW l \in Lead, NEW keys, Pipeline!UpdateLead(v, l, keys) PROVE Linked'
    <2> DEFINE row == [lead[l] EXCEPT !.keys = keys]
    <2>1. lead' = [lead EXCEPT ![l] = row]
      BY <1>3 DEF Pipeline!UpdateLead, Pipeline!SetLead
    <2>2. row.primary = lead[l].primary /\ row.status = lead[l].status
      BY DEF LeadRows, Pipeline!LeadRow
    <2> HIDE DEF row
    <2> QED BY <2>1, <2>2, OneLinkKeeps
  <1>4. ASSUME NEW l \in Lead, Pipeline!DeleteLead(l) PROVE Linked'
    <2>1. ASSUME NEW m \in Lead
          PROVE  /\ m = l => lead'[m].status = "NONE"
                 /\ m # l => /\ lead'[m].status = lead[m].status
                             /\ lead'[m].primary = IF lead[m].primary = l THEN NoOne
                                                   ELSE lead[m].primary
      <3>1. CASE m = l
        BY <1>4, <3>1 DEF Pipeline!DeleteLead, Pipeline!NoLead
      <3>2. CASE m # l /\ lead[m].primary = l
        <4>1. lead'[m] = [lead[m] EXCEPT !.primary = NoOne]
          BY <1>4, <3>2 DEF Pipeline!DeleteLead
        <4> QED BY <3>2, <4>1 DEF LeadRows, Pipeline!LeadRow
      <3>3. CASE m # l /\ lead[m].primary # l
        BY <1>4, <3>3 DEF Pipeline!DeleteLead
      <3> QED BY <3>1, <3>2, <3>3
    <2>2. Pipeline!Known' = Pipeline!Known \ {l}
      BY <2>1 DEF Pipeline!Known
    <2> QED BY <2>1, <2>2 DEF Linked, Pipeline!Known
  <1>5. ASSUME NEW v, NEW primary \in Lead, NEW duplicates,
               Pipeline!ResolveDuplicates(v, primary, duplicates)
        PROVE  Linked'
    <2>1. ASSUME NEW m \in Lead
          PROVE  /\ lead'[m].status = lead[m].status
                 /\ lead'[m].primary \in {lead[m].primary, primary}
      <3>1. CASE m \in duplicates
        <4>1. lead'[m] = [lead[m] EXCEPT !.primary = primary]
          BY <1>5, <3>1 DEF Pipeline!ResolveDuplicates
        <4> QED BY <4>1 DEF LeadRows, Pipeline!LeadRow
      <3>2. CASE m \notin duplicates
        BY <1>5, <3>2 DEF Pipeline!ResolveDuplicates
      <3> QED BY <3>1, <3>2
    <2>2. Pipeline!Known' = Pipeline!Known /\ primary \in Pipeline!Known
      BY <1>5, <2>1 DEF Pipeline!Known, Pipeline!ResolveDuplicates
    <2> QED BY <2>1, <2>2 DEF Linked, Pipeline!Known
  <1> QED BY <1>1, <1>2, <1>3, <1>4, <1>5 DEF Pipeline!EntryStep

LEMMA AssignedLinks ==
    ASSUME LeadRows, Linked, NEW chosen, NEW owner, Pipeline!SetAssignment(chosen, owner)
    PROVE  Linked'
  <1>1. ASSUME NEW m \in Lead
        PROVE  /\ lead'[m].status = "NONE" <=> lead[m].status = "NONE"
               /\ lead'[m].primary = lead[m].primary
    <2>1. CASE m \in chosen
      <3>1. lead'[m] = [lead[m] EXCEPT !.owner = owner,
                             !.status = IF @ = "NEW" /\ owner # NoOne THEN "ASSIGNED" ELSE @]
        BY <2>1 DEF Pipeline!SetAssignment
      <3> QED BY <3>1 DEF LeadRows, Pipeline!LeadRow
    <2>2. CASE m \notin chosen
      BY <2>2 DEF Pipeline!SetAssignment
    <2> QED BY <2>1, <2>2
  <1>2. Pipeline!Known' = Pipeline!Known
    BY <1>1 DEF Pipeline!Known
  <1> QED BY <1>1, <1>2 DEF Linked, Pipeline!Known

LEMMA PipelineLinks == ASSUME LeadRows, Linked, Pipeline!PipelineStep PROVE Linked'
  <1>1. ASSUME NEW l \in Lead, NEW target \in Pipeline!LeadStatus, NEW r,
               lead[l].status # "NONE",
               \/ lead' = [lead EXCEPT ![l] = [lead[l] EXCEPT !.status = target]]
               \/ lead' = [lead EXCEPT ![l] = [lead[l] EXCEPT !.status = target, !.reason = r]]
        PROVE  Linked'
    <2>1. PICK row : /\ lead' = [lead EXCEPT ![l] = row]
                     /\ \/ row = [lead[l] EXCEPT !.status = target]
                        \/ row = [lead[l] EXCEPT !.status = target, !.reason = r]
      BY <1>1
    <2>2. row.primary = lead[l].primary /\ row.status = target
      BY <2>1 DEF LeadRows, Pipeline!LeadRow
    <2>3. target # "NONE"
      BY DEF Pipeline!LeadStatus
    <2> QED BY <1>1, <2>1, <2>2, <2>3, OneLinkKeeps
  <1>2. {"QUALIFIED", "LOST", "CONVERTED"} \subseteq Pipeline!LeadStatus
    BY DEF Pipeline!LeadStatus
  <1>3. ASSUME NEW l \in Lead, NEW target \in Pipeline!LeadStatus,
               Pipeline!TransitionStatus(l, target)
        PROVE  Linked'
    BY <1>1, <1>3 DEF Pipeline!TransitionStatus, Pipeline!EnsureTransition, Pipeline!SetLead
  <1>4. ASSUME NEW l \in Lead, Pipeline!QualifyLead(l) PROVE Linked'
    BY <1>1, <1>2, <1>4 DEF Pipeline!QualifyLead, Pipeline!EnsureTransition, Pipeline!SetLead
  <1>5. ASSUME NEW l \in Lead, NEW r, Pipeline!MarkLeadLost(l, r) PROVE Linked'
    BY <1>1, <1>2, <1>5 DEF Pipeline!MarkLeadLost, Pipeline!EnsureTransition, Pipeline!SetLead
  <1>6. ASSUME NEW l \in Lead, Pipeline!ConvertLead(l) PROVE Linked'
    <2>1. lead' = [lead EXCEPT ![l] = [lead[l] EXCEPT !.status = "CONVERTED"]]
          /\ lead[l].status # "NONE"
      BY <1>6 DEF Pipeline!ConvertLead, LeadRows
    <2> QED BY <1>1, <1>2, <2>1
  <1>7. ASSUME NEW r \in Reason, Pipeline!UpdateLostReason(r) PROVE Linked'
    BY <1>7 DEF Pipeline!UpdateLostReason, Linked, Pipeline!Known
  <1> QED BY <1>3, <1>4, <1>5, <1>6, <1>7, AssignedLinks
             DEF Pipeline!PipelineStep, Pipeline!AssignLead, Pipeline!BulkAssign

LEMMA NextLinks ==
    ASSUME LeadRows, Linked, NEW l \in Lead, NEW next, lead' = [lead EXCEPT ![l].next = next]
    PROVE  Linked'
  <1> DEFINE row == [lead[l] EXCEPT !.next = next]
  <1>1. lead' = [lead EXCEPT ![l] = row]
    OBVIOUS
  <1>2. row.primary = lead[l].primary /\ row.status = lead[l].status
    BY DEF LeadRows, Pipeline!LeadRow
  <1> HIDE DEF row
  <1> QED BY <1>1, <1>2, OneLinkKeeps

LEMMA LinkInvStep == ASSUME LeadInv, LinkInv, [Pipeline!Next]_Pipeline!vars PROVE LinkInv'
  <1>0. LeadRows /\ Linked
    BY DEF LeadInv, LinkInv
  <1>1. Linked'
    <2>1. ASSUME UNCHANGED lead PROVE Linked'
      BY <1>0, <2>1 DEF Linked, Pipeline!Known
    <2>2. ASSUME NEW v, NEW a, NEW l \in Lead, NEW row, Pipeline!SetActivity(v, a, l, row)
          PROVE  Linked'
      BY <1>0, <2>2, NextLinks DEF Pipeline!SetActivity
    <2>3. ASSUME Pipeline!ActivityStep PROVE Linked'
      BY <2>2, <2>3 DEF Pipeline!ActivityStep, Pipeline!CreateActivity, Pipeline!UpdateActivity,
                        Pipeline!CompleteFollowUp, Pipeline!DeleteActivity
    <2>4. ASSUME NEW w \in Visit, NEW a, NEW due, Pipeline!CheckOut(w, a, due) PROVE Linked'
      <3>1. visit[w].lead \in Lead
        BY <2>4 DEF Pipeline!CheckOut, LeadInv, Referred, Pipeline!Known
      <3> QED BY <1>0, <2>4, <3>1, NextLinks DEF Pipeline!CheckOut
    <2>5. ASSUME Pipeline!VisitStep PROVE Linked'
      BY <2>1, <2>4, <2>5
         DEF Pipeline!VisitStep, Pipeline!SetVisit, Pipeline!CreateVisit, Pipeline!UpdateVisit,
             Pipeline!ChangeVisitStatus, Pipeline!CheckIn, Pipeline!DeleteVisit,
             Pipeline!CheckOutCustomer, Pipeline!VisitFallsDue
    <2> QED BY <1>0, <2>1, <2>3, <2>5, EntryLinks, PipelineLinks
               DEF Pipeline!Next, Pipeline!Step, Pipeline!Begin, Pipeline!vars
  <1>2. ASSUME Pipeline!EntryStep \/ Pipeline!ActivityStep \/ Pipeline!VisitStep
        PROVE  UNCHANGED <<reason, views>>
    <2>1. ASSUME Pipeline!EntryStep PROVE UNCHANGED <<reason, views>>
      BY <2>1 DEF Pipeline!EntryStep, Pipeline!CreateLead, Pipeline!CommitImport, Pipeline!AddLeads,
                  Pipeline!UpdateLead, Pipeline!SetLead, Pipeline!ResolveDuplicates,
                  Pipeline!DeleteLead, Pipeline!others
    <2>2. ASSUME Pipeline!ActivityStep PROVE UNCHANGED <<reason, views>>
      <3>1. ASSUME NEW v, NEW a, NEW l, NEW row, Pipeline!SetActivity(v, a, l, row)
            PROVE  UNCHANGED <<reason, views>>
        BY <3>1 DEF Pipeline!SetActivity, Pipeline!others
      <3> QED BY <2>2, <3>1 DEF Pipeline!ActivityStep, Pipeline!CreateActivity,
                 Pipeline!UpdateActivity, Pipeline!CompleteFollowUp, Pipeline!DeleteActivity
    <2>3. ASSUME Pipeline!VisitStep PROVE UNCHANGED <<reason, views>>
      BY <2>3 DEF Pipeline!VisitStep, Pipeline!SetVisit, Pipeline!CreateVisit,
                  Pipeline!UpdateVisit, Pipeline!ChangeVisitStatus, Pipeline!CheckIn,
                  Pipeline!CheckOut, Pipeline!CheckOutCustomer, Pipeline!DeleteVisit,
                  Pipeline!VisitFallsDue, Pipeline!others
    <2> QED BY <1>2, <2>1, <2>2, <2>3
  <1>3. ASSUME Pipeline!PipelineStep
        PROVE  /\ UNCHANGED views
               /\ \/ reason' = reason
                  \/ \E r \in Reason : reason' = [reason EXCEPT ![r] = ~@]
    <2>1. ASSUME NEW r \in Reason, Pipeline!UpdateLostReason(r)
          PROVE  UNCHANGED views /\ reason' = [reason EXCEPT ![r] = ~@]
      BY <2>1 DEF Pipeline!UpdateLostReason
    <2>2. ASSUME NEW l \in Lead, NEW owner, Pipeline!AssignLead(l, owner)
          PROVE  UNCHANGED <<reason, views>>
      BY <2>2 DEF Pipeline!AssignLead, Pipeline!others
    <2>3. ASSUME NEW chosen, NEW owner, Pipeline!BulkAssign(chosen, owner)
          PROVE  UNCHANGED <<reason, views>>
      BY <2>3 DEF Pipeline!BulkAssign, Pipeline!others
    <2>4. ASSUME NEW l \in Lead, NEW target, NEW r,
                 \/ Pipeline!TransitionStatus(l, target)
                 \/ Pipeline!QualifyLead(l)
                 \/ Pipeline!ConvertLead(l)
                 \/ Pipeline!MarkLeadLost(l, r)
          PROVE  UNCHANGED <<reason, views>>
      BY <2>4 DEF Pipeline!TransitionStatus, Pipeline!QualifyLead, Pipeline!ConvertLead,
                  Pipeline!MarkLeadLost, Pipeline!SetLead, Pipeline!others
    <2>5. CASE \E r \in Reason : Pipeline!UpdateLostReason(r)
      BY <2>1, <2>5
    <2>6. CASE ~(\E r \in Reason : Pipeline!UpdateLostReason(r))
      BY <1>3, <2>2, <2>3, <2>4, <2>6 DEF Pipeline!PipelineStep
    <2> QED BY <2>5, <2>6
  <1>4. ASSUME Pipeline!Begin \/ UNCHANGED Pipeline!vars
        PROVE  UNCHANGED reason /\ (views' = views \/ views' = {Pipeline!Snapshot})
    BY <1>4 DEF Pipeline!Begin, Pipeline!vars, Pipeline!others
  <1>5. /\ views' = views \/ views' = {Pipeline!Snapshot}
        /\ \/ reason' = reason
           \/ \E r \in Reason : reason' = [reason EXCEPT ![r] = ~@]
    BY <1>2, <1>3, <1>4 DEF Pipeline!Next, Pipeline!Step
  <1>6. Pipeline!Snapshot \in ViewRow
    BY <1>0 DEF LeadRows, Pipeline!LeadRow, Pipeline!Snapshot, ViewRow
  <1>7. reason' \in [Reason -> BOOLEAN]
    BY <1>5 DEF LinkInv
  <1> QED BY <1>1, <1>5, <1>6, <1>7 DEF LinkInv

LEMMA LeadsTyped == ASSUME LeadInv, LinkInv PROVE Pipeline!TypeOK
  BY DEF LeadInv, LeadRows, Referred, LinkInv, Linked, ViewRow, Pipeline!TypeOK

(***************************************************************************)
(* Papers: for any documents, reviewers and managers.                      *)
(***************************************************************************)
PapersApart == None \notin Nat /\ LastDay \in Nat

PaperRows ==
    /\ day \in 0..LastDay
    /\ paper \in [Document -> Papers!CustomerDocument]
    /\ readings \subseteq [Document -> Papers!CustomerDocument]
    /\ \A d \in Document : paper[d].current => d \in Papers!Known

(* A paper belongs to a set that one began; what was uploaded has a file.  *)
Filed ==
    \A d \in Papers!Known : /\ paper[d].set \in Papers!Known
                            /\ paper[d].status = "UPLOADED" => paper[d].file

(* What a reading of today shows of a paper still holds: its date, that it *)
(* was not current, that it was refused or ran out; and what it does not   *)
(* show yet is not past its date.                                          *)
Faithful(v) ==
    \A d \in Document :
        IF v[d].status = "NONE" THEN d \in Papers!Known => ~Papers!Past(d)
        ELSE /\ d \in Papers!Known /\ v[d].expiry = paper[d].expiry
             /\ paper[d].current => v[d].current
             /\ v[d].status \in {"REJECTED", "EXPIRED"} =>
                   paper[d].status \in {"REJECTED", "EXPIRED"}

PaperInv == /\ PaperRows /\ Filed /\ Papers!NewestCounts
            /\ \A v \in readings : Faithful(v)

LEMMA PaperShows == PaperInv => Papers!NewestCounts
  BY DEF PaperInv

LEMMA PaperStart == ASSUME PapersApart, Papers!Init PROVE PaperInv
  BY DEF PapersApart, Papers!Init, PaperInv, PaperRows, Filed, Papers!NewestCounts, Papers!Known,
         Papers!NoDocument, Papers!CustomerDocument, Papers!Statuses, Papers!Date

LEMMA PresentFaithful == ASSUME PaperInv PROVE \A v \in Papers!Views : Faithful(v)
  BY DEF PaperInv, Papers!Views, Faithful, Papers!Known

(* Steps that take papers further, one or many, but neither make any nor   *)
(* change which is the current one or its date.                            *)
Progress ==
    /\ paper' \in [Document -> Papers!CustomerDocument]
    /\ \A d \in Document :
          /\ paper'[d].set = paper[d].set /\ paper'[d].version = paper[d].version
          /\ paper'[d].current = paper[d].current /\ paper'[d].expiry = paper[d].expiry
          /\ paper'[d].status = "NONE" <=> paper[d].status = "NONE"
          /\ paper[d].status \in {"REJECTED", "EXPIRED"} =>
                paper'[d].status \in {"REJECTED", "EXPIRED"}
          /\ paper'[d].status \in {"UPLOADED", "UNDER_REVIEW", "VERIFIED", "REJECTED"} =>
                paper'[d].file
          /\ paper'[d].status = "EXPIRED" => Papers!Past(d)

LEMMA ProgressKeeps ==
    ASSUME PapersApart, PaperInv, Progress, UNCHANGED <<day, readings>>, lapsed' = {}
    PROVE  PaperInv'
  <1>1. Papers!Known' = Papers!Known /\ \A d \in Document : Papers!Past(d)' <=> Papers!Past(d)
    BY DEF Progress, Papers!Known, Papers!Past
  <1>2. PaperRows'
    BY <1>1 DEF PaperInv, PaperRows, Progress, Papers!CustomerDocument, Papers!Date, Papers!Known
  <1>3. Filed'
    BY <1>1 DEF PaperInv, Filed, Progress, Papers!Known
  <1>4. \A d \in Document : Papers!Versions(d)' = Papers!Versions(d)
    BY <1>1 DEF Progress, Papers!Versions, Papers!Known
  <1>5. Papers!NewestCounts'
    <2> SUFFICES ASSUME NEW d \in Papers!Known
                 PROVE  /\ paper'[d].current <=>
                              \A e \in Papers!Versions(d) : paper'[e].version <= paper'[d].version
                        /\ \A e \in Papers!Versions(d) \ {d} :
                              paper'[e].version # paper'[d].version
                        /\ paper'[d].status \in {"UNDER_REVIEW", "VERIFIED", "REJECTED"} =>
                              paper'[d].file
                        /\ paper'[d].status = "EXPIRED" => Papers!Past(d)
      BY <1>1, <1>4 DEF Papers!NewestCounts, Papers!Known
    <2>1. d \in Document /\ \A e \in Papers!Versions(d) : e \in Document
      BY DEF Papers!Known, Papers!Versions
    <2>2. \A e \in Document : paper'[e].version = paper[e].version
      BY DEF Progress
    <2>3. /\ paper[d].current <=>
                \A e \in Papers!Versions(d) : paper[e].version <= paper[d].version
          /\ \A e \in Papers!Versions(d) \ {d} : paper[e].version # paper[d].version
      BY DEF PaperInv, Papers!NewestCounts
    <2> QED BY <2>1, <2>2, <2>3 DEF Progress
  <1>6. \A v \in readings : Faithful(v)'
    BY <1>1 DEF PaperInv, Progress, Faithful
  <1> QED BY <1>2, <1>3, <1>5, <1>6 DEF PaperInv

(* One paper of those there are gets a new status, and perhaps a file or a *)
(* reviewer.                                                               *)
LEMMA OneProgresses ==
    ASSUME PaperInv, NEW d \in Document, NEW row \in Papers!CustomerDocument,
           paper' = [paper EXCEPT ![d] = row],
           paper[d].status \in {"PENDING", "UPLOADED", "UNDER_REVIEW"},
           row.set = paper[d].set, row.version = paper[d].version,
           row.current = paper[d].current, row.expiry = paper[d].expiry,
           row.file, row.status \in {"UPLOADED", "UNDER_REVIEW", "VERIFIED", "REJECTED"}
    PROVE  Progress
  <1>1. ASSUME NEW e \in Document, e # d
        PROVE  /\ paper[e].status \in {"UPLOADED", "UNDER_REVIEW", "VERIFIED", "REJECTED"} =>
                     paper[e].file
               /\ paper[e].status = "EXPIRED" => Papers!Past(e)
    BY DEF PaperInv, Filed, Papers!NewestCounts, Papers!Known
  <1> QED BY <1>1 DEF PaperInv, PaperRows, Progress

LEMMA ExpiryProgresses ==
    ASSUME PaperInv, NEW v \in Papers!Views, paper' = Papers!Expired(Papers!Due(v))
    PROVE  Progress
  <1> DEFINE S == Papers!Due(v)
  <1>1. \A d \in S : d \in Document /\ d \in Papers!Known /\ Papers!Past(d)
    BY PresentFaithful DEF Papers!Due, Faithful, Papers!Past, Papers!EXPIRABLE_STATUSES
  <1>2. ASSUME NEW d \in Document
        PROVE  /\ paper'[d] \in Papers!CustomerDocument
               /\ paper'[d].set = paper[d].set /\ paper'[d].version = paper[d].version
               /\ paper'[d].current = paper[d].current /\ paper'[d].expiry = paper[d].expiry
               /\ paper'[d].file = paper[d].file
               /\ d \in S => paper'[d].status = "EXPIRED"
               /\ d \notin S => paper'[d].status = paper[d].status
    BY DEF Papers!Expired, PaperInv, PaperRows, Papers!CustomerDocument, Papers!Statuses
  <1>3. ASSUME NEW e \in Document
        PROVE  /\ paper[e].status \in {"UPLOADED", "UNDER_REVIEW", "VERIFIED", "REJECTED"} =>
                     paper[e].file
               /\ paper[e].status = "EXPIRED" => Papers!Past(e)
    BY DEF PaperInv, Filed, Papers!NewestCounts, Papers!Known
  <1>4. paper' \in [Document -> Papers!CustomerDocument]
    BY <1>2 DEF Papers!Expired
  <1> HIDE DEF S
  <1>5. \A d \in S : paper[d].status # "NONE"
    BY <1>1 DEF Papers!Known
  <1> QED BY <1>1, <1>2, <1>3, <1>4, <1>5 DEF Progress

-----------------------------------------------------------------------------
LEMMA RequestKeeps ==
    ASSUME PapersApart, PaperInv, NEW d \in Document, NEW expiry \in Papers!Date,
           Papers!CreateRequest(d, expiry)
    PROVE  PaperInv'
  <1> DEFINE row == [status |-> "PENDING", set |-> d, version |-> 1, current |-> TRUE,
                     file |-> FALSE, expiry |-> expiry, reviewer |-> None]
  <1>1. /\ row \in Papers!CustomerDocument /\ row.status = "PENDING" /\ row.set = d
        /\ row.current /\ row.version = 1 /\ row.expiry = expiry
    BY DEF Papers!CustomerDocument, Papers!Statuses
  <1>2. /\ paper' = [paper EXCEPT ![d] = row] /\ d \notin Papers!Known
        /\ UNCHANGED <<day, readings, lapsed>>
    BY DEF Papers!CreateRequest, Papers!Known
  <1> HIDE DEF row
  <1>3. /\ Papers!Known' = Papers!Known \cup {d}
        /\ paper'[d] = row /\ \A e \in Papers!Known : paper'[e] = paper[e]
    BY <1>1, <1>2 DEF PaperInv, PaperRows, Papers!Known
  <1>4. PaperRows'
    <2>1. \A e \in Document : paper'[e].current => e \in Papers!Known'
      BY <1>2, <1>3 DEF PaperInv, PaperRows
    <2> QED
      BY <1>1, <1>2, <2>1 DEF PaperInv, PaperRows, Papers!CustomerDocument, Papers!Date
  <1>5. Filed'
    BY <1>1, <1>3 DEF PaperInv, Filed
  <1>6. Papers!Versions(d)' = {d} /\ \A e \in Papers!Known : Papers!Versions(e)' = Papers!Versions(e)
    BY <1>1, <1>2, <1>3 DEF PaperInv, Filed, Papers!Versions
  <1>7. ~Papers!Past(d)' /\ \A e \in Papers!Known : Papers!Past(e)' <=> Papers!Past(e)
    <2>1. expiry # None => ~(expiry < day)
      BY DEF Papers!CreateRequest, Papers!ValidExpiry, Papers!Date, PaperInv, PaperRows, PapersApart
    <2> QED BY <1>1, <1>2, <1>3, <2>1 DEF Papers!Past
  <1>8. Papers!NewestCounts'
    <2>1. \A e \in Papers!Known : \A f \in Papers!Versions(e) : paper'[f] = paper[f]
      BY <1>3 DEF Papers!Versions
    <2> QED BY <1>1, <1>2, <1>3, <1>6, <1>7, <2>1 DEF PaperInv, Papers!NewestCounts
  <1>9. \A v \in readings : Faithful(v)'
    BY <1>2, <1>3, <1>7 DEF PaperInv, Faithful, Papers!Known
  <1> QED BY <1>2, <1>4, <1>5, <1>8, <1>9 DEF PaperInv

LEMMA VersionKeeps ==
    ASSUME PapersApart, PaperInv, NEW d \in Document, NEW next \in Document,
           NEW expiry \in Papers!Date, Papers!UploadVersion(d, next, expiry)
    PROVE  PaperInv'
  <1> DEFINE given == IF expiry # None THEN expiry ELSE paper[d].expiry
             version == paper[d].version + 1
             left == [paper[d] EXCEPT !.current = FALSE]
             row == Papers!Uploaded([paper[d] EXCEPT !.version = version, !.expiry = given])
  <1>1. /\ paper[d].current /\ paper[d].file /\ paper[next].status = "NONE"
        /\ Papers!ValidExpiry(given) /\ UNCHANGED <<day, readings, lapsed>>
        /\ \A e \in Papers!Versions(d) \ {d} : ~paper[e].current /\ paper[e].version # version
        /\ paper' = [[paper EXCEPT ![d] = left] EXCEPT ![next] = row]
    BY DEF Papers!UploadVersion, PaperInv, PaperRows
  <1>2. /\ row \in Papers!CustomerDocument /\ row.status = "UPLOADED" /\ row.file /\ row.current
        /\ row.set = paper[d].set /\ row.version = version /\ row.expiry = given
    <2> DEFINE middle == [paper[d] EXCEPT !.version = version, !.expiry = given]
    <2>1. given \in Papers!Date /\ version \in Nat /\ paper[d] \in Papers!CustomerDocument
      BY DEF PaperInv, PaperRows, Papers!CustomerDocument
    <2> HIDE DEF given, version
    <2>2. /\ middle \in Papers!CustomerDocument
          /\ middle.set = paper[d].set /\ middle.version = version /\ middle.expiry = given
          /\ middle.current
      BY <1>1, <2>1 DEF Papers!CustomerDocument
    <2>3. row = Papers!Uploaded(middle)
      OBVIOUS
    <2> HIDE DEF middle, row
    <2> QED BY <2>2, <2>3 DEF Papers!Uploaded, Papers!CustomerDocument, Papers!Statuses
  <1>3. /\ left \in Papers!CustomerDocument /\ ~left.current /\ left.status = paper[d].status
        /\ left.set = paper[d].set /\ left.version = paper[d].version
        /\ left.file = paper[d].file /\ left.expiry = paper[d].expiry
    BY DEF PaperInv, PaperRows, Papers!CustomerDocument
  <1> HIDE DEF row, left

  <1>4. d \in Papers!Known /\ next \notin Papers!Known /\ next # d
    BY <1>1 DEF PaperInv, PaperRows, Papers!Known
  <1>5. /\ paper'[next] = row /\ paper'[d] = left
        /\ \A e \in Document \ {d, next} : paper'[e] = paper[e]
    BY <1>1, <1>4 DEF PaperInv, PaperRows
  <1>6. paper' \in [Document -> Papers!CustomerDocument]
    BY <1>1, <1>2, <1>3 DEF PaperInv, PaperRows
  <1>7. Papers!Known' = Papers!Known \cup {next}
    BY <1>2, <1>3, <1>4, <1>5 DEF Papers!Known
  <1>8. PaperRows'
    BY <1>1, <1>2, <1>4, <1>5, <1>6, <1>7
       DEF PaperInv, PaperRows, Papers!CustomerDocument, Papers!Date, Papers!Known
  <1>9. \A e \in Papers!Known : /\ paper'[e].set = paper[e].set
                                /\ paper'[e].version = paper[e].version
                                /\ paper'[e].status = paper[e].status
                                /\ paper'[e].file = paper[e].file
                                /\ paper'[e].expiry = paper[e].expiry
                                /\ e # d => paper'[e].current = paper[e].current
    BY <1>3, <1>4, <1>5 DEF Papers!Known
  <1>10. Filed'
    BY <1>2, <1>4, <1>5, <1>7, <1>9 DEF PaperInv, Filed
  <1>11. ~Papers!Past(next)' /\ \A e \in Papers!Known : Papers!Past(e)' <=> Papers!Past(e)
    <2>1. given # None => ~(given < day)
      BY <1>1 DEF Papers!ValidExpiry, Papers!Date, Papers!CustomerDocument, PaperInv, PaperRows,
                  PapersApart
    <2>2. ~Papers!Past(next)'
      BY <1>1, <1>2, <1>5, <2>1 DEF Papers!Past
    <2>3. \A e \in Papers!Known : Papers!Past(e)' <=> Papers!Past(e)
      BY <1>1, <1>9 DEF Papers!Past
    <2> QED BY <2>2, <2>3
  <1> DEFINE V == Papers!Versions(d)
  <1>12. /\ \A e \in V : e \in Papers!Known /\ paper[e].version <= paper[d].version
         /\ d \in V /\ next \notin V
    BY <1>1, <1>4 DEF PaperInv, Papers!NewestCounts, Papers!Versions
  <1>13. \A e \in Papers!Known : paper[e].version \in Nat
    BY DEF PaperInv, PaperRows, Papers!CustomerDocument, Papers!Known
  <1>14. Papers!Versions(next)' = V \cup {next}
    BY <1>2, <1>5, <1>7, <1>9 DEF Papers!Versions
  <1>15. \A e \in V : Papers!Versions(e)' = V \cup {next}
    BY <1>2, <1>5, <1>7, <1>9 DEF Papers!Versions
  <1>16. \A e \in Papers!Known \ V : Papers!Versions(e)' = Papers!Versions(e)
    BY <1>2, <1>5, <1>7, <1>9 DEF Papers!Versions
  <1>17. \A e \in V : Papers!Versions(e) = V
    BY DEF Papers!Versions
  <1>18. \A e \in Papers!Known : \A f \in Papers!Versions(e) : f \in Papers!Known
    BY DEF Papers!Versions
  <1>19. \A e \in Papers!Known : e \notin V => d # e
    BY <1>12
  <1>20. lapsed' = {}
    BY <1>1 DEF PaperInv, Papers!NewestCounts
  <1> HIDE DEF V, given, version
  <1>21. version = paper[d].version + 1
    BY DEF version
  <1>22. \A e \in V : paper'[e].version < paper'[next].version /\ ~paper'[e].current
    <2>1. \A e \in V : e # d => ~paper[e].current
      BY <1>1 DEF V
    <2> QED BY <1>2, <1>3, <1>4, <1>5, <1>9, <1>12, <1>13, <1>21, <2>1
  <1> DEFINE Stands(e) ==
               /\ paper'[e].current <=>
                     \A f \in Papers!Versions(e)' : paper'[f].version <= paper'[e].version
               /\ \A f \in Papers!Versions(e)' \ {e} : paper'[f].version # paper'[e].version
               /\ paper'[e].status \in {"UNDER_REVIEW", "VERIFIED", "REJECTED"} => paper'[e].file
               /\ paper'[e].status = "EXPIRED" => Papers!Past(e)'
  <1>23. /\ \A e \in Papers!Known : paper'[e].version \in Nat
         /\ paper'[next].version \in Nat
    BY <1>2, <1>5, <1>4, <1>9, <1>13, <1>21
  <1>24. Stands(next)
    BY <1>2, <1>5, <1>12, <1>14, <1>22, <1>23
  <1>25. ASSUME NEW e \in V PROVE Stands(e)
    <2>1. /\ paper[e].status \in {"UNDER_REVIEW", "VERIFIED", "REJECTED"} => paper[e].file
          /\ paper[e].status = "EXPIRED" => Papers!Past(e)
          /\ \A f \in V \ {e} : paper[f].version # paper[e].version
      BY <1>12, <1>17, <1>25 DEF PaperInv, Papers!NewestCounts
    <2>2. ~(paper'[next].version <= paper'[e].version) /\ next \in Papers!Versions(e)'
      BY <1>12, <1>15, <1>22, <1>23
    <2>3. ~paper'[e].current
      BY <1>22
    <2>4. \A f \in Papers!Versions(e)' \ {e} : paper'[f].version # paper'[e].version
      BY <1>9, <1>12, <1>15, <1>22, <1>23, <2>1
    <2> QED BY <1>9, <1>11, <1>12, <2>1, <2>2, <2>3, <2>4
  <1>26. ASSUME NEW e \in Papers!Known \ V PROVE Stands(e)
    <2>1. /\ paper[e].status \in {"UNDER_REVIEW", "VERIFIED", "REJECTED"} => paper[e].file
          /\ paper[e].status = "EXPIRED" => Papers!Past(e)
          /\ \A f \in Papers!Versions(e) \ {e} : paper[f].version # paper[e].version
          /\ paper[e].current <=>
                \A f \in Papers!Versions(e) : paper[f].version <= paper[e].version
      BY DEF PaperInv, Papers!NewestCounts
    <2> QED BY <1>9, <1>11, <1>16, <1>18, <1>19, <2>1
  <1>27. Papers!NewestCounts'
    BY <1>7, <1>20, <1>24, <1>25, <1>26 DEF Papers!NewestCounts
  <1>28. \A v \in readings : Faithful(v)'
    <2> SUFFICES ASSUME NEW v \in readings, NEW e \in Document
                 PROVE  IF v[e].status = "NONE" THEN e \in Papers!Known' => ~Papers!Past(e)'
                        ELSE /\ e \in Papers!Known' /\ v[e].expiry = paper'[e].expiry
                             /\ paper'[e].current => v[e].current
                             /\ v[e].status \in {"REJECTED", "EXPIRED"} =>
                                   paper'[e].status \in {"REJECTED", "EXPIRED"}
      BY DEF Faithful
    <2>1. IF v[e].status = "NONE" THEN e \in Papers!Known => ~Papers!Past(e)
          ELSE /\ e \in Papers!Known /\ v[e].expiry = paper[e].expiry
               /\ paper[e].current => v[e].current
               /\ v[e].status \in {"REJECTED", "EXPIRED"} =>
                     paper[e].status \in {"REJECTED", "EXPIRED"}
      BY DEF PaperInv, Faithful
    <2>2. e = d => ~paper'[e].current
      BY <1>3, <1>5
    <2> QED BY <1>4, <1>7, <1>9, <1>11, <2>1, <2>2
  <1> QED BY <1>1, <1>8, <1>10, <1>27, <1>28 DEF PaperInv

LEMMA UploadKeeps ==
    ASSUME PapersApart, PaperInv, NEW d \in Document, Papers!UploadInitial(d)
    PROVE  PaperInv'
  <1> DEFINE row == Papers!Uploaded(paper[d])
  <1>1. /\ row \in Papers!CustomerDocument /\ row.status = "UPLOADED" /\ row.file
        /\ row.set = paper[d].set /\ row.version = paper[d].version
        /\ row.current = paper[d].current /\ row.expiry = paper[d].expiry
    BY DEF Papers!Uploaded, PaperInv, PaperRows, Papers!CustomerDocument, Papers!Statuses
  <1>2. paper' = [paper EXCEPT ![d] = row] /\ UNCHANGED <<day, readings, lapsed>>
    BY DEF Papers!UploadInitial
  <1> HIDE DEF row
  <1>3. Progress
    BY <1>1, <1>2, OneProgresses DEF Papers!UploadInitial
  <1> QED BY <1>2, <1>3, ProgressKeeps DEF PaperInv, Papers!NewestCounts

LEMMA ReviewKeeps ==
    ASSUME PapersApart, PaperInv, NEW d \in Document, NEW reviewer \in Reviewer,
           Papers!StartReview(d, reviewer)
    PROVE  PaperInv'
  <1> DEFINE row == [paper[d] EXCEPT !.status = "UNDER_REVIEW", !.reviewer = reviewer]
  <1>1. /\ row \in Papers!CustomerDocument /\ row.status = "UNDER_REVIEW"
        /\ row.file = paper[d].file
        /\ row.set = paper[d].set /\ row.version = paper[d].version
        /\ row.current = paper[d].current /\ row.expiry = paper[d].expiry
    BY DEF PaperInv, PaperRows, Papers!CustomerDocument, Papers!Statuses
  <1>2. /\ paper' = [paper EXCEPT ![d] = row] /\ UNCHANGED <<day, readings, lapsed>>
        /\ paper[d].status = "UPLOADED"
    BY DEF Papers!StartReview, PaperInv, PaperRows
  <1>3. paper[d].file
    BY <1>2 DEF PaperInv, Filed, Papers!Known
  <1> HIDE DEF row
  <1>4. Progress
    BY <1>1, <1>2, <1>3, OneProgresses
  <1> QED BY <1>2, <1>4, ProgressKeeps DEF PaperInv, Papers!NewestCounts

LEMMA VerdictKeeps ==
    ASSUME PapersApart, PaperInv, NEW d \in Document, NEW actor, NEW verdict,
           verdict \in {"VERIFIED", "REJECTED"}, Papers!DecideReview(d, actor, verdict)
    PROVE  PaperInv'
  <1> DEFINE row == [paper[d] EXCEPT !.status = verdict]
  <1>1. /\ row \in Papers!CustomerDocument /\ row.status = verdict
        /\ row.file = paper[d].file
        /\ row.set = paper[d].set /\ row.version = paper[d].version
        /\ row.current = paper[d].current /\ row.expiry = paper[d].expiry
    BY DEF PaperInv, PaperRows, Papers!CustomerDocument, Papers!Statuses
  <1>2. /\ paper' = [paper EXCEPT ![d] = row] /\ UNCHANGED <<day, readings, lapsed>>
        /\ paper[d].status = "UNDER_REVIEW"
    BY DEF Papers!DecideReview, PaperInv, PaperRows
  <1>3. paper[d].file
    BY <1>2 DEF PaperInv, Papers!NewestCounts, Papers!Known
  <1> HIDE DEF row
  <1>4. Progress
    BY <1>1, <1>2, <1>3, OneProgresses
  <1> QED BY <1>2, <1>4, ProgressKeeps DEF PaperInv, Papers!NewestCounts

(* The search that follows an expiry finds nothing that is past its date:  *)
(* what v shows as verified and overdue is what expires.                   *)
LEMMA NothingLapses ==
    ASSUME PaperInv, NEW v \in Papers!Views, Papers!RelyOnKyc(v)
    PROVE  lapsed' = {}
  <1> DEFINE due == Papers!Due(v)
             rows == IF due = {} THEN v ELSE Papers!Expired(due)
  <1>1. /\ lapsed' = lapsed \cup {d \in Papers!Verified(rows) : Papers!Past(d)}
        /\ lapsed = {} /\ Faithful(v)
    BY PresentFaithful DEF Papers!RelyOnKyc, PaperInv, Papers!NewestCounts
  <1>2. ASSUME NEW d \in Document, Papers!Past(d), v[d].current, v[d].status = "VERIFIED"
        PROVE  d \in due
    BY <1>1, <1>2 DEF Faithful, Papers!Past, Papers!Due, Papers!EXPIRABLE_STATUSES
  <1>3. ASSUME NEW d \in Papers!Verified(rows), Papers!Past(d) PROVE FALSE
    <2>1. CASE due = {}
      BY <1>2, <1>3, <2>1 DEF Papers!Verified
    <2>2. CASE due # {}
      <3>1. d \in Document /\ rows[d].current /\ rows[d].status = "VERIFIED"
        BY DEF Papers!Verified
      <3>2. d \notin due
        BY <2>2, <3>1 DEF Papers!Expired, PaperInv, PaperRows, Papers!CustomerDocument
      <3>3. rows[d] = paper[d]
        BY <2>2, <3>1, <3>2 DEF Papers!Expired
      <3>4. d \in Papers!Known /\ paper[d].current /\ paper[d].status = "VERIFIED"
        BY <3>1, <3>3 DEF Papers!Known
      <3>5. v[d].current /\ v[d].expiry = paper[d].expiry
        BY <1>1, <1>3, <3>1, <3>4 DEF Faithful
      <3>6. v[d].status \in Papers!EXPIRABLE_STATUSES
        <4>1. v[d] \in Papers!CustomerDocument
          BY <3>1 DEF PaperInv, PaperRows, Papers!Views
        <4>2. v[d].status \notin {"NONE", "REJECTED", "EXPIRED"}
          BY <1>1, <1>3, <3>1, <3>4 DEF Faithful
        <4> QED
          BY <4>1, <4>2 DEF Papers!CustomerDocument, Papers!Statuses, Papers!EXPIRABLE_STATUSES
      <3> QED BY <1>3, <3>1, <3>2, <3>5, <3>6 DEF Papers!Due, Papers!Past
    <2> QED BY <2>1, <2>2
  <1> QED BY <1>1, <1>3

LEMMA ExpiryKeeps ==
    ASSUME PapersApart, PaperInv, NEW v \in Papers!Views,
           Papers!ExpireDueDocuments(v) \/ Papers!RelyOnKyc(v)
    PROVE  PaperInv'
  <1>1. Progress
    BY ExpiryProgresses DEF Papers!ExpireDueDocuments, Papers!RelyOnKyc
  <1>2. lapsed' = {}
    BY NothingLapses DEF Papers!ExpireDueDocuments, PaperInv, Papers!NewestCounts
  <1> QED
    BY <1>1, <1>2, ProgressKeeps DEF Papers!ExpireDueDocuments, Papers!RelyOnKyc

LEMMA DayKeeps == ASSUME PapersApart, PaperInv, Papers!NextDay PROVE PaperInv'
  <1>1. /\ day' = day + 1 /\ day' \in 0..LastDay /\ readings' = {}
        /\ UNCHANGED <<paper, lapsed>>
    BY DEF Papers!NextDay, PaperInv, PaperRows, PapersApart
  <1>2. \A d \in Document : Papers!Past(d) => Papers!Past(d)'
    BY <1>1 DEF Papers!Past, PaperInv, PaperRows, Papers!CustomerDocument, Papers!Date, PapersApart
  <1>3. PaperRows'
    BY <1>1 DEF PaperInv, PaperRows, Papers!CustomerDocument, Papers!Date, Papers!Known
  <1>4. Filed'
    BY <1>1 DEF PaperInv, Filed, Papers!Known
  <1>5. Papers!NewestCounts'
    BY <1>1, <1>2 DEF PaperInv, Papers!NewestCounts, Papers!Known, Papers!Versions
  <1> QED BY <1>1, <1>3, <1>4, <1>5 DEF PaperInv

LEMMA RestKeeps ==
    ASSUME PaperInv, Papers!Begin \/ UNCHANGED Papers!vars PROVE PaperInv'
  <1>1. UNCHANGED <<day, paper, lapsed>> /\ readings' \subseteq Papers!Views
    BY DEF Papers!Begin, Papers!vars, Papers!Views
  <1>2. \A v \in readings' : Faithful(v)'
    BY <1>1, PresentFaithful DEF Faithful, Papers!Known, Papers!Past
  <1>3. PaperRows'
    BY <1>1 DEF PaperInv, PaperRows, Papers!Views, Papers!CustomerDocument, Papers!Date, Papers!Known
  <1>4. Filed' /\ Papers!NewestCounts'
    BY <1>1 DEF PaperInv, Filed, Papers!NewestCounts, Papers!Known, Papers!Versions, Papers!Past
  <1> QED BY <1>2, <1>3, <1>4 DEF PaperInv

LEMMA PaperInvStep == ASSUME PapersApart, PaperInv, [Papers!Next]_Papers!vars PROVE PaperInv'
  <1>1. ASSUME NEW d \in Document, NEW expiry \in Papers!Date, Papers!CreateRequest(d, expiry)
        PROVE  PaperInv'
    BY <1>1, RequestKeeps
  <1>2. ASSUME NEW d \in Document, Papers!UploadInitial(d)
        PROVE  PaperInv'
    BY <1>2, UploadKeeps
  <1>3. ASSUME NEW d \in Document, NEW next \in Document, NEW expiry \in Papers!Date,
               Papers!UploadVersion(d, next, expiry)
        PROVE  PaperInv'
    BY <1>3, VersionKeeps
  <1>4. ASSUME NEW d \in Document, NEW reviewer \in Reviewer, Papers!StartReview(d, reviewer)
        PROVE  PaperInv'
    BY <1>4, ReviewKeeps
  <1>5. ASSUME NEW d \in Document, NEW actor \in Reviewer, NEW verdict \in {"VERIFIED", "REJECTED"},
               Papers!DecideReview(d, actor, verdict)
        PROVE  PaperInv'
    BY <1>5, VerdictKeeps
  <1>6. ASSUME NEW v \in Papers!Views, Papers!ExpireDueDocuments(v) \/ Papers!RelyOnKyc(v)
        PROVE  PaperInv'
    BY <1>6, ExpiryKeeps
  <1> QED BY <1>1, <1>2, <1>3, <1>4, <1>5, <1>6, DayKeeps, RestKeeps DEF Papers!Next

(* Of a paper's versions the newest is the current one, on what it says of *)
(* itself, and no booking goes on with one that ran out, whatever reading  *)
(* of the day its request looked at.                                       *)
THEOREM PapersCorrect ==
    ASSUME PapersApart
    PROVE  Papers!Init /\ [][Papers!Next]_Papers!vars => []Papers!NewestCounts
  <1>1. Papers!Init => PaperInv
    BY PaperStart
  <1>2. PaperInv /\ [Papers!Next]_Papers!vars => PaperInv'
    BY PaperInvStep
  <1> QED BY <1>1, <1>2, PaperShows, PTL

-----------------------------------------------------------------------------
-----------------------------------------------------------------------------
(* Versions are counted from one.                                          *)
Numbered == \A d \in Papers!Known : paper[d].version >= 1

LEMMA NumberedStart == ASSUME Papers!Init PROVE Numbered
  BY DEF Papers!Init, Numbered, Papers!Known, Papers!NoDocument

LEMMA NumberedKeeps == ASSUME PaperInv, Numbered, [Papers!Next]_Papers!vars PROVE Numbered'
  <1>0. /\ paper \in [Document -> Papers!CustomerDocument]
        /\ \A d \in Papers!Known : paper[d].version >= 1
        /\ \A d \in Document : paper[d].current => d \in Papers!Known
    BY DEF PaperInv, PaperRows, Numbered
  <1>1. CASE paper' = paper
    BY <1>1 DEF Numbered, Papers!Known
  <1>2. ASSUME Progress PROVE Numbered'
    BY <1>2 DEF Progress, Numbered, Papers!Known
  <1>3. ASSUME NEW d \in Document, NEW row, paper' = [paper EXCEPT ![d] = row], row.version >= 1
        PROVE  Numbered'
    BY <1>0, <1>3 DEF Numbered, Papers!Known
  <1>4. ASSUME NEW d \in Document, NEW expiry, Papers!CreateRequest(d, expiry) PROVE Numbered'
    <2> DEFINE row == [status |-> "PENDING", set |-> d, version |-> 1, current |-> TRUE,
                       file |-> FALSE, expiry |-> expiry, reviewer |-> None]
    <2>1. paper' = [paper EXCEPT ![d] = row] /\ row.version >= 1
      BY <1>4 DEF Papers!CreateRequest
    <2> HIDE DEF row
    <2> QED BY <1>3, <2>1
  <1>5. ASSUME NEW d \in Document, Papers!UploadInitial(d) PROVE Numbered'
    <2> DEFINE row == Papers!Uploaded(paper[d])
    <2>1. paper' = [paper EXCEPT ![d] = row] /\ d \in Papers!Known
      BY <1>5 DEF Papers!UploadInitial, Papers!Known
    <2>2. row.version = paper[d].version
      BY <1>0 DEF Papers!Uploaded, Papers!CustomerDocument
    <2> HIDE DEF row
    <2> QED BY <1>0, <1>3, <2>1, <2>2
  <1>6. ASSUME NEW d \in Document, NEW reviewer, Papers!StartReview(d, reviewer) PROVE Numbered'
    <2> DEFINE row == [paper[d] EXCEPT !.status = "UNDER_REVIEW", !.reviewer = reviewer]
    <2>1. paper' = [paper EXCEPT ![d] = row] /\ d \in Papers!Known
      BY <1>0, <1>6 DEF Papers!StartReview
    <2>2. row.version = paper[d].version
      BY <1>0 DEF Papers!CustomerDocument
    <2> HIDE DEF row
    <2> QED BY <1>0, <1>3, <2>1, <2>2
  <1>7. ASSUME NEW d \in Document, NEW actor, NEW verdict, Papers!DecideReview(d, actor, verdict)
        PROVE  Numbered'
    <2> DEFINE row == [paper[d] EXCEPT !.status = verdict]
    <2>1. paper' = [paper EXCEPT ![d] = row] /\ d \in Papers!Known
      BY <1>0, <1>7 DEF Papers!DecideReview
    <2>2. row.version = paper[d].version
      BY <1>0 DEF Papers!CustomerDocument
    <2> HIDE DEF row
    <2> QED BY <1>0, <1>3, <2>1, <2>2
  <1>8. ASSUME NEW d \in Document, NEW next \in Document, NEW expiry,
               Papers!UploadVersion(d, next, expiry)
        PROVE  Numbered'
    <2> DEFINE version == paper[d].version + 1
               given == IF expiry # None THEN expiry ELSE paper[d].expiry
               row == Papers!Uploaded([paper[d] EXCEPT !.version = version, !.expiry = given])
               new == [paper EXCEPT ![d].current = FALSE]
    <2>1. /\ paper' = [new EXCEPT ![next] = row]
          /\ d \in Papers!Known /\ next \notin Papers!Known
      BY <1>0, <1>8 DEF Papers!UploadVersion, Papers!Known
    <2>2. row.version = version
      BY <1>0 DEF Papers!Uploaded, Papers!CustomerDocument
    <2>3. paper[d].version >= 1 /\ paper[d].version \in Nat
      BY <1>0, <2>1 DEF Papers!CustomerDocument
    <2>4. version >= 1
      BY <2>3
    <2>5. \A e \in Document : /\ e \in Papers!Known => new[e].version >= 1
                              /\ new[e].status = paper[e].status
      BY <1>0, <2>1 DEF Papers!CustomerDocument
    <2> HIDE DEF row, version, given
    <2>6. \A e \in Document : paper'[e] = IF e = next THEN row ELSE new[e]
      BY <1>0, <2>1
    <2> HIDE DEF new
    <2> QED BY <2>2, <2>4, <2>5, <2>6 DEF Numbered, Papers!Known
  <1>9. ASSUME NEW v \in Papers!Views, Papers!ExpireDueDocuments(v) \/ Papers!RelyOnKyc(v)
        PROVE  Numbered'
    BY <1>2, <1>9, ExpiryProgresses DEF Papers!ExpireDueDocuments, Papers!RelyOnKyc
  <1> QED BY <1>1, <1>4, <1>5, <1>6, <1>7, <1>8, <1>9
             DEF Papers!Next, Papers!vars, Papers!Begin, Papers!NextDay

LEMMA PapersTyped == ASSUME PaperInv, Numbered PROVE Papers!TypeOK
  <1>1. lapsed = {}
    BY DEF PaperInv, Papers!NewestCounts
  <1>2. \A v \in Papers!Views : v \in [Document -> Papers!CustomerDocument]
    BY DEF Papers!Views, PaperInv, PaperRows
  <1> QED BY <1>1, <1>2 DEF PaperInv, PaperRows, Filed, Numbered, Papers!TypeOK

(***************************************************************************)
(* Quotations: for any price lists, requests and sellers.                  *)
(***************************************************************************)
(* A quotation's number is that of one that was made, and of the versions  *)
(* with that number there is a newest.                                     *)
QuoteRows ==
    /\ DOMAIN quote = Quote
    /\ \A q \in Offer!Quotes : /\ {"status", "number", "version"} \subseteq DOMAIN quote[q]
                               /\ quote[q].number \in Offer!Quotes /\ quote[q].version \in Nat
Newest ==
    \A q \in Offer!Quotes : \E n \in Offer!Versions(q) :
        \A p \in Offer!Versions(q) : quote[p].version <= quote[n].version

OfferInv == QuoteRows /\ Newest /\ Offer!OneOpen

LEMMA OfferShows == OfferInv => Offer!OneOpen
  BY DEF OfferInv

LEMMA OfferStart == ASSUME Offer!Init PROVE OfferInv
  BY DEF Offer!Init, OfferInv, QuoteRows, Newest, Offer!OneOpen, Offer!Quotes, Offer!NoQuote

LEMMA VersionsShare ==
    \A p, q \in Offer!Quotes : p \in Offer!Versions(q) <=> quote[p].number = quote[q].number
  BY DEF Offer!Versions

(* The newest version's number is the largest of those there are.          *)
LEMMA NewestIs ==
    ASSUME OfferInv, NEW source \in Offer!Quotes
    PROVE  /\ Offer!NewestVersion(source) \in Nat
           /\ \A p \in Offer!Versions(source) : quote[p].version <= Offer!NewestVersion(source)
  <1>1. PICK n \in Offer!Versions(source) :
                \A p \in Offer!Versions(source) : quote[p].version <= quote[n].version
    BY DEF OfferInv, Newest
  <1>2. quote[n].version \in {quote[q].version : q \in Offer!Versions(source)}
    OBVIOUS
  <1>3. /\ Offer!NewestVersion(source) \in {quote[q].version : q \in Offer!Versions(source)}
        /\ \A p \in Offer!Versions(source) : quote[p].version <= Offer!NewestVersion(source)
    BY <1>1, <1>2, Zenon DEF Offer!NewestVersion
  <1> QED BY <1>3 DEF OfferInv, QuoteRows, Offer!Versions

(* A step after which no version is open that was not, that keeps numbers  *)
(* and versions.                                                           *)
LEMMA QuotesKeep ==
    ASSUME OfferInv, DOMAIN quote' = Quote, Offer!Quotes' = Offer!Quotes,
           \A q \in Offer!Quotes :
              /\ DOMAIN quote'[q] = DOMAIN quote[q]
              /\ quote'[q].number = quote[q].number /\ quote'[q].version = quote[q].version
              /\ quote'[q].status \in {"DRAFT", "SENT"} => quote[q].status \in {"DRAFT", "SENT"}
    PROVE  OfferInv'
  <1>1. QuoteRows'
    BY DEF OfferInv, QuoteRows
  <1>2. \A q \in Offer!Quotes : Offer!Versions(q)' = Offer!Versions(q)
    BY DEF Offer!Versions
  <1>3. \A q \in Offer!Quotes : \A p \in Offer!Versions(q) : p \in Offer!Quotes
    BY DEF Offer!Versions
  <1>4. Newest'
    BY <1>2, <1>3 DEF OfferInv, Newest
  <1>5. Offer!OneOpen'
    BY <1>2, <1>3 DEF OfferInv, Offer!OneOpen
  <1> QED BY <1>1, <1>4, <1>5 DEF OfferInv

LEMMA StatusKeeps ==
    ASSUME OfferInv, NEW q \in Quote, NEW target, Offer!ChangeQuotationStatus(q, target)
    PROVE  OfferInv'
  <1> DEFINE row == [quote[q] EXCEPT !.status = target]
  <1>1. /\ quote' = [quote EXCEPT ![q] = row] /\ quote[q].status \in {"DRAFT", "SENT"}
        /\ target \in {"SENT", "EXPIRED", "ACCEPTED", "REJECTED"}
    BY DEF Offer!ChangeQuotationStatus, Offer!SetQuote, Offer!QuoteMoves
  <1>2. q \in Offer!Quotes
    BY <1>1 DEF Offer!Quotes
  <1>3. /\ DOMAIN row = DOMAIN quote[q] /\ row.number = quote[q].number
        /\ row.version = quote[q].version /\ row.status = target
    BY <1>2 DEF OfferInv, QuoteRows
  <1> HIDE DEF row
  <1>4. quote'[q] = row /\ \A p \in Quote \ {q} : quote'[p] = quote[p]
    BY <1>1 DEF OfferInv, QuoteRows
  <1>5. DOMAIN quote' = Quote /\ Offer!Quotes' = Offer!Quotes
    BY <1>1, <1>2, <1>3, <1>4 DEF OfferInv, QuoteRows, Offer!Quotes
  <1> QED BY <1>1, <1>2, <1>3, <1>4, <1>5, QuotesKeep DEF Offer!Quotes

LEMMA NewRow ==
    ASSUME NEW s, NEW number, NEW version, NEW parent
    PROVE  LET row == Offer!QuotationRow(s, number, version, parent) IN
           /\ {"status", "number", "version"} \subseteq DOMAIN row
           /\ row.status = "DRAFT" /\ row.number = number /\ row.version = version
  BY DEF Offer!QuotationRow

LEMMA QuotationKeeps ==
    ASSUME OfferInv, NEW q \in Quote, NEW s, Offer!CreateQuotation(q, s)
    PROVE  OfferInv'
  <1> DEFINE row == Offer!QuotationRow(s, q, 1, q)
  <1>1. /\ {"status", "number", "version"} \subseteq DOMAIN row
        /\ row.status = "DRAFT" /\ row.number = q /\ row.version = 1
    BY NewRow
  <1>2. quote' = [quote EXCEPT ![q] = row] /\ q \notin Offer!Quotes
    BY DEF Offer!CreateQuotation, Offer!CreateQuotationRecord, Offer!Quotes
  <1> HIDE DEF row
  <1>3. DOMAIN quote' = Quote /\ quote'[q] = row /\ \A p \in Quote \ {q} : quote'[p] = quote[p]
    BY <1>2 DEF OfferInv, QuoteRows
  <1>4. Offer!Quotes' = Offer!Quotes \cup {q} /\ \A p \in Offer!Quotes : quote'[p] = quote[p]
    BY <1>1, <1>2, <1>3 DEF Offer!Quotes
  <1>5. QuoteRows'
    BY <1>1, <1>3, <1>4 DEF OfferInv, QuoteRows
  <1>6. \A p \in Offer!Quotes : Offer!Versions(p)' = Offer!Versions(p)
    BY <1>1, <1>2, <1>3, <1>4 DEF OfferInv, QuoteRows, Offer!Versions
  <1>7. Offer!Versions(q)' = {q}
    BY <1>1, <1>2, <1>3, <1>4 DEF OfferInv, QuoteRows, Offer!Versions
  <1>8. \A p \in Offer!Quotes : \A n \in Offer!Versions(p) : n \in Offer!Quotes
    BY DEF Offer!Versions
  <1>9. Newest'
    BY <1>1, <1>3, <1>4, <1>6, <1>7, <1>8 DEF OfferInv, Newest
  <1>10. Offer!OneOpen'
    BY <1>3, <1>4, <1>6, <1>7, <1>8 DEF OfferInv, Offer!OneOpen
  <1> QED BY <1>5, <1>9, <1>10 DEF OfferInv

LEMMA NewVersionKeeps ==
    ASSUME OfferInv, NEW q \in Quote, NEW source \in Quote, NEW s,
           Offer!CreateQuotationVersion(q, source, s)
    PROVE  OfferInv'
  <1> DEFINE version == Offer!NewestVersion(source) + 1
             row == Offer!QuotationRow(s, quote[source].number, version, source)
             V == Offer!Versions(source)
  <1>1. /\ {"status", "number", "version"} \subseteq DOMAIN row
        /\ row.status = "DRAFT" /\ row.number = quote[source].number /\ row.version = version
    BY NewRow
  <1>2. /\ quote' = [Offer!Superseded(source) EXCEPT ![q] = row] /\ q \notin Offer!Quotes
        /\ source \in Offer!Quotes
    BY DEF Offer!CreateQuotationVersion, Offer!CreateQuotationRecord, Offer!Quotes
  <1>3. /\ version \in Nat
        /\ \A p \in V : p \in Offer!Quotes /\ quote[p].version < version
    BY <1>2, NewestIs DEF OfferInv, QuoteRows, Offer!Versions
  <1> HIDE DEF row, version
  <1>4. DOMAIN quote' = Quote /\ quote'[q] = row
    BY <1>2 DEF Offer!Superseded
  <1>5. ASSUME NEW p \in Offer!Quotes
        PROVE  /\ DOMAIN quote'[p] = DOMAIN quote[p] /\ p \in Quote
               /\ quote'[p].number = quote[p].number /\ quote'[p].version = quote[p].version
               /\ quote'[p].status # "NONE"
               /\ p \notin V => quote'[p] = quote[p]
               /\ p \in V => quote'[p].status \notin {"DRAFT", "SENT"}
    <2>1. p \in Quote /\ p # q /\ {"status", "number", "version"} \subseteq DOMAIN quote[p]
      BY <1>2 DEF OfferInv, QuoteRows, Offer!Quotes
    <2>2. quote'[p] = IF p \in V /\ quote[p].status \notin {"ACCEPTED", "REJECTED"}
                      THEN [quote[p] EXCEPT !.status = "SUPERSEDED"] ELSE quote[p]
      BY <1>2, <2>1 DEF Offer!Superseded
    <2>3. quote[p].status # "NONE"
      BY DEF Offer!Quotes
    <2> QED BY <2>1, <2>2, <2>3
  <1>6. \A p \in Quote \ {q} : p \notin Offer!Quotes => quote'[p].status = "NONE"
    <2>1. \A p \in V : p \in Offer!Quotes
      BY <1>3
    <2> QED BY <1>2, <2>1 DEF Offer!Superseded, Offer!Quotes
  <1>7. Offer!Quotes' = Offer!Quotes \cup {q}
    BY <1>1, <1>4, <1>5, <1>6 DEF Offer!Quotes
  <1>8. QuoteRows'
    BY <1>1, <1>2, <1>3, <1>4, <1>5, <1>7 DEF OfferInv, QuoteRows
  <1>9. Offer!Versions(q)' = V \cup {q}
    BY <1>1, <1>2, <1>4, <1>5, <1>7 DEF Offer!Versions
  <1>10. \A p \in V : Offer!Versions(p)' = V \cup {q}
    BY <1>1, <1>2, <1>4, <1>5, <1>7 DEF Offer!Versions
  <1>11. \A p \in Offer!Quotes \ V : Offer!Versions(p)' = Offer!Versions(p)
    BY <1>1, <1>2, <1>4, <1>5, <1>7 DEF Offer!Versions
  <1>12. \A p \in V : Offer!Versions(p) = V
    BY DEF Offer!Versions
  <1>13. \A p \in Offer!Quotes : \A n \in Offer!Versions(p) : n \in Offer!Quotes
    BY DEF Offer!Versions
  <1>14. \A p \in Offer!Quotes \ V : \A n \in Offer!Versions(p) : n \notin V
    BY DEF Offer!Versions
  <1>15. quote'[q].version = version /\ q \notin V
    BY <1>1, <1>2, <1>3, <1>4
  <1>16. \A p \in V : quote'[p].version < quote'[q].version
    BY <1>3, <1>5, <1>15
  <1>17. \A p \in Offer!Quotes : quote'[p].version \in Nat
    BY <1>5 DEF OfferInv, QuoteRows
  <1> HIDE DEF V
  <1>18. Newest'
    <2>1. \A p \in V \cup {q} : quote'[p].version <= quote'[q].version
      BY <1>3, <1>15, <1>16, <1>17
    <2>2. ASSUME NEW p \in Offer!Quotes \ V
          PROVE  \E n \in Offer!Versions(p) :
                     \A o \in Offer!Versions(p) : quote'[o].version <= quote'[n].version
      BY <1>5, <1>13 DEF OfferInv, Newest
    <2> QED BY <1>7, <1>9, <1>10, <1>11, <2>1, <2>2 DEF Newest
  <1>19. Offer!OneOpen'
    <2> DEFINE Fine(p, o) ==
          /\ quote'[o].version # quote'[p].version
          /\ quote'[p].status \in {"DRAFT", "SENT"} => quote'[o].version < quote'[p].version
    <2>1. ASSUME NEW o \in V PROVE Fine(q, o)
      BY <1>3, <1>15, <1>16, <1>17
    <2>2. ASSUME NEW p \in V PROVE Fine(p, q)
      BY <1>3, <1>5, <1>15, <1>16, <1>17
    <2>3. ASSUME NEW p \in V, NEW o \in V \ {p} PROVE Fine(p, o)
      BY <1>3, <1>5, <1>12 DEF OfferInv, Offer!OneOpen
    <2>4. ASSUME NEW p \in Offer!Quotes \ V, NEW o \in Offer!Versions(p) \ {p} PROVE Fine(p, o)
      BY <1>5, <1>13, <1>14 DEF OfferInv, Offer!OneOpen
    <2>5. \A p \in Offer!Quotes \cup {q} : \A o \in Offer!Versions(p)' : o # p => Fine(p, o)
      BY <1>9, <1>10, <1>11, <2>1, <2>2, <2>3, <2>4
    <2> QED BY <1>7, <2>5 DEF Offer!OneOpen
  <1> QED BY <1>8, <1>18, <1>19 DEF OfferInv

LEMMA QuotesMove == ASSUME OfferInv, Offer!QuoteStep \/ UNCHANGED quote PROVE OfferInv'
  <1>1. ASSUME UNCHANGED quote PROVE OfferInv'
    BY <1>1 DEF OfferInv, QuoteRows, Newest, Offer!OneOpen, Offer!Quotes, Offer!Versions
  <1>2. ASSUME Offer!QuoteStep PROVE OfferInv'
    BY <1>2, QuotationKeeps, NewVersionKeeps, StatusKeeps DEF Offer!QuoteStep
  <1> QED BY <1>1, <1>2

LEMMA OfferInvStep == ASSUME OfferInv, [Offer!Next]_Offer!vars PROVE OfferInv'
  <1>1. Offer!ListStep => UNCHANGED quote
    BY DEF Offer!ListStep, Offer!SetList, Offer!CreatePriceList, Offer!UpdatePriceList,
           Offer!ChangePriceListStatus, Offer!DeletePriceList, Offer!ListAges
  <1>2. ASSUME NEW v, NEW s, NEW l, NEW request, NEW seller,
               Offer!CreateCostSheet(v, s, l, request, seller)
        PROVE  UNCHANGED quote
    BY <1>2 DEF Offer!CreateCostSheet
  <1>3. ASSUME NEW s, NEW seller, NEW verdict, Offer!DecideDiscount(s, seller, verdict)
        PROVE  UNCHANGED quote
    BY <1>3 DEF Offer!DecideDiscount
  <1>4. Offer!Begin \/ Offer!SheetStep => UNCHANGED quote
    BY <1>2, <1>3 DEF Offer!Begin, Offer!SheetStep
  <1> QED BY <1>1, <1>4, QuotesMove DEF Offer!Next, Offer!vars

(* Of the versions of a quotation, whoever made them from whichever, only  *)
(* the newest is open.                                                     *)
THEOREM OffersCorrect == Offer!Spec => []Offer!OneOpen
  <1>1. Offer!Init => OfferInv
    BY OfferStart
  <1>2. OfferInv /\ [Offer!Next]_Offer!vars => OfferInv'
    BY OfferInvStep
  <1> QED BY <1>1, <1>2, OfferShows, PTL DEF Offer!Spec

(***************************************************************************)
(* What a fold over the first n rows of a sequence is computed by: g gives *)
(* every set of rows what F makes of them, the largest row last.  F[x][i]  *)
(* is what row i makes of x.                                               *)
(***************************************************************************)
Last(s) == Offer!Max(s)
Before(s) == s \ {Last(s)}
Folds(g, base, F, S) ==
    g = [s \in SUBSET S |-> IF s = {} THEN base ELSE F[g[Before(s)]][Last(s)]]

LEMMA LastIs ==
    ASSUME NEW n \in Nat, NEW s \in SUBSET (1..n), s # {}
    PROVE  /\ Last(s) \in s /\ \A i \in s : Last(s) >= i
           /\ Before(s) \in SUBSET s /\ Before(s) # s
  <1> DEFINE T == {n - i : i \in s}
  <1>1. T \subseteq Nat /\ T # {}
    <2>1. \A i \in s : n - i \in Nat
      OBVIOUS
    <2> QED BY <2>1
  <1> HIDE DEF T
  <1>2. PICK x \in T : \A y \in T : <<y, x>> \notin OpToRel(<, Nat)
    BY <1>1, NatLessThanWellFounded, WFMin
  <1>3. \A y \in T : ~(y < x)
    BY <1>1, <1>2 DEF OpToRel
  <1>4. PICK i \in s : x = n - i
    BY DEF T
  <1>5. \A j \in s : i >= j
    <2> SUFFICES ASSUME NEW j \in s PROVE i >= j
      OBVIOUS
    <2>1. ~(n - j < n - i)
      BY <1>3, <1>4 DEF T
    <2> QED BY <2>1
  <1>6. Last(s) \in s /\ \A j \in s : Last(s) >= j
    BY <1>5, Zenon DEF Last, Offer!Max
  <1> QED BY <1>6 DEF Before

LEMMA LastOfAll == ASSUME NEW n \in Nat, n # 0 PROVE Last(1..n) = n /\ Before(1..n) = 1..(n - 1)
  <1>1. Last(1..n) \in 1..n /\ Last(1..n) >= n
    <2>1. n \in 1..n
      OBVIOUS
    <2> QED BY <2>1, LastIs
  <1>2. Last(1..n) = n
    BY <1>1
  <1> QED BY <1>2 DEF Before

(* Of the sets of rows that something is wrong with, one is minimal.       *)
LEMMA MinimalRows ==
    ASSUME NEW S, IsFiniteSet(S), NEW T \in SUBSET SUBSET S, T # {}
    PROVE  \E m \in T : \A s \in T : s \subseteq m => s = m
  <1>1. T \subseteq FiniteSubsetsOf(S)
    BY FS_FiniteSubsetsOfFinite
  <1>2. PICK m \in T : \A s \in T : <<s, m>> \notin StrictSubsetOrdering(S)
    BY <1>1, FS_StrictSubsetOrderingWellFounded, WFMin
  <1>3. ASSUME NEW s \in T, s \subseteq m, s # m PROVE FALSE
    BY <1>2, <1>3 DEF StrictSubsetOrdering
  <1> QED BY <1>2, <1>3

(* Induction over the sets of rows: what is right of no rows, and of a set *)
(* when it is of all rows but its last, is right.                          *)
LEMMA RowsInduct ==
    ASSUME NEW n \in Nat, NEW Right, {} \in Right,
           \A s \in SUBSET (1..n) : s # {} /\ Before(s) \in Right => s \in Right
    PROVE  SUBSET (1..n) \subseteq Right
  <1> DEFINE S == 1..n
             W == {s \in SUBSET S : s \notin Right}
  <1> SUFFICES ASSUME W # {} PROVE FALSE
    OBVIOUS
  <1>1. IsFiniteSet(S)
    BY FS_Interval
  <1>2. W \in SUBSET SUBSET S
    OBVIOUS
  <1>3. PICK m \in W : \A s \in W : s \subseteq m => s = m
    <2> HIDE DEF S, W
    <2> QED BY <1>1, <1>2, MinimalRows
  <1>4. m # {} /\ m \in SUBSET (1..n) /\ m \notin Right
    BY <1>3
  <1>5. Before(m) \in SUBSET m /\ Before(m) # m
    BY <1>4, LastIs
  <1>6. Before(m) \in SUBSET (1..n) /\ Before(m) \notin W
    BY <1>3, <1>4, <1>5
  <1>7. Before(m) \in Right
    BY <1>6
  <1> QED BY <1>4, <1>7

LEMMA FoldsEmpty ==
    ASSUME NEW g, NEW base, NEW F, NEW S, Folds(g, base, F, S)
    PROVE  g[{}] = base
  BY DEF Folds

LEMMA FoldsBy ==
    ASSUME NEW g, NEW base, NEW F, NEW S, g = [s \in SUBSET S |-> g[s]], g[{}] = base,
           \A s \in SUBSET S : s # {} => g[s] = F[g[Before(s)]][Last(s)]
    PROVE  Folds(g, base, F, S)
  BY DEF Folds

LEMMA FoldsUnique ==
    ASSUME NEW n \in Nat, NEW g, NEW h, NEW base, NEW F,
           Folds(g, base, F, 1..n), Folds(h, base, F, 1..n)
    PROVE  g = h
  <1> DEFINE Right == {s \in SUBSET (1..n) : g[s] = h[s]}
  <1>1. {} \in Right
    BY FoldsEmpty
  <1>2. ASSUME NEW s \in SUBSET (1..n), s # {}, Before(s) \in Right PROVE s \in Right
    <2>1. g[s] = F[g[Before(s)]][Last(s)] /\ h[s] = F[h[Before(s)]][Last(s)]
      BY <1>2 DEF Folds
    <2> QED BY <1>2, <2>1
  <1> HIDE DEF Right
  <1>3. SUBSET (1..n) \subseteq Right
    BY <1>1, <1>2, RowsInduct
  <1>4. \A s \in SUBSET (1..n) : g[s] = h[s]
    BY <1>3 DEF Right
  <1> QED BY <1>4 DEF Folds

(* A fold whose steps stay in a set of values stays in it.                 *)
LEMMA FoldsIn ==
    ASSUME NEW n \in Nat, NEW g, NEW base, NEW F, NEW T, Folds(g, base, F, 1..n), base \in T,
           \A x \in T : \A i \in 1..n : F[x][i] \in T
    PROVE  g \in [SUBSET (1..n) -> T]
  <1> DEFINE Right == {s \in SUBSET (1..n) : g[s] \in T}
  <1>1. {} \in Right
    BY FoldsEmpty
  <1>2. ASSUME NEW s \in SUBSET (1..n), s # {}, Before(s) \in Right PROVE s \in Right
    <2>1. g[s] = F[g[Before(s)]][Last(s)]
      BY <1>2 DEF Folds
    <2>2. Last(s) \in 1..n
      BY <1>2, LastIs
    <2> QED BY <1>2, <2>1, <2>2
  <1> HIDE DEF Right
  <1>3. SUBSET (1..n) \subseteq Right
    BY <1>1, <1>2, RowsInduct
  <1>4. \A s \in SUBSET (1..n) : g[s] \in T
    BY <1>3 DEF Right
  <1> QED BY <1>4 DEF Folds

(* There is such a g for the first n rows: the one for n - 1 rows, and for *)
(* a set with row n what the row makes of the rest.                        *)
LEMMA FoldsMore ==
    ASSUME NEW n \in Nat, NEW g, NEW base, NEW F, Folds(g, base, F, 1..n)
    PROVE  \E h : Folds(h, base, F, 1..(n + 1))
  <1> DEFINE h == [s \in SUBSET (1..(n + 1)) |->
                      IF n + 1 \in s THEN F[g[s \ {n + 1}]][n + 1] ELSE g[s]]
  <1>1. h[{}] = base
    BY FoldsEmpty
  <1>2. ASSUME NEW s \in SUBSET (1..(n + 1)), s # {} PROVE h[s] = F[h[Before(s)]][Last(s)]
    <2>1. Last(s) \in s /\ \A i \in s : Last(s) >= i
      <3>1. n + 1 \in Nat
        OBVIOUS
      <3> QED BY <1>2, <3>1, LastIs
    <2>2. CASE n + 1 \in s
      <3>1. Last(s) = n + 1
        <4>1. Last(s) \in 1..(n + 1) /\ Last(s) >= n + 1
          BY <2>1, <2>2
        <4> QED BY <4>1
      <3>2. Before(s) \in SUBSET (1..(n + 1)) /\ n + 1 \notin Before(s)
        BY <3>1 DEF Before
      <3> QED BY <2>2, <3>1, <3>2 DEF Before
    <2>3. CASE n + 1 \notin s
      <3>1. s \in SUBSET (1..n)
        BY <2>3
      <3>2. Before(s) \in SUBSET (1..(n + 1)) /\ n + 1 \notin Before(s)
        BY <2>3 DEF Before
      <3>3. g[s] = F[g[Before(s)]][Last(s)]
        BY <1>2, <3>1 DEF Folds
      <3> QED BY <2>3, <3>2, <3>3
    <2> QED BY <2>2, <2>3
  <1>3. h = [s \in SUBSET (1..(n + 1)) |-> h[s]]
    OBVIOUS
  <1> HIDE DEF h
  <1>4. Folds(h, base, F, 1..(n + 1))
    BY <1>1, <1>2, <1>3, FoldsBy
  <1> QED BY <1>4

LEMMA FoldsLess ==
    ASSUME NEW n \in Nat, NEW g, NEW base, NEW F, Folds(g, base, F, 1..(n + 1))
    PROVE  Folds([s \in SUBSET (1..n) |-> g[s]], base, F, 1..n)
  <1> DEFINE h == [s \in SUBSET (1..n) |-> g[s]]
  <1>1. h[{}] = base
    BY FoldsEmpty
  <1>2. ASSUME NEW s \in SUBSET (1..n), s # {} PROVE h[s] = F[h[Before(s)]][Last(s)]
    <2>1. s \in SUBSET (1..(n + 1))
      OBVIOUS
    <2>2. g[s] = F[g[Before(s)]][Last(s)]
      BY <1>2, <2>1 DEF Folds
    <2>3. Before(s) \in SUBSET (1..n)
      BY DEF Before
    <2> QED BY <2>2, <2>3
  <1> QED BY <1>1, <1>2, FoldsBy

LEMMA FoldsExists == ASSUME NEW n \in Nat, NEW base, NEW F PROVE \E g : Folds(g, base, F, 1..n)
  <1> DEFINE T == {i \in Nat : ~\E g : Folds(g, base, F, 1..i)}
  <1> SUFFICES ASSUME T # {} PROVE FALSE
    OBVIOUS
  <1>1. PICK i \in T : \A j \in T : <<j, i>> \notin OpToRel(<, Nat)
    <2>1. T \subseteq Nat
      OBVIOUS
    <2> HIDE DEF T
    <2> QED BY <2>1, NatLessThanWellFounded, WFMin
  <1>2. i # 0
    <2> DEFINE g == [s \in SUBSET (1..0) |-> base]
    <2>1. Folds(g, base, F, 1..0)
      BY DEF Folds
    <2> HIDE DEF g
    <2> QED BY <1>1, <2>1
  <1>3. i - 1 \in Nat /\ (i - 1) + 1 = i
    <2>1. i \in Nat
      BY <1>1
    <2> QED BY <1>2, <2>1
  <1>4. <<i - 1, i>> \in OpToRel(<, Nat)
    BY <1>1, <1>3 DEF OpToRel
  <1>5. PICK g : Folds(g, base, F, 1..(i - 1))
    BY <1>1, <1>3, <1>4
  <1>6. \E h : Folds(h, base, F, 1..((i - 1) + 1))
    BY <1>3, <1>5, FoldsMore
  <1>7. \E h : Folds(h, base, F, 1..i)
    BY <1>3, <1>6
  <1> QED BY <1>1, <1>7

(* Sums of whole numbers.                                                  *)
Sums(g, f, S) ==
    g = [s \in SUBSET S |-> IF s = {} THEN 0 ELSE g[Before(s)] + f[Last(s)]]
Adding(f, n) == [x \in Int |-> [i \in 1..n |-> x + f[i]]]

LEMMA AddedIs ==
    ASSUME NEW n \in Nat, NEW f, DOMAIN f = 1..n
    PROVE  Offer!Added(f) = (CHOOSE g : Sums(g, f, 1..n))[1..n]
  BY DEF Offer!Added, Offer!FoldLeft, Offer!MapThenFoldSet, Sums, Before, Last

LEMMA SumsWhole ==
    ASSUME NEW n \in Nat, NEW f \in [1..n -> Int], NEW g, Sums(g, f, 1..n)
    PROVE  g \in [SUBSET (1..n) -> Int]
  <1> DEFINE Right == {s \in SUBSET (1..n) : g[s] \in Int}
  <1>1. {} \in Right
    BY DEF Sums
  <1>2. ASSUME NEW s \in SUBSET (1..n), s # {}, Before(s) \in Right PROVE s \in Right
    <2>1. g[s] = g[Before(s)] + f[Last(s)]
      BY <1>2 DEF Sums
    <2>2. Last(s) \in 1..n
      BY <1>2, LastIs
    <2> QED BY <1>2, <2>1, <2>2
  <1> HIDE DEF Right
  <1>3. SUBSET (1..n) \subseteq Right
    BY <1>1, <1>2, RowsInduct
  <1>4. \A s \in SUBSET (1..n) : g[s] \in Int
    BY <1>3 DEF Right
  <1> QED BY <1>4 DEF Sums

LEMMA SumsFold ==
    ASSUME NEW n \in Nat, NEW f \in [1..n -> Int], NEW g \in [SUBSET (1..n) -> Int]
    PROVE  Sums(g, f, 1..n) <=> Folds(g, 0, Adding(f, n), 1..n)
  <1>1. ASSUME NEW s \in SUBSET (1..n), s # {}
        PROVE  Adding(f, n)[g[Before(s)]][Last(s)] = g[Before(s)] + f[Last(s)]
    <2>1. Last(s) \in 1..n /\ Before(s) \in SUBSET (1..n)
      BY <1>1, LastIs
    <2> QED BY <2>1 DEF Adding
  <1> QED BY <1>1 DEF Sums, Folds

LEMMA AddingWhole ==
    ASSUME NEW n \in Nat, NEW f \in [1..n -> Int]
    PROVE  \A x \in Int : \A i \in 1..n : Adding(f, n)[x][i] \in Int
  BY DEF Adding

(* What the sum of n numbers is, by any g that adds them up.               *)
LEMMA AddedBy ==
    ASSUME NEW n \in Nat, NEW f \in [1..n -> Int], NEW g, Sums(g, f, 1..n)
    PROVE  Offer!Added(f) = g[1..n] /\ Offer!Added(f) \in Int
  <1> DEFINE h == CHOOSE h : Sums(h, f, 1..n)
  <1>1. Sums(h, f, 1..n)
    OBVIOUS
  <1>2. Offer!Added(f) = h[1..n]
    BY AddedIs
  <1> HIDE DEF h
  <1>3. g \in [SUBSET (1..n) -> Int] /\ h \in [SUBSET (1..n) -> Int]
    BY <1>1, SumsWhole
  <1>4. g = h
    BY <1>1, <1>3, SumsFold, FoldsUnique
  <1> QED BY <1>2, <1>3, <1>4

LEMMA SumsExist ==
    ASSUME NEW n \in Nat, NEW f \in [1..n -> Int]
    PROVE  \E g : Sums(g, f, 1..n)
  <1> DEFINE F == Adding(f, n)
  <1>1. PICK g : Folds(g, 0, F, 1..n)
    BY FoldsExists
  <1>2. \A x \in Int : \A i \in 1..n : F[x][i] \in Int
    BY AddingWhole
  <1> HIDE DEF F
  <1>3. g \in [SUBSET (1..n) -> Int]
    <2> DEFINE T == Int
    <2>1. 0 \in T /\ \A x \in T : \A i \in 1..n : F[x][i] \in T
      BY <1>2
    <2> HIDE DEF T
    <2>2. g \in [SUBSET (1..n) -> T]
      BY <1>1, <2>1, FoldsIn
    <2> QED BY <2>2 DEF T
  <1> QED BY <1>1, <1>3, SumsFold DEF F

(* Sums of nothing, of one number more, and of differences.                *)
LEMMA AddedNone == ASSUME NEW f \in [1..0 -> Int] PROVE Offer!Added(f) = 0
  <1>1. PICK g : Sums(g, f, 1..0)
    BY SumsExist
  <1>2. Offer!Added(f) = g[1..0]
    BY <1>1, AddedBy
  <1>3. 1..0 = {}
    OBVIOUS
  <1>4. g[{}] = 0
    BY <1>1 DEF Sums
  <1> QED BY <1>2, <1>3, <1>4

LEMMA AddedNext ==
    ASSUME NEW n \in Nat, NEW f \in [1..(n + 1) -> Int]
    PROVE  Offer!Added(f) = Offer!Added([i \in 1..n |-> f[i]]) + f[n + 1]
  <1> DEFINE m == n + 1
             e == [i \in 1..n |-> f[i]]
  <1>1. m \in Nat /\ m # 0 /\ m - 1 = n /\ f \in [1..m -> Int]
    OBVIOUS
  <1>2. e \in [1..n -> Int]
    OBVIOUS
  <1>3. Last(1..m) = m /\ Before(1..m) = 1..n
    BY <1>1, LastOfAll
  <1>4. PICK g : Sums(g, f, 1..m)
    BY <1>1, SumsExist
  <1> DEFINE h == [s \in SUBSET (1..n) |-> g[s]]
  <1>5. Offer!Added(f) = g[1..m]
    BY <1>1, <1>4, AddedBy
  <1>6. g[1..m] = g[1..n] + f[m]
    <2>1. 1..m # {} /\ 1..m \in SUBSET (1..m)
      BY <1>1
    <2> HIDE DEF m
    <2> QED BY <1>3, <1>4, <2>1 DEF Sums
  <1>7. Sums(h, e, 1..n)
    <2>1. ASSUME NEW s \in SUBSET (1..n), s # {} PROVE h[s] = h[Before(s)] + e[Last(s)]
      <3>1. s \in SUBSET (1..m)
        OBVIOUS
      <3> HIDE DEF m
      <3>2. g[s] = g[Before(s)] + f[Last(s)]
        BY <1>4, <2>1, <3>1 DEF Sums
      <3>3. Before(s) \in SUBSET (1..n) /\ Last(s) \in 1..n
        BY <2>1, LastIs
      <3> QED BY <3>2, <3>3
    <2>2. h[{}] = 0
      BY <1>4 DEF Sums
    <2> QED BY <2>1, <2>2 DEF Sums
  <1> HIDE DEF e, h
  <1>8. Offer!Added(e) = h[1..n]
    BY <1>2, <1>7, AddedBy
  <1>9. h[1..n] = g[1..n]
    BY DEF h
  <1> QED BY <1>5, <1>6, <1>8, <1>9 DEF e

LEMMA AddedMinus ==
    ASSUME NEW n \in Nat, NEW e \in [1..n -> Int], NEW f \in [1..n -> Int]
    PROVE  Offer!Added(e) - Offer!Added(f) = Offer!Added([i \in 1..n |-> e[i] - f[i]])
  <1> DEFINE d == [i \in 1..n |-> e[i] - f[i]]
  <1>1. d \in [1..n -> Int]
    OBVIOUS
  <1>2. PICK g : Sums(g, e, 1..n)
    BY SumsExist
  <1>3. PICK h : Sums(h, f, 1..n)
    BY SumsExist
  <1>4. g \in [SUBSET (1..n) -> Int] /\ h \in [SUBSET (1..n) -> Int]
    BY <1>2, <1>3, SumsWhole
  <1> DEFINE k == [s \in SUBSET (1..n) |-> g[s] - h[s]]
  <1>5. Sums(k, d, 1..n)
    <2>1. ASSUME NEW s \in SUBSET (1..n), s # {} PROVE k[s] = k[Before(s)] + d[Last(s)]
      <3>1. g[s] = g[Before(s)] + e[Last(s)] /\ h[s] = h[Before(s)] + f[Last(s)]
        BY <1>2, <1>3, <2>1 DEF Sums
      <3>2. Before(s) \in SUBSET (1..n) /\ Last(s) \in 1..n
        BY <2>1, LastIs
      <3>3. /\ k[s] = g[s] - h[s] /\ k[Before(s)] = g[Before(s)] - h[Before(s)]
            /\ d[Last(s)] = e[Last(s)] - f[Last(s)]
        BY <3>2
      <3>4. /\ g[Before(s)] \in Int /\ h[Before(s)] \in Int
            /\ e[Last(s)] \in Int /\ f[Last(s)] \in Int
        BY <1>4, <3>2
      <3> HIDE DEF k, d
      <3> QED BY <3>1, <3>3, <3>4
    <2>2. k[{}] = 0
      BY <1>2, <1>3 DEF Sums
    <2> QED BY <2>1, <2>2 DEF Sums
  <1> HIDE DEF d, k
  <1>6. Offer!Added(d) = k[1..n]
    BY <1>1, <1>5, AddedBy
  <1>7. k[1..n] = g[1..n] - h[1..n]
    BY DEF k
  <1> QED BY <1>2, <1>3, <1>6, <1>7, AddedBy DEF d

(***************************************************************************)
(* Lines of a price.                                                       *)
(***************************************************************************)
LEMMA LineIs ==
    ASSUME NEW category \in Offer!Category, NEW amount \in Int, NEW taxable \in BOOLEAN
    PROVE  Offer!Line(category, amount, taxable) \in Offer!LineRow
  BY DEF Offer!Line, Offer!LineRow

LEMMA TotalWhole == ASSUME NEW lines \in Seq(Offer!LineRow) PROVE Offer!Total(lines) \in Int
  <1> DEFINE n == Len(lines)
             f == [i \in DOMAIN lines |-> lines[i].amount]
  <1>1. n \in Nat /\ f \in [1..n -> Int]
    <2>1. n \in Nat /\ DOMAIN lines = 1..n /\ \A i \in 1..n : lines[i] \in Offer!LineRow
      OBVIOUS
    <2>2. \A i \in 1..n : lines[i].amount \in Int
      BY <2>1 DEF Offer!LineRow
    <2> QED BY <2>1, <2>2
  <1>2. Offer!Total(lines) = Offer!Added(f)
    BY DEF Offer!Total
  <1> HIDE DEF n, f
  <1>3. PICK g : Sums(g, f, 1..n)
    BY <1>1, SumsExist
  <1> QED BY <1>1, <1>2, <1>3, AddedBy

LEMMA TotalNext ==
    ASSUME NEW lines \in Seq(Offer!LineRow), NEW line \in Offer!LineRow
    PROVE  /\ Append(lines, line) \in Seq(Offer!LineRow)
           /\ Offer!Total(Append(lines, line)) = Offer!Total(lines) + line.amount
  <1> DEFINE n == Len(lines)
             more == Append(lines, line)
             f == [i \in DOMAIN more |-> more[i].amount]
             e == [i \in 1..n |-> f[i]]
  <1>1. /\ more \in Seq(Offer!LineRow) /\ DOMAIN more = 1..(n + 1) /\ DOMAIN lines = 1..n
        /\ n \in Nat /\ more[n + 1] = line /\ \A i \in 1..n : more[i] = lines[i]
    OBVIOUS
  <1>2. f \in [1..(n + 1) -> Int] /\ f[n + 1] = line.amount
    <2>1. \A i \in 1..(n + 1) : more[i] \in Offer!LineRow
      BY <1>1
    <2>2. \A i \in 1..(n + 1) : more[i].amount \in Int
      BY <2>1 DEF Offer!LineRow
    <2> HIDE DEF more, n
    <2> QED BY <1>1, <2>2
  <1>3. e = [i \in DOMAIN lines |-> lines[i].amount]
    BY <1>1
  <1>4. Offer!Total(more) = Offer!Added(f) /\ Offer!Total(lines) = Offer!Added(e)
    BY <1>3 DEF Offer!Total
  <1> HIDE DEF f
  <1>5. Offer!Added(f) = Offer!Added(e) + f[n + 1]
    BY <1>1, <1>2, AddedNext
  <1> QED BY <1>1, <1>2, <1>4, <1>5

(* A line of nothing that is left out does not count.                      *)
LEMMA TotalAddLine ==
    ASSUME NEW lines \in Seq(Offer!LineRow), NEW line \in Offer!LineRow
    PROVE  /\ Offer!AddLine(lines, line) \in Seq(Offer!LineRow)
           /\ Offer!Total(Offer!AddLine(lines, line)) = Offer!Total(lines) + line.amount
  <1>1. line.amount \in Int /\ Offer!Total(lines) \in Int
    BY TotalWhole DEF Offer!LineRow
  <1>2. CASE line.amount = 0
    BY <1>1, <1>2 DEF Offer!AddLine
  <1>3. CASE line.amount # 0
    BY <1>3, TotalNext DEF Offer!AddLine
  <1> QED BY <1>2, <1>3

(* All lines of a sheet in turn.                                           *)
Grows(g, base, more, S) ==
    g = [s \in SUBSET S |-> IF s = {} THEN base
                            ELSE Offer!AddLine(g[Before(s)], more[Last(s)])]

LEMMA GrowsExist ==
    ASSUME NEW base \in Seq(Offer!LineRow), NEW more \in Seq(Offer!LineRow)
    PROVE  \E g : Grows(g, base, more, DOMAIN more)
  <1> DEFINE n == Len(more)
             T == Seq(Offer!LineRow)
             F == [x \in T |-> [i \in 1..n |-> Offer!AddLine(x, more[i])]]
  <1>1. n \in Nat /\ DOMAIN more = 1..n /\ \A i \in 1..n : more[i] \in Offer!LineRow
    OBVIOUS
  <1>2. \A x \in T : \A i \in 1..n : F[x][i] = Offer!AddLine(x, more[i])
    OBVIOUS
  <1>3. \A x \in T : \A i \in 1..n : Offer!AddLine(x, more[i]) \in T
    BY <1>1, TotalAddLine
  <1>4. base \in T
    OBVIOUS
  <1> HIDE DEF n, T, F
  <1>5. PICK g : Folds(g, base, F, 1..n)
    BY <1>1, FoldsExists
  <1>6. g \in [SUBSET (1..n) -> T]
    <2>1. \A x \in T : \A i \in 1..n : F[x][i] \in T
      BY <1>2, <1>3
    <2> QED BY <1>1, <1>4, <1>5, <2>1, FoldsIn
  <1>7. ASSUME NEW s \in SUBSET (1..n), s # {}
        PROVE  g[s] = Offer!AddLine(g[Before(s)], more[Last(s)])
    <2>1. Last(s) \in 1..n /\ Before(s) \in SUBSET (1..n)
      BY <1>1, <1>7, LastIs
    <2>2. g[Before(s)] \in T
      BY <1>6, <2>1
    <2>3. g[s] = F[g[Before(s)]][Last(s)]
      BY <1>5, <1>7 DEF Folds
    <2> QED BY <1>2, <2>1, <2>2, <2>3
  <1>8. Grows(g, base, more, 1..n)
    BY <1>5, <1>7 DEF Grows, Folds
  <1> QED BY <1>1, <1>8

LEMMA LinesAdd ==
    ASSUME NEW base \in Seq(Offer!LineRow), NEW more \in Seq(Offer!LineRow)
    PROVE  /\ Offer!AddLines(base, more) \in Seq(Offer!LineRow)
           /\ Offer!Total(Offer!AddLines(base, more)) = Offer!Total(base) + Offer!Total(more)
  <1> DEFINE n == Len(more)
             g == CHOOSE g : Grows(g, base, more, DOMAIN more)
             f == [i \in DOMAIN more |-> more[i].amount]
  <1>1. n \in Nat /\ DOMAIN more = 1..n /\ \A i \in 1..n : more[i] \in Offer!LineRow
    OBVIOUS
  <1>2. f \in [1..n -> Int] /\ \A i \in 1..n : f[i] = more[i].amount
    <2>1. \A i \in 1..n : more[i].amount \in Int
      BY <1>1 DEF Offer!LineRow
    <2> QED BY <1>1, <2>1
  <1>3. Grows(g, base, more, 1..n)
    BY <1>1, GrowsExist
  <1>4. Offer!AddLines(base, more) = g[1..n]
    BY <1>1 DEF Offer!AddLines, Offer!FoldLeft, Offer!MapThenFoldSet, Grows, Before, Last
  <1>5. Offer!Total(more) = Offer!Added(f)
    BY DEF Offer!Total
  <1> HIDE DEF n, g, f
  <1>6. PICK k : Sums(k, f, 1..n)
    BY <1>1, <1>2, SumsExist
  <1>7. k \in [SUBSET (1..n) -> Int] /\ Offer!Added(f) = k[1..n]
    BY <1>1, <1>2, <1>6, SumsWhole, AddedBy
  <1>8. Offer!Total(base) \in Int
    BY TotalWhole
  <1> DEFINE Right == {s \in SUBSET (1..n) :
                          /\ g[s] \in Seq(Offer!LineRow)
                          /\ Offer!Total(g[s]) = Offer!Total(base) + k[s]}
  <1>9. {} \in Right
    <2>1. g[{}] = base /\ k[{}] = 0
      BY <1>3, <1>6 DEF Grows, Sums
    <2> QED BY <1>8, <2>1
  <1>10. ASSUME NEW s \in SUBSET (1..n), s # {}, Before(s) \in Right PROVE s \in Right
    <2>1. /\ g[s] = Offer!AddLine(g[Before(s)], more[Last(s)])
          /\ k[s] = k[Before(s)] + f[Last(s)]
      BY <1>3, <1>6, <1>10 DEF Grows, Sums
    <2>2. Last(s) \in 1..n /\ Before(s) \in SUBSET (1..n)
      BY <1>1, <1>10, LastIs
    <2>3. /\ g[Before(s)] \in Seq(Offer!LineRow)
          /\ Offer!Total(g[Before(s)]) = Offer!Total(base) + k[Before(s)]
      BY <1>10
    <2>4. /\ g[s] \in Seq(Offer!LineRow)
          /\ Offer!Total(g[s]) = Offer!Total(g[Before(s)]) + f[Last(s)]
      BY <1>1, <1>2, <2>1, <2>2, <2>3, TotalAddLine
    <2>5. k[Before(s)] \in Int /\ f[Last(s)] \in Int
      BY <1>2, <1>7, <2>2
    <2> QED BY <1>8, <2>1, <2>3, <2>4, <2>5
  <1> HIDE DEF Right
  <1>11. SUBSET (1..n) \subseteq Right
    BY <1>1, <1>9, <1>10, RowsInduct
  <1>12. g[1..n] \in Seq(Offer!LineRow) /\ Offer!Total(g[1..n]) = Offer!Total(base) + k[1..n]
    BY <1>11 DEF Right
  <1> QED BY <1>4, <1>5, <1>7, <1>12

(* A sheet's lines add up to its final value.                              *)
LEMMA SheetAddsUp ==
    ASSUME NEW gross \in Seq(Offer!LineRow), NEW taxes \in Seq(Offer!LineRow), NEW d \in Int,
           NEW booking
    PROVE  LET p == Offer!Sheet(gross, taxes, d, booking) IN
           /\ p.lines \in Seq(Offer!LineRow) /\ Offer!Total(p.lines) = p.final
           /\ p.final \in Int /\ p.discount = d
           /\ p.final + d = Offer!Total(gross) + Offer!Total(taxes)
           /\ p.percent = Offer!DiscountPercent(d, Offer!Total(gross) + Offer!Total(taxes))
  <1> DEFINE p == Offer!Sheet(gross, taxes, d, booking)
             off == Offer!Line("DISCOUNT", -d, FALSE)
             all == Append(taxes, off)
  <1>1. /\ p.lines = Offer!AddLines(gross, all)
        /\ p.final = Offer!Total(gross) + Offer!Total(taxes) - d /\ p.discount = d
        /\ p.percent = Offer!DiscountPercent(d, Offer!Total(gross) + Offer!Total(taxes))
    BY DEF Offer!Sheet
  <1>2. off \in Offer!LineRow /\ off.amount = -d
    BY DEF Offer!Line, Offer!LineRow, Offer!Category
  <1> HIDE DEF p, off
  <1>3. all \in Seq(Offer!LineRow) /\ Offer!Total(all) = Offer!Total(taxes) + -d
    BY <1>2, TotalNext
  <1> HIDE DEF all
  <1>4. Offer!Total(gross) \in Int /\ Offer!Total(taxes) \in Int
    BY TotalWhole
  <1>5. /\ p.lines \in Seq(Offer!LineRow)
        /\ Offer!Total(p.lines) = Offer!Total(gross) + Offer!Total(all)
    BY <1>1, <1>3, LinesAdd
  <1>6. Offer!Total(p.lines) = p.final /\ p.final \in Int
    BY <1>1, <1>3, <1>4, <1>5
  <1>7. p.final + d = Offer!Total(gross) + Offer!Total(taxes)
    BY <1>1, <1>4
  <1> QED BY <1>1, <1>5, <1>6, <1>7 DEF p

LEMMA TaxWhole ==
    ASSUME NEW lines \in Seq(Offer!LineRow),
           NEW tax \in [rate: Nat, applies_to: SUBSET Offer!Category]
    PROVE  Offer!TaxAmount(lines, tax) \in Int
  <1> DEFINE n == Len(lines)
             f == [i \in DOMAIN lines |->
                      IF Offer!Bears(lines[i], tax) THEN lines[i].amount ELSE 0]
  <1>1. n \in Nat /\ DOMAIN lines = 1..n /\ \A i \in 1..n : lines[i] \in Offer!LineRow
    OBVIOUS
  <1>2. \A i \in 1..n : lines[i].amount \in Int
    BY <1>1 DEF Offer!LineRow
  <1>3. f \in [1..n -> Int]
    BY <1>1, <1>2
  <1>4. Offer!TaxAmount(lines, tax) = Offer!Percent(Offer!Added(f), tax.rate)
    BY DEF Offer!TaxAmount
  <1> HIDE DEF n, f
  <1>5. PICK g : Sums(g, f, 1..n)
    BY <1>1, <1>3, SumsExist
  <1>6. Offer!Added(f) \in Int
    BY <1>1, <1>3, <1>5, AddedBy
  <1>7. \A m \in Int : Offer!Rounded(m, 100) \in Int
    BY DEF Offer!Rounded
  <1>8. Offer!Added(f) * tax.rate \in Int
    BY <1>6
  <1> QED BY <1>4, <1>7, <1>8 DEF Offer!Percent

(* No discount is no percent of anything.                                  *)
LEMMA NoPercent == ASSUME NEW v \in Nat PROVE Offer!DiscountPercent(0, v) = 0
  <1>1. CASE v = 0
    BY <1>1 DEF Offer!DiscountPercent
  <1>2. CASE v # 0
    <2>1. v \div (2 * v) = 0
      BY <1>2
    <2> QED BY <1>2, <2>1 DEF Offer!DiscountPercent, Offer!Rounded, Offer!Decimals
  <1> QED BY <1>1, <1>2

(* What a cost sheet is priced at, in whole cents: its lines add up, its   *)
(* percentage is what its figures say, and a discount above the limit has  *)
(* a level that covers it.                                                 *)
LEMMA PriceIs ==
    ASSUME NEW rules, NEW unit, NEW request, Offer!WholeCents(rules, unit, request),
           NEW p \in Offer!CostSheets(rules, unit, request)
    PROVE  /\ p.lines \in Seq(Offer!LineRow) /\ Offer!Total(p.lines) = p.final
           /\ p.percent = Offer!DiscountPercent(p.discount, p.final + p.discount)
           /\ p.percent > rules.limit => Offer!NeedsApproval(rules, p.discount, p.percent)
           /\ Offer!NeedsApproval(rules, p.discount, p.percent) =>
                 Offer!Levels(rules, p.percent) # {}
  <1> DEFINE Value(g) == Offer!Total(g) + Offer!Total(Offer!TaxLines(g, rules))
  <1>1. PICK gross \in Offer!Gross(rules, unit, request) :
            \E d \in Offer!AllowedDiscounts(rules, request, Value(gross)) : \E booking :
                p = Offer!Sheet(gross, Offer!TaxLines(gross, rules), d, booking)
    BY DEF Offer!CostSheets
  <1>2. PICK d \in Offer!AllowedDiscounts(rules, request, Value(gross)) : \E booking :
            p = Offer!Sheet(gross, Offer!TaxLines(gross, rules), d, booking)
    BY <1>1
  <1> DEFINE taxes == Offer!TaxLines(gross, rules)
             value == Value(gross)
  <1>3. gross \in Seq(Offer!LineRow)
    BY <1>1 DEF Offer!WholeCents
  <1>4. taxes \in Seq(Offer!LineRow)
    <2> DEFINE T == [rate: Nat, applies_to: SUBSET Offer!Category]
               t == rules.taxes
               n == Len(t)
               row(i) == Offer!Line("TAX", Offer!TaxAmount(gross, t[i]), FALSE)
    <2>1. t \in Seq(T)
      BY DEF Offer!WholeCents
    <2>2. taxes = [i \in DOMAIN t |-> row(i)]
      BY DEF Offer!TaxLines
    <2> HIDE DEF t, T, taxes
    <2>3. n \in Nat /\ DOMAIN t = 1..n /\ \A i \in 1..n : t[i] \in T
      BY <2>1
    <2>4. ASSUME NEW i \in 1..n PROVE row(i) \in Offer!LineRow
      <3>1. t[i] \in T
        BY <2>3
      <3>2. "TAX" \in Offer!Category
        BY DEF Offer!Category
      <3>3. Offer!TaxAmount(gross, t[i]) \in Int
        BY <1>3, <3>1, TaxWhole DEF T
      <3> QED BY <3>2, <3>3, LineIs
    <2> HIDE DEF row, n
    <2> QED BY <2>2, <2>3, <2>4
  <1>5. Offer!Total(gross) \in Int /\ Offer!Total(taxes) \in Int /\ value \in Int
    BY <1>3, <1>4, TotalWhole
  <1> HIDE DEF taxes, value, Value
  <1>6. d \in Int /\ 0 <= d /\ d <= value
    <2>1. d \in Offer!Discounts(request, value)
      BY <1>2 DEF Offer!AllowedDiscounts, value
    <2>2. request.discount \in Int /\ request.final \subseteq Int
      BY DEF Offer!WholeCents
    <2> QED BY <1>5, <2>1, <2>2 DEF Offer!Discounts
  <1>7. /\ p.lines \in Seq(Offer!LineRow) /\ Offer!Total(p.lines) = p.final
        /\ p.discount = d /\ p.final + d = value
        /\ p.percent = Offer!DiscountPercent(d, value)
    <2>1. PICK booking : p = Offer!Sheet(gross, taxes, d, booking)
      BY <1>2 DEF taxes
    <2> QED BY <1>3, <1>4, <1>6, <2>1, SheetAddsUp DEF taxes, value, Value
  <1>8. Offer!NeedsApproval(rules, d, p.percent) => Offer!Levels(rules, p.percent) # {}
    BY <1>2, <1>7 DEF Offer!AllowedDiscounts, value
  <1>9. p.percent > rules.limit => d > 0
    <2>1. rules.limit \in Nat
      BY DEF Offer!WholeCents
    <2>2. d = 0 => p.percent = 0
      BY <1>5, <1>6, <1>7, NoPercent
    <2> QED BY <1>6, <2>1, <2>2
  <1> QED BY <1>7, <1>8, <1>9 DEF Offer!NeedsApproval

(***************************************************************************)
(* Prices: what they are calculated under stays, they add up, and their    *)
(* discounts are approved.                                                 *)
(***************************************************************************)
(* Whatever a price list can be given and a request can ask for is priced  *)
(* in whole cents, at whole percentages.                                   *)
Cents ==
    \A rules \in RuleSets, request \in Requests : Offer!WholeCents(rules, request.unit, request)

RulesOf(s) == list[sheet[s].list].rules

(* The rules of a price list that was in use do not change any more, nor   *)
(* are they others in any read view.                                       *)
Settled(row) == row.status \notin {"NONE", "DRAFT"}
ListRows ==
    /\ DOMAIN list = PriceList
    /\ \A l \in PriceList : /\ DOMAIN list[l] = {"status", "rules", "window"}
                            /\ list[l].rules \in RuleSets
    /\ \A v \in lists : \A l \in PriceList :
          Settled(v[l]) => Settled(list[l]) /\ v[l].rules = list[l].rules

SheetRows ==
    /\ DOMAIN sheet = CostSheet
    /\ \A s \in Offer!Sheets :
          /\ DOMAIN sheet[s] = {"status", "list", "request", "price", "creator"}
          /\ sheet[s].list \in PriceList /\ Settled(list[sheet[s].list])
          /\ sheet[s].request \in Requests
          /\ sheet[s].price \in
                Offer!CostSheets(RulesOf(s), sheet[s].request.unit, sheet[s].request)

(* Approved by somebody in charge of the discount who did not ask for it.  *)
MayApprove(s, u) ==
    \/ u \in Managers
    \/ \E level \in Offer!Levels(RulesOf(s), sheet[s].price.percent) :
          u \in level.users \/ RoleOf[u] \in level.roles
Approved(s) ==
    /\ approval[s].status = "APPROVED" /\ approval[s].approver # sheet[s].creator
    /\ MayApprove(s, approval[s].approver)

Asked(s) ==
    /\ sheet[s].status = "PENDING_APPROVAL" /\ approval[s].requester = sheet[s].creator
    /\ \E level \in Offer!Levels(RulesOf(s), sheet[s].price.percent) :
          approval[s].users = level.users /\ approval[s].roles = level.roles

ApprovalRows ==
    /\ DOMAIN approval = CostSheet
    /\ \A s \in CostSheet : approval[s].status = "PENDING" => s \in Offer!Sheets /\ Asked(s)
    /\ \A s \in Offer!Sheets :
          /\ sheet[s].status \in {"APPROVED", "CONVERTED"}
          /\ Offer!NeedsApproval(RulesOf(s), sheet[s].price.discount, sheet[s].price.percent)
          => Approved(s)

(* A quotation is of a sheet that was approved, item by item.              *)
ItemRows ==
    /\ DOMAIN quote = Quote
    /\ \A q \in Offer!Quotes :
          /\ {"status", "sheet", "items", "total"} \subseteq DOMAIN quote[q]
          /\ quote[q].sheet \in Offer!Sheets /\ sheet[quote[q].sheet].status = "CONVERTED"
          /\ LET p == sheet[quote[q].sheet].price
             IN  /\ quote[q].items = [i \in DOMAIN p.lines |-> Offer!Item(p.lines[i])]
                 /\ quote[q].total = p.final

PriceInv == ListRows /\ SheetRows /\ ApprovalRows /\ ItemRows

LEMMA PriceStart == ASSUME Offer!Init, RuleSets # {} PROVE PriceInv
  <1>1. /\ DOMAIN list = PriceList /\ lists = {}
        /\ \A l \in PriceList : /\ DOMAIN list[l] = {"status", "rules", "window"}
                                /\ list[l].rules \in RuleSets
    BY DEF Offer!Init
  <1>2. /\ DOMAIN sheet = CostSheet /\ \A s \in CostSheet : sheet[s].status = "NONE"
        /\ DOMAIN approval = CostSheet /\ \A s \in CostSheet : approval[s].status = "NONE"
        /\ DOMAIN quote = Quote /\ \A q \in Quote : quote[q].status = "NONE"
    BY DEF Offer!Init, Offer!NoSheet, Offer!NoApproval, Offer!NoQuote
  <1> QED BY <1>1, <1>2 DEF PriceInv, ListRows, SheetRows, ApprovalRows, ItemRows, Offer!Sheets,
             Offer!Quotes

(* A step of price lists under which what was in use stays.                *)
LEMMA ListsKeep ==
    ASSUME PriceInv, ListRows', UNCHANGED <<sheet, approval, quote>>,
           \A l \in PriceList : Settled(list[l]) => Settled(list'[l]) /\ list'[l].rules = list[l].rules
    PROVE  PriceInv'
  <1>1. /\ Offer!Sheets' = Offer!Sheets /\ Offer!Quotes' = Offer!Quotes
        /\ sheet' = sheet /\ approval' = approval /\ quote' = quote
    BY DEF Offer!Sheets, Offer!Quotes
  <1>2. ASSUME NEW s \in Offer!Sheets
        PROVE  RulesOf(s)' = RulesOf(s) /\ Settled(list[sheet[s].list])'
    BY <1>1 DEF PriceInv, SheetRows, RulesOf
  <1>3. SheetRows'
    BY <1>1, <1>2 DEF PriceInv, SheetRows
  <1>4. ASSUME NEW s \in Offer!Sheets
        PROVE  (Asked(s)' <=> Asked(s)) /\ (Approved(s)' <=> Approved(s))
    BY <1>1, <1>2 DEF Asked, Approved, MayApprove
  <1>5. ApprovalRows'
    BY <1>1, <1>2, <1>4 DEF PriceInv, ApprovalRows
  <1>6. ItemRows'
    BY <1>1 DEF PriceInv, ItemRows
  <1> QED BY <1>3, <1>5, <1>6 DEF PriceInv

LEMMA ListRowKeeps ==
    ASSUME PriceInv, NEW l \in PriceList, NEW row, Offer!SetList(l, row),
           DOMAIN row = {"status", "rules", "window"}, row.rules \in RuleSets,
           Settled(list[l]) => Settled(row) /\ row.rules = list[l].rules
    PROVE  PriceInv'
  <1>1. /\ DOMAIN list' = PriceList /\ list'[l] = row
        /\ \A k \in PriceList \ {l} : list'[k] = list[k]
        /\ UNCHANGED <<sheet, approval, quote, lists>>
    BY DEF Offer!SetList, PriceInv, ListRows
  <1>2. \A k \in PriceList : Settled(list[k]) => Settled(list'[k]) /\ list'[k].rules = list[k].rules
    BY <1>1
  <1>3. ListRows'
    BY <1>1, <1>2 DEF PriceInv, ListRows
  <1> QED BY <1>1, <1>2, <1>3, ListsKeep

LEMMA ListStepKeeps == ASSUME PriceInv, Offer!ListStep PROVE PriceInv'
  <1>1. ASSUME NEW l \in PriceList, NEW rules \in RuleSets, NEW w, Offer!CreatePriceList(l, rules, w)
        PROVE  PriceInv'
    <2> DEFINE row == [status |-> "DRAFT", rules |-> rules, window |-> w]
    <2>1. Offer!SetList(l, row) /\ list[l].status = "NONE"
      BY <1>1 DEF Offer!CreatePriceList
    <2> QED BY <2>1, ListRowKeeps DEF Settled
  <1>2. ASSUME NEW l \in PriceList, NEW rules \in RuleSets, NEW w, Offer!UpdatePriceList(l, rules, w)
        PROVE  PriceInv'
    <2> DEFINE row == [list[l] EXCEPT !.rules = rules, !.window = w]
    <2>1. Offer!SetList(l, row) /\ list[l].status = "DRAFT"
      BY <1>2 DEF Offer!UpdatePriceList
    <2>2. DOMAIN row = {"status", "rules", "window"} /\ row.rules = rules
      BY DEF PriceInv, ListRows
    <2> HIDE DEF row
    <2> QED BY <2>1, <2>2, ListRowKeeps DEF Settled
  <1>3. ASSUME NEW l \in PriceList, NEW target, Offer!ChangePriceListStatus(l, target)
        PROVE  PriceInv'
    <2> DEFINE row == [list[l] EXCEPT !.status = target]
    <2>1. Offer!SetList(l, row) /\ target \in {"ACTIVE", "INACTIVE", "ARCHIVED"}
      BY <1>3 DEF Offer!ChangePriceListStatus, Offer!ListMoves
    <2>2. /\ DOMAIN row = {"status", "rules", "window"} /\ row.rules = list[l].rules
          /\ row.status = target /\ list[l].rules \in RuleSets
      BY DEF PriceInv, ListRows
    <2> HIDE DEF row
    <2> QED BY <2>1, <2>2, ListRowKeeps DEF Settled
  <1>4. ASSUME NEW l \in PriceList, Offer!DeletePriceList(l) PROVE PriceInv'
    <2> DEFINE row == [list[l] EXCEPT !.status = "DELETED"]
    <2>1. Offer!SetList(l, row) /\ list[l].status = "DRAFT"
      BY <1>4 DEF Offer!DeletePriceList
    <2>2. DOMAIN row = {"status", "rules", "window"} /\ row.rules \in RuleSets
      BY DEF PriceInv, ListRows
    <2> HIDE DEF row
    <2> QED BY <2>1, <2>2, ListRowKeeps DEF Settled
  <1>5. ASSUME NEW l \in PriceList, Offer!ListAges(l) PROVE PriceInv'
    <2> DEFINE w == IF list[l].window = "future" THEN "current" ELSE "past"
               row == [list[l] EXCEPT !.window = w]
    <2>1. Offer!SetList(l, row)
      BY <1>5 DEF Offer!ListAges
    <2>2. /\ DOMAIN row = {"status", "rules", "window"} /\ row.rules = list[l].rules
          /\ row.status = list[l].status /\ row.rules \in RuleSets
      BY DEF PriceInv, ListRows
    <2> HIDE DEF row
    <2> QED BY <2>1, <2>2, ListRowKeeps DEF Settled
  <1> QED BY <1>1, <1>2, <1>3, <1>4, <1>5 DEF Offer!ListStep

LEMMA BeginKeeps == ASSUME PriceInv, Offer!Begin PROVE PriceInv'
  <1>1. lists' = {list} /\ UNCHANGED <<list, sheet, approval, quote>>
    BY DEF Offer!Begin
  <1>2. ListRows'
    BY <1>1 DEF PriceInv, ListRows
  <1> QED BY <1>1, <1>2, ListsKeep

(* A new cost sheet, priced in whatever read view.                         *)
LEMMA CostSheetKeeps ==
    ASSUME PriceInv, Cents, NEW v \in Offer!Views, NEW s \in CostSheet, NEW l \in PriceList,
           NEW request \in Requests, NEW seller, Offer!CreateCostSheet(v, s, l, request, seller)
    PROVE  PriceInv'
  <1> DEFINE rules == list[l].rules
             needed(p) == Offer!NeedsApproval(rules, p.discount, p.percent)
             row(p) == [status |-> IF needed(p) THEN "PENDING_APPROVAL" ELSE "APPROVED",
                        list |-> l, request |-> request, price |-> p, creator |-> seller]
             ask(p) == IF needed(p)
                       THEN [status |-> "PENDING", requester |-> seller,
                             users |-> Offer!LevelFor(rules, p).users,
                             roles |-> Offer!LevelFor(rules, p).roles]
                       ELSE Offer!NoApproval
  <1>1. v[l].rules = rules /\ Settled(list[l])
    <2>1. Settled(v[l])
      BY DEF Offer!CreateCostSheet, Offer!Effective, Settled
    <2> QED BY <2>1 DEF Offer!Views, PriceInv, ListRows
  <1>2. PICK p \in Offer!CostSheets(rules, request.unit, request) :
            sheet' = [sheet EXCEPT ![s] = row(p)] /\ approval' = [approval EXCEPT ![s] = ask(p)]
    BY <1>1 DEF Offer!CreateCostSheet
  <1>3. sheet[s].status = "NONE" /\ s \notin Offer!Sheets /\ UNCHANGED <<list, quote, lists>>
    BY DEF Offer!CreateCostSheet, Offer!Sheets
  <1>4. /\ DOMAIN sheet' = CostSheet /\ DOMAIN approval' = CostSheet
        /\ sheet'[s] = row(p) /\ approval'[s] = ask(p)
        /\ \A t \in CostSheet \ {s} : sheet'[t] = sheet[t] /\ approval'[t] = approval[t]
    BY <1>2 DEF PriceInv, SheetRows, ApprovalRows
  <1>5. Offer!Sheets' = Offer!Sheets \cup {s}
    BY <1>3, <1>4 DEF Offer!Sheets
  <1>6. RulesOf(s)' = rules /\ \A t \in Offer!Sheets : RulesOf(t)' = RulesOf(t)
    BY <1>3, <1>4 DEF RulesOf, Offer!Sheets
  <1>7. needed(p) => Offer!LevelFor(rules, p) \in Offer!Levels(rules, p.percent)
    <2>1. rules \in RuleSets
      BY DEF PriceInv, ListRows
    <2>2. Offer!WholeCents(rules, request.unit, request)
      BY <2>1 DEF Cents
    <2> HIDE DEF rules
    <2>3. needed(p) => Offer!Levels(rules, p.percent) # {}
      BY <2>2, PriceIs
    <2> QED BY <2>3 DEF Offer!LevelFor
  <1> HIDE DEF rules
  <1>8. /\ DOMAIN sheet'[s] = {"status", "list", "request", "price", "creator"}
        /\ sheet'[s].list = l /\ sheet'[s].request = request /\ sheet'[s].price = p
        /\ sheet'[s].creator = seller
        /\ sheet'[s].status = IF needed(p) THEN "PENDING_APPROVAL" ELSE "APPROVED"
    BY <1>4
  <1>9. needed(p) => /\ approval'[s].status = "PENDING" /\ approval'[s].requester = seller
                     /\ approval'[s].users = Offer!LevelFor(rules, p).users
                     /\ approval'[s].roles = Offer!LevelFor(rules, p).roles
    BY <1>4
  <1>10. ~needed(p) => approval'[s].status = "NONE"
    BY <1>4 DEF Offer!NoApproval
  <1> HIDE DEF row, ask, needed
  <1>11. ListRows'
    BY <1>3 DEF PriceInv, ListRows
  <1>12. SheetRows'
    <2>1. Settled(list[l])'
      BY <1>1, <1>3 DEF Settled
    <2>2. ASSUME NEW t \in Offer!Sheets PROVE sheet'[t] = sheet[t] /\ t \in CostSheet
      BY <1>3, <1>4 DEF Offer!Sheets
    <2>3. list' = list
      BY <1>3
    <2> QED BY <1>2, <1>4, <1>5, <1>6, <1>8, <2>1, <2>2, <2>3 DEF PriceInv, SheetRows
  <1>13. ApprovalRows'
    <2>1. needed(p) => Asked(s)'
      BY <1>6, <1>7, <1>8, <1>9 DEF Asked
    <2>2. ASSUME NEW t \in Offer!Sheets
          PROVE  /\ sheet'[t] = sheet[t] /\ approval'[t] = approval[t] /\ t \in CostSheet
                 /\ (Asked(t)' <=> Asked(t)) /\ (Approved(t)' <=> Approved(t))
      BY <1>3, <1>4, <1>6 DEF Asked, Approved, MayApprove, Offer!Sheets
    <2>3. Offer!NeedsApproval(RulesOf(s)', sheet'[s].price.discount, sheet'[s].price.percent)
          <=> needed(p)
      BY <1>6, <1>8 DEF needed
    <2>4. needed(p) => sheet'[s].status = "PENDING_APPROVAL"
      BY <1>8
    <2>5. ASSUME NEW t \in CostSheet, approval'[t].status = "PENDING"
          PROVE  t \in Offer!Sheets' /\ Asked(t)'
      <3>1. CASE t = s
        BY <1>5, <1>10, <2>1, <2>5, <3>1
      <3>2. CASE t # s
        BY <1>4, <1>5, <2>2, <2>5, <3>2 DEF PriceInv, ApprovalRows
      <3> QED BY <3>1, <3>2
    <2>6. ASSUME NEW t \in Offer!Sheets', sheet'[t].status \in {"APPROVED", "CONVERTED"},
                 Offer!NeedsApproval(RulesOf(t)', sheet'[t].price.discount, sheet'[t].price.percent)
          PROVE  Approved(t)'
      <3>1. CASE t = s
        BY <2>3, <2>4, <2>6, <3>1
      <3>2. CASE t # s
        BY <1>5, <1>6, <2>2, <2>6, <3>2 DEF PriceInv, ApprovalRows
      <3> QED BY <3>1, <3>2
    <2> QED BY <1>4, <2>5, <2>6 DEF ApprovalRows
  <1>14. ItemRows'
    <2>1. ASSUME NEW t \in Offer!Sheets PROVE sheet'[t] = sheet[t]
      BY <1>3, <1>4 DEF Offer!Sheets
    <2>2. quote' = quote /\ Offer!Quotes' = Offer!Quotes
      BY <1>3 DEF Offer!Quotes
    <2> QED BY <1>5, <2>1, <2>2 DEF PriceInv, ItemRows
  <1> QED BY <1>11, <1>12, <1>13, <1>14 DEF PriceInv

LEMMA DiscountKeeps ==
    ASSUME PriceInv, NEW s \in CostSheet, NEW seller, NEW verdict \in {"APPROVED", "REJECTED"},
           Offer!DecideDiscount(s, seller, verdict)
    PROVE  PriceInv'
  <1> DEFINE row == [status |-> verdict, requester |-> approval[s].requester,
                     users |-> approval[s].users, roles |-> approval[s].roles,
                     approver |-> seller]
             new == [sheet[s] EXCEPT !.status = verdict]
  <1>1. /\ approval[s].status = "PENDING" /\ UNCHANGED <<list, quote, lists>>
        /\ seller # approval[s].requester
        /\ \/ seller \in approval[s].users
           \/ RoleOf[seller] \in approval[s].roles
           \/ seller \in Managers
    BY DEF Offer!DecideDiscount, Offer!MayDecide
  <1>2. s \in Offer!Sheets /\ Asked(s)
    BY <1>1 DEF PriceInv, ApprovalRows
  <1>3. /\ DOMAIN sheet' = CostSheet /\ DOMAIN approval' = CostSheet
        /\ sheet'[s] = new /\ approval'[s] = row
        /\ \A t \in CostSheet \ {s} : sheet'[t] = sheet[t] /\ approval'[t] = approval[t]
    BY DEF Offer!DecideDiscount, PriceInv, SheetRows, ApprovalRows
  <1>4. /\ DOMAIN new = {"status", "list", "request", "price", "creator"} /\ new.status = verdict
        /\ new.list = sheet[s].list /\ new.request = sheet[s].request
        /\ new.price = sheet[s].price /\ new.creator = sheet[s].creator
    BY <1>2 DEF PriceInv, SheetRows
  <1>5. approval'[s].status = verdict /\ approval'[s].approver = seller
    BY <1>3
  <1> HIDE DEF new, row
  <1>6. Offer!Sheets' = Offer!Sheets
    BY <1>2, <1>3, <1>4 DEF Offer!Sheets
  <1>7. ASSUME NEW t \in Offer!Sheets
        PROVE  /\ t \in CostSheet /\ RulesOf(t)' = RulesOf(t) /\ sheet'[t].list = sheet[t].list
               /\ sheet'[t].request = sheet[t].request /\ sheet'[t].price = sheet[t].price
               /\ sheet'[t].creator = sheet[t].creator
               /\ DOMAIN sheet'[t] = DOMAIN sheet[t]
    <2>1. CASE t = s
      BY <1>1, <1>2, <1>3, <1>4, <2>1 DEF RulesOf, PriceInv, SheetRows
    <2>2. CASE t # s
      BY <1>1, <1>3, <2>2 DEF RulesOf, Offer!Sheets
    <2> QED BY <2>1, <2>2
  <1>8. ListRows'
    BY <1>1 DEF PriceInv, ListRows
  <1>9. SheetRows'
    <2>1. list' = list
      BY <1>1
    <2> QED BY <1>3, <1>6, <1>7, <2>1 DEF PriceInv, SheetRows, Settled
  <1>10. ApprovalRows'
    <2>1. Approved(s)' \/ verdict = "REJECTED"
      <3>1. MayApprove(s, seller)
        BY <1>1, <1>2 DEF Asked, MayApprove
      <3>2. seller # sheet[s].creator
        BY <1>1, <1>2 DEF Asked
      <3>3. MayApprove(s, seller)'
        BY <1>2, <1>7, <3>1 DEF MayApprove
      <3> QED BY <1>2, <1>5, <1>7, <3>2, <3>3 DEF Approved
    <2>2. ASSUME NEW t \in Offer!Sheets \ {s}
          PROVE  /\ sheet'[t] = sheet[t] /\ approval'[t] = approval[t]
                 /\ (Asked(t)' <=> Asked(t)) /\ (Approved(t)' <=> Approved(t))
      BY <1>3, <1>7 DEF Asked, Approved, MayApprove
    <2>3. ASSUME NEW t \in CostSheet, approval'[t].status = "PENDING"
          PROVE  t \in Offer!Sheets' /\ Asked(t)'
      <3>1. t # s
        BY <1>5, <2>3
      <3> QED BY <1>3, <1>6, <2>2, <2>3, <3>1 DEF PriceInv, ApprovalRows
    <2>4. ASSUME NEW t \in Offer!Sheets', sheet'[t].status \in {"APPROVED", "CONVERTED"},
                 Offer!NeedsApproval(RulesOf(t)', sheet'[t].price.discount, sheet'[t].price.percent)
          PROVE  Approved(t)'
      <3>1. CASE t = s
        BY <1>3, <1>4, <2>1, <2>4, <3>1
      <3>2. CASE t # s
        BY <1>6, <1>7, <2>2, <2>4, <3>2 DEF PriceInv, ApprovalRows
      <3> QED BY <3>1, <3>2
    <2> QED BY <1>3, <2>3, <2>4 DEF ApprovalRows
  <1>11. ItemRows'
    <2>1. quote' = quote /\ Offer!Quotes' = Offer!Quotes
      BY <1>1 DEF Offer!Quotes
    <2>2. ASSUME NEW q \in Offer!Quotes PROVE quote[q].sheet # s
      BY <1>2 DEF PriceInv, ItemRows, Asked
    <2>3. ASSUME NEW t \in Offer!Sheets \ {s} PROVE sheet'[t] = sheet[t]
      BY <1>3, <1>7
    <2> QED BY <1>6, <2>1, <2>2, <2>3 DEF PriceInv, ItemRows
  <1> QED BY <1>8, <1>9, <1>10, <1>11 DEF PriceInv

(* Quotations.                                                             *)
QuoteFields == {"status", "sheet", "items", "total"}

LEMMA RecordKeeps ==
    ASSUME PriceInv, NEW q \in Quote, NEW s \in CostSheet, sheet[s].status = "APPROVED",
           NEW number, NEW version, NEW parent, NEW others, DOMAIN others = Quote,
           \A p \in Quote : (others[p].status = "NONE") <=> (quote[p].status = "NONE"),
           \A p \in Offer!Quotes :
              /\ QuoteFields \subseteq DOMAIN others[p] /\ others[p].sheet = quote[p].sheet
              /\ others[p].items = quote[p].items /\ others[p].total = quote[p].total,
           Offer!CreateQuotationRecord(q, s, Offer!QuotationRow(s, number, version, parent), others)
    PROVE  PriceInv'
  <1> DEFINE row == Offer!QuotationRow(s, number, version, parent)
             new == [sheet[s] EXCEPT !.status = "CONVERTED"]
             price == sheet[s].price
  <1>1. /\ quote[q].status = "NONE" /\ UNCHANGED <<list, approval, lists>>
        /\ quote' = [others EXCEPT ![q] = row] /\ sheet' = [sheet EXCEPT ![s] = new]
    BY DEF Offer!CreateQuotationRecord
  <1>2. /\ QuoteFields \subseteq DOMAIN row /\ row.status = "DRAFT" /\ row.sheet = s
        /\ row.total = price.final
        /\ row.items = [i \in DOMAIN price.lines |-> Offer!Item(price.lines[i])]
    BY DEF Offer!QuotationRow, Offer!PriceOf, QuoteFields
  <1>3. s \in Offer!Sheets
    BY DEF Offer!Sheets
  <1>4. /\ DOMAIN new = {"status", "list", "request", "price", "creator"}
        /\ new.status = "CONVERTED"
        /\ new.list = sheet[s].list /\ new.request = sheet[s].request
        /\ new.price = sheet[s].price /\ new.creator = sheet[s].creator
    BY <1>3 DEF PriceInv, SheetRows
  <1>5. /\ DOMAIN sheet' = CostSheet /\ sheet'[s] = new
        /\ \A t \in CostSheet \ {s} : sheet'[t] = sheet[t]
    BY <1>1 DEF PriceInv, SheetRows
  <1>6. DOMAIN quote' = Quote /\ quote'[q] = row /\ \A p \in Quote \ {q} : quote'[p] = others[p]
    BY <1>1
  <1> HIDE DEF row, new, price
  <1>7. Offer!Sheets' = Offer!Sheets /\ Offer!Quotes' = Offer!Quotes \cup {q} /\ q \notin Offer!Quotes
    <2>1. Offer!Sheets' = Offer!Sheets
      BY <1>3, <1>4, <1>5 DEF Offer!Sheets
    <2>2. row.status # "NONE"
      BY <1>2
    <2>3. Offer!Quotes' = Offer!Quotes \cup {q} /\ q \notin Offer!Quotes
      BY <1>1, <1>6, <2>2 DEF Offer!Quotes
    <2> QED BY <2>1, <2>3
  <1>8. ASSUME NEW t \in Offer!Sheets
        PROVE  /\ t \in CostSheet /\ RulesOf(t)' = RulesOf(t) /\ sheet'[t].list = sheet[t].list
               /\ sheet'[t].request = sheet[t].request /\ sheet'[t].price = sheet[t].price
               /\ sheet'[t].creator = sheet[t].creator
               /\ DOMAIN sheet'[t] = {"status", "list", "request", "price", "creator"}
               /\ sheet'[t].status = IF t = s THEN "CONVERTED" ELSE sheet[t].status
    <2>1. CASE t = s
      BY <1>1, <1>3, <1>4, <1>5, <2>1 DEF RulesOf
    <2>2. CASE t # s
      BY <1>1, <1>5, <2>2 DEF RulesOf, Offer!Sheets, PriceInv, SheetRows
    <2> QED BY <2>1, <2>2
  <1>9. ListRows'
    BY <1>1 DEF PriceInv, ListRows
  <1>10. SheetRows'
    <2>1. list' = list
      BY <1>1
    <2> QED BY <1>5, <1>7, <1>8, <2>1 DEF PriceInv, SheetRows, Settled
  <1>11. ApprovalRows'
    <2>1. approval' = approval
      BY <1>1
    <2>2. ASSUME NEW t \in Offer!Sheets
          PROVE  /\ Approved(t)' <=> Approved(t)
                 /\ approval[t].status = "PENDING" => Asked(t)'
      <3>1. approval[t].status = "PENDING" => Asked(t) /\ t # s
        BY <1>8 DEF PriceInv, ApprovalRows, Asked
      <3> QED BY <1>8, <2>1, <3>1 DEF Asked, Approved, MayApprove
    <2>3. ASSUME NEW t \in CostSheet, approval'[t].status = "PENDING"
          PROVE  t \in Offer!Sheets' /\ Asked(t)'
      BY <1>7, <2>1, <2>2, <2>3 DEF PriceInv, ApprovalRows
    <2>4. ASSUME NEW t \in Offer!Sheets', sheet'[t].status \in {"APPROVED", "CONVERTED"},
                 Offer!NeedsApproval(RulesOf(t)', sheet'[t].price.discount, sheet'[t].price.percent)
          PROVE  Approved(t)'
      <3>1. t \in Offer!Sheets /\ sheet[t].status \in {"APPROVED", "CONVERTED"}
        BY <1>7, <1>8, <2>4
      <3> QED BY <1>8, <2>2, <2>4, <3>1 DEF PriceInv, ApprovalRows
    <2> QED BY <2>1, <2>3, <2>4 DEF PriceInv, ApprovalRows
  <1>12. ItemRows'
    <2> DEFINE Right(p) ==
          /\ QuoteFields \subseteq DOMAIN quote'[p] /\ quote'[p].sheet \in Offer!Sheets
          /\ sheet'[quote'[p].sheet].status = "CONVERTED"
          /\ LET c == sheet'[quote'[p].sheet].price
             IN  /\ quote'[p].items = [i \in DOMAIN c.lines |-> Offer!Item(c.lines[i])]
                 /\ quote'[p].total = c.final
    <2>1. Right(q)
      BY <1>2, <1>3, <1>6, <1>8 DEF price
    <2>2. ASSUME NEW p \in Offer!Quotes PROVE Right(p)
      <3>1. /\ QuoteFields \subseteq DOMAIN quote'[p] /\ quote'[p].sheet = quote[p].sheet
            /\ quote'[p].items = quote[p].items /\ quote'[p].total = quote[p].total
        BY <1>6, <1>7 DEF Offer!Quotes
      <3>2. /\ quote[p].sheet \in Offer!Sheets /\ sheet[quote[p].sheet].status = "CONVERTED"
            /\ quote[p].items = [i \in DOMAIN sheet[quote[p].sheet].price.lines |->
                                    Offer!Item(sheet[quote[p].sheet].price.lines[i])]
            /\ quote[p].total = sheet[quote[p].sheet].price.final
        BY DEF PriceInv, ItemRows
      <3>3. /\ sheet'[quote[p].sheet].status = "CONVERTED"
            /\ sheet'[quote[p].sheet].price = sheet[quote[p].sheet].price
        BY <1>8, <3>2
      <3> QED BY <3>1, <3>2, <3>3
    <2> QED BY <1>6, <1>7, <2>1, <2>2 DEF ItemRows, QuoteFields
  <1> QED BY <1>9, <1>10, <1>11, <1>12 DEF PriceInv

LEMMA QuoteStepKeeps == ASSUME PriceInv, Offer!QuoteStep PROVE PriceInv'
  <1>1. ASSUME NEW q \in Quote, NEW s \in CostSheet, Offer!CreateQuotation(q, s) PROVE PriceInv'
    <2>1. /\ sheet[s].status = "APPROVED"
          /\ Offer!CreateQuotationRecord(q, s, Offer!QuotationRow(s, q, 1, q), quote)
      BY <1>1 DEF Offer!CreateQuotation
    <2>2. /\ DOMAIN quote = Quote
          /\ \A p \in Offer!Quotes : QuoteFields \subseteq DOMAIN quote[p]
      BY DEF PriceInv, ItemRows, QuoteFields
    <2> QED BY <2>1, <2>2, RecordKeeps
  <1>2. ASSUME NEW q \in Quote, NEW source \in Quote, NEW s \in CostSheet,
               Offer!CreateQuotationVersion(q, source, s)
        PROVE  PriceInv'
    <2> DEFINE others == Offer!Superseded(source)
               version == Offer!NewestVersion(source) + 1
    <2>1. /\ sheet[s].status = "APPROVED"
          /\ Offer!CreateQuotationRecord(
                 q, s, Offer!QuotationRow(s, quote[source].number, version, source), others)
      BY <1>2 DEF Offer!CreateQuotationVersion
    <2>2. /\ DOMAIN others = Quote
          /\ \A p \in Quote : \/ others[p] = quote[p]
                              \/ /\ others[p] = [quote[p] EXCEPT !.status = "SUPERSEDED"]
                                 /\ p \in Offer!Quotes
      BY DEF Offer!Superseded, Offer!Versions
    <2> HIDE DEF others, version
    <2>3. ASSUME NEW p \in Offer!Quotes
          PROVE  /\ QuoteFields \subseteq DOMAIN others[p] /\ others[p].status # "NONE"
                 /\ others[p].sheet = quote[p].sheet
                 /\ others[p].items = quote[p].items /\ others[p].total = quote[p].total
      <3>1. QuoteFields \subseteq DOMAIN quote[p] /\ p \in Quote /\ quote[p].status # "NONE"
        BY DEF PriceInv, ItemRows, QuoteFields, Offer!Quotes
      <3> QED BY <2>2, <3>1 DEF QuoteFields
    <2>4. \A p \in Quote : (others[p].status = "NONE") <=> (quote[p].status = "NONE")
      BY <2>2, <2>3 DEF Offer!Quotes
    <2> QED BY <2>1, <2>2, <2>3, <2>4, RecordKeeps
  <1>3. ASSUME NEW q \in Quote, NEW target, Offer!ChangeQuotationStatus(q, target) PROVE PriceInv'
    <2> DEFINE row == [quote[q] EXCEPT !.status = target]
    <2>1. /\ quote' = [quote EXCEPT ![q] = row] /\ quote[q].status \in {"DRAFT", "SENT"}
          /\ target \in {"SENT", "EXPIRED", "ACCEPTED", "REJECTED"}
          /\ UNCHANGED <<list, sheet, approval, lists>>
      BY <1>3 DEF Offer!ChangeQuotationStatus, Offer!SetQuote, Offer!QuoteMoves
    <2>2. q \in Offer!Quotes
      BY <2>1 DEF Offer!Quotes
    <2>3. QuoteFields \subseteq DOMAIN quote[q]
      BY <2>2 DEF PriceInv, ItemRows, QuoteFields
    <2>4. /\ QuoteFields \subseteq DOMAIN row /\ row.sheet = quote[q].sheet
          /\ row.items = quote[q].items /\ row.total = quote[q].total /\ row.status = target
      BY <2>3 DEF QuoteFields
    <2> HIDE DEF row
    <2>5. DOMAIN quote' = Quote /\ quote'[q] = row /\ \A p \in Quote \ {q} : quote'[p] = quote[p]
      BY <2>1 DEF PriceInv, ItemRows
    <2>6. Offer!Quotes' = Offer!Quotes /\ Offer!Sheets' = Offer!Sheets
      BY <2>1, <2>2, <2>4, <2>5 DEF Offer!Quotes, Offer!Sheets
    <2>7. ItemRows'
      BY <2>1, <2>2, <2>4, <2>5, <2>6 DEF PriceInv, ItemRows, QuoteFields, Offer!Quotes
    <2>8. ListRows'
      BY <2>1 DEF PriceInv, ListRows
    <2>9. SheetRows'
      BY <2>1, <2>6 DEF PriceInv, SheetRows, RulesOf, Settled
    <2>10. ApprovalRows'
      BY <2>1, <2>6 DEF PriceInv, ApprovalRows, RulesOf, Asked, Approved, MayApprove
    <2> QED BY <2>7, <2>8, <2>9, <2>10 DEF PriceInv
  <1> QED BY <1>1, <1>2, <1>3 DEF Offer!QuoteStep

LEMMA PriceInvStep == ASSUME PriceInv, Cents, [Offer!Next]_Offer!vars PROVE PriceInv'
  <1>1. ASSUME UNCHANGED Offer!vars PROVE PriceInv'
    BY <1>1 DEF Offer!vars, PriceInv, ListRows, SheetRows, ApprovalRows, ItemRows, RulesOf,
                Settled, Asked, Approved, MayApprove, Offer!Sheets, Offer!Quotes
  <1>2. ASSUME Offer!SheetStep PROVE PriceInv'
    BY <1>2, CostSheetKeeps, DiscountKeeps DEF Offer!SheetStep
  <1> QED BY <1>1, <1>2, BeginKeeps, ListStepKeeps, QuoteStepKeeps DEF Offer!Next

(* The items of a quotation, less their discounts, come to the lines of    *)
(* its sheet.                                                              *)
LEMMA ItemsAddUp ==
    ASSUME NEW lines \in Seq(Offer!LineRow), NEW items,
           items = [i \in DOMAIN lines |-> Offer!Item(lines[i])]
    PROVE  Offer!Added([i \in DOMAIN items |-> items[i].total])
             - Offer!Added([i \in DOMAIN items |-> items[i].discount]) = Offer!Total(lines)
  <1> DEFINE n == Len(lines)
             t == [i \in DOMAIN items |-> items[i].total]
             d == [i \in DOMAIN items |-> items[i].discount]
             a == [i \in DOMAIN lines |-> lines[i].amount]
  <1>1. n \in Nat /\ DOMAIN lines = 1..n /\ \A i \in 1..n : lines[i] \in Offer!LineRow
    OBVIOUS
  <1>2. DOMAIN items = 1..n /\ \A i \in 1..n : items[i] = Offer!Item(lines[i])
    BY <1>1
  <1>3. ASSUME NEW i \in 1..n
        PROVE  /\ lines[i].amount \in Int /\ items[i].total \in Int /\ items[i].discount \in Int
               /\ items[i].total - items[i].discount = lines[i].amount
    <2>1. lines[i].amount \in Int
      BY <1>1 DEF Offer!LineRow
    <2> QED BY <1>2, <2>1 DEF Offer!Item
  <1>4. t \in [1..n -> Int] /\ d \in [1..n -> Int]
    BY <1>2, <1>3
  <1>5. a = [i \in 1..n |-> t[i] - d[i]]
    BY <1>1, <1>2, <1>3
  <1>6. Offer!Total(lines) = Offer!Added(a)
    BY DEF Offer!Total
  <1> HIDE DEF n, t, d, a
  <1>7. Offer!Added(t) - Offer!Added(d) = Offer!Added([i \in 1..n |-> t[i] - d[i]])
    BY <1>1, <1>4, AddedMinus
  <1> QED BY <1>5, <1>6, <1>7 DEF t, d

LEMMA SheetPrice ==
    ASSUME PriceInv, Cents, NEW s \in Offer!Sheets
    PROVE  LET p == sheet[s].price IN
           /\ p \in Offer!CostSheets(RulesOf(s), sheet[s].request.unit, sheet[s].request)
           /\ p.lines \in Seq(Offer!LineRow) /\ Offer!Total(p.lines) = p.final
           /\ p.percent = Offer!DiscountPercent(p.discount, p.final + p.discount)
           /\ p.percent > RulesOf(s).limit =>
                 Offer!NeedsApproval(RulesOf(s), p.discount, p.percent)
  <1>1. /\ sheet[s].list \in PriceList /\ sheet[s].request \in Requests
        /\ sheet[s].price \in
              Offer!CostSheets(RulesOf(s), sheet[s].request.unit, sheet[s].request)
    BY DEF PriceInv, SheetRows
  <1>2. RulesOf(s) \in RuleSets
    BY <1>1 DEF PriceInv, ListRows, RulesOf
  <1>3. Offer!WholeCents(RulesOf(s), sheet[s].request.unit, sheet[s].request)
    BY <1>1, <1>2 DEF Cents
  <1> QED BY <1>1, <1>3, PriceIs

LEMMA PriceShows == ASSUME PriceInv, Cents PROVE Offer!PricesStand /\ Offer!DiscountsVouched
  <1>1. Offer!PricesStand
    <2>1. ASSUME NEW s \in Offer!Sheets
          PROVE  /\ Offer!PriceOf(s) \in Offer!CostSheets(list[sheet[s].list].rules,
                                              sheet[s].request.unit, sheet[s].request)
                 /\ Offer!Total(Offer!PriceOf(s).lines) = Offer!PriceOf(s).final
      BY SheetPrice DEF RulesOf, Offer!PriceOf
    <2>2. ASSUME NEW q \in Offer!Quotes
          PROVE  Offer!Added([i \in DOMAIN quote[q].items |-> quote[q].items[i].total])
                   - Offer!Added([i \in DOMAIN quote[q].items |-> quote[q].items[i].discount])
                 = quote[q].total
      <3> DEFINE lines == sheet[quote[q].sheet].price.lines
                 items == quote[q].items
      <3>1. /\ quote[q].sheet \in Offer!Sheets
            /\ items = [i \in DOMAIN lines |-> Offer!Item(lines[i])]
            /\ quote[q].total = sheet[quote[q].sheet].price.final
        BY DEF PriceInv, ItemRows
      <3>2. lines \in Seq(Offer!LineRow) /\ Offer!Total(lines) = quote[q].total
        BY <3>1, SheetPrice
      <3> HIDE DEF lines
      <3> QED BY <3>1, <3>2, ItemsAddUp
    <2> QED BY <2>1, <2>2 DEF Offer!PricesStand
  <1>2. Offer!DiscountsVouched
    <2> SUFFICES ASSUME NEW q \in Offer!Quotes,
                        Offer!DiscountPercent(sheet[quote[q].sheet].price.discount,
                            sheet[quote[q].sheet].price.final + sheet[quote[q].sheet].price.discount)
                          > RulesOf(quote[q].sheet).limit
                 PROVE  Approved(quote[q].sheet)
                        /\ sheet[quote[q].sheet].price.percent =
                             Offer!DiscountPercent(sheet[quote[q].sheet].price.discount,
                                 sheet[quote[q].sheet].price.final
                                   + sheet[quote[q].sheet].price.discount)
      BY DEF Offer!DiscountsVouched, Offer!PriceOf, RulesOf, Approved, MayApprove
    <2>1. quote[q].sheet \in Offer!Sheets /\ sheet[quote[q].sheet].status = "CONVERTED"
      BY DEF PriceInv, ItemRows
    <2> QED BY <2>1, SheetPrice DEF PriceInv, ApprovalRows
  <1> QED BY <1>1, <1>2

(* Cost sheets freeze the rules they were priced under, in whatever read   *)
(* view, and add up, as their quotations do; and a quotation's discount    *)
(* above the seller's limit was approved by somebody else in charge of it. *)
(* Prices are in whole cents.                                              *)
THEOREM PricesCorrect ==
    ASSUME Cents, RuleSets # {}
    PROVE  Offer!Spec => [](Offer!PricesStand /\ Offer!DiscountsVouched)
  <1>1. Offer!Init => PriceInv
    BY PriceStart
  <1>2. PriceInv /\ [Offer!Next]_Offer!vars => PriceInv'
    BY PriceInvStep
  <1>3. PriceInv => Offer!PricesStand /\ Offer!DiscountsVouched
    BY PriceShows
  <1> QED BY <1>1, <1>2, <1>3, PTL DEF Offer!Spec

-----------------------------------------------------------------------------
-----------------------------------------------------------------------------
(* The rows of quotations keep their types; a cost sheet waits for its     *)
(* discount exactly while the approval is asked for.                       *)
ListTypes ==
    \A l \in PriceList : list[l].status \in Offer!ListStatus /\ list[l].window \in Offer!Window
SheetTypes ==
    /\ \A s \in CostSheet : /\ sheet[s].status \in Offer!CostSheetStatus
                            /\ approval[s].status \in Offer!ApprovalStatus
    /\ \A s \in Offer!Sheets :
          /\ sheet[s].creator \in Seller
          /\ sheet[s].status = "PENDING_APPROVAL" => approval[s].status = "PENDING"
QuoteTypes == \A q \in Quote : quote[q].status \in Offer!QuotationStatus

OfferTypes == ListTypes /\ SheetTypes /\ QuoteTypes

LEMMA OfferTypesStart == ASSUME Offer!Init PROVE OfferTypes
  BY DEF Offer!Init, OfferTypes, ListTypes, SheetTypes, QuoteTypes, Offer!NoSheet, Offer!NoApproval,
         Offer!NoQuote, Offer!Sheets, Offer!ListStatus, Offer!CostSheetStatus,
         Offer!ApprovalStatus, Offer!QuotationStatus, Offer!Window

LEMMA ListTypesKeep ==
    ASSUME PriceInv, ListTypes, Windows \subseteq Offer!Window, Offer!ListStep
    PROVE  ListTypes'
  <1>1. ASSUME NEW l \in PriceList, NEW row, Offer!SetList(l, row),
               row.status \in Offer!ListStatus, row.window \in Offer!Window
        PROVE  ListTypes'
    <2>1. list' = [list EXCEPT ![l] = row] /\ DOMAIN list = PriceList
      BY <1>1 DEF Offer!SetList, PriceInv, ListRows
    <2>2. \A k \in PriceList : list'[k] = IF k = l THEN row ELSE list[k]
      BY <2>1
    <2> QED BY <1>1, <2>2 DEF ListTypes
  <1>2. ASSUME NEW l \in PriceList, NEW rules, NEW w \in Windows,
               Offer!CreatePriceList(l, rules, w)
        PROVE  ListTypes'
    <2> DEFINE row == [status |-> "DRAFT", rules |-> rules, window |-> w]
    <2>1. Offer!SetList(l, row)
      BY <1>2 DEF Offer!CreatePriceList
    <2>2. row.status \in Offer!ListStatus /\ row.window \in Offer!Window
      BY DEF Offer!ListStatus
    <2> HIDE DEF row
    <2> QED BY <1>1, <2>1, <2>2
  <1>3. ASSUME NEW l \in PriceList, NEW rules, NEW w \in Windows,
               Offer!UpdatePriceList(l, rules, w)
        PROVE  ListTypes'
    <2> DEFINE row == [list[l] EXCEPT !.rules = rules, !.window = w]
    <2>1. Offer!SetList(l, row)
      BY <1>3 DEF Offer!UpdatePriceList
    <2>2. row.status = list[l].status /\ row.window = w
      BY DEF PriceInv, ListRows
    <2> HIDE DEF row
    <2> QED BY <1>1, <2>1, <2>2 DEF ListTypes
  <1>4. ASSUME NEW l \in PriceList, NEW target \in Offer!ListStatus,
               Offer!SetList(l, [list[l] EXCEPT !.status = target])
        PROVE  ListTypes'
    <2> DEFINE row == [list[l] EXCEPT !.status = target]
    <2>1. row.status = target /\ row.window = list[l].window
      BY DEF PriceInv, ListRows
    <2>2. Offer!SetList(l, row)
      BY <1>4
    <2> HIDE DEF row
    <2> QED BY <1>1, <2>1, <2>2 DEF ListTypes
  <1>5. ASSUME NEW l \in PriceList, Offer!ListAges(l) PROVE ListTypes'
    <2> DEFINE w == IF list[l].window = "future" THEN "current" ELSE "past"
               row == [list[l] EXCEPT !.window = w]
    <2>1. Offer!SetList(l, row)
      BY <1>5 DEF Offer!ListAges
    <2>2. w \in Offer!Window
      BY DEF Offer!Window
    <2> HIDE DEF w
    <2>3. row.status = list[l].status /\ row.window = w
      BY DEF PriceInv, ListRows
    <2> HIDE DEF row
    <2> QED BY <1>1, <2>1, <2>2, <2>3 DEF ListTypes
  <1>6. "DELETED" \in Offer!ListStatus
    BY DEF Offer!ListStatus
  <1>7. ASSUME NEW l \in PriceList, Offer!DeletePriceList(l) PROVE ListTypes'
    BY <1>4, <1>6, <1>7 DEF Offer!DeletePriceList
  <1>8. ASSUME NEW l \in PriceList, NEW target \in Offer!ListStatus,
               Offer!ChangePriceListStatus(l, target)
        PROVE  ListTypes'
    BY <1>4, <1>8 DEF Offer!ChangePriceListStatus
  <1> QED BY <1>2, <1>3, <1>5, <1>7, <1>8 DEF Offer!ListStep

LEMMA SheetTypesNew ==
    ASSUME PriceInv, SheetTypes, NEW v, NEW s \in CostSheet, NEW l, NEW request,
           NEW seller \in Seller, Offer!CreateCostSheet(v, s, l, request, seller)
    PROVE  SheetTypes'
  <1> DEFINE needed(p) == Offer!NeedsApproval(v[l].rules, p.discount, p.percent)
             row(p) == [status |-> IF needed(p) THEN "PENDING_APPROVAL" ELSE "APPROVED",
                        list |-> l, request |-> request, price |-> p, creator |-> seller]
             ask(p) == IF needed(p)
                       THEN [status |-> "PENDING", requester |-> seller,
                             users |-> Offer!LevelFor(v[l].rules, p).users,
                             roles |-> Offer!LevelFor(v[l].rules, p).roles]
                       ELSE Offer!NoApproval
  <1>1. PICK p : sheet' = [sheet EXCEPT ![s] = row(p)] /\ approval' = [approval EXCEPT ![s] = ask(p)]
    BY DEF Offer!CreateCostSheet
  <1>2. \A t \in CostSheet : /\ sheet'[t] = IF t = s THEN row(p) ELSE sheet[t]
                             /\ approval'[t] = IF t = s THEN ask(p) ELSE approval[t]
    BY <1>1 DEF PriceInv, SheetRows, ApprovalRows
  <1>3. /\ row(p).creator = seller
        /\ row(p).status \in {"PENDING_APPROVAL", "APPROVED"}
        /\ ask(p).status \in {"PENDING", "NONE"}
        /\ row(p).status = "PENDING_APPROVAL" => ask(p).status = "PENDING"
    BY DEF Offer!NoApproval
  <1> HIDE DEF row, ask, needed
  <1>4. \A t \in CostSheet : /\ sheet'[t].status \in Offer!CostSheetStatus
                             /\ approval'[t].status \in Offer!ApprovalStatus
    BY <1>2, <1>3 DEF SheetTypes, Offer!CostSheetStatus, Offer!ApprovalStatus
  <1>5. Offer!Sheets' \subseteq Offer!Sheets \cup {s}
    BY <1>2 DEF Offer!Sheets
  <1>6. \A t \in Offer!Sheets : t \in CostSheet
    BY DEF Offer!Sheets
  <1> QED BY <1>2, <1>3, <1>4, <1>5, <1>6 DEF SheetTypes

LEMMA SheetTypesDecided ==
    ASSUME PriceInv, SheetTypes, NEW s \in CostSheet, NEW seller,
           NEW verdict \in {"APPROVED", "REJECTED"}, Offer!DecideDiscount(s, seller, verdict)
    PROVE  SheetTypes'
  <1> DEFINE row == [status |-> verdict, requester |-> approval[s].requester,
                     users |-> approval[s].users, roles |-> approval[s].roles,
                     approver |-> seller]
             new == [sheet[s] EXCEPT !.status = verdict]
  <1>1. s \in Offer!Sheets
    BY DEF Offer!DecideDiscount, PriceInv, ApprovalRows
  <1>2. \A t \in CostSheet : /\ sheet'[t] = IF t = s THEN new ELSE sheet[t]
                             /\ approval'[t] = IF t = s THEN row ELSE approval[t]
    BY DEF Offer!DecideDiscount, PriceInv, SheetRows, ApprovalRows
  <1>3. new.status = verdict /\ new.creator = sheet[s].creator /\ row.status = verdict
    BY <1>1 DEF PriceInv, SheetRows
  <1> HIDE DEF row, new
  <1>4. \A t \in CostSheet : /\ sheet'[t].status \in Offer!CostSheetStatus
                             /\ approval'[t].status \in Offer!ApprovalStatus
    BY <1>2, <1>3 DEF SheetTypes, Offer!CostSheetStatus, Offer!ApprovalStatus
  <1>5. Offer!Sheets' \subseteq Offer!Sheets
    BY <1>1, <1>2 DEF Offer!Sheets
  <1>6. \A t \in Offer!Sheets : t \in CostSheet
    BY DEF Offer!Sheets
  <1> QED BY <1>1, <1>2, <1>3, <1>4, <1>5, <1>6 DEF SheetTypes

LEMMA RecordTypes ==
    ASSUME PriceInv, SheetTypes, QuoteTypes, NEW q \in Quote, NEW s \in CostSheet,
           sheet[s].status = "APPROVED",
           NEW number, NEW version, NEW parent, NEW others, DOMAIN others = Quote,
           \A p \in Quote : others[p].status \in Offer!QuotationStatus,
           Offer!CreateQuotationRecord(q, s, Offer!QuotationRow(s, number, version, parent), others)
    PROVE  SheetTypes' /\ QuoteTypes'
  <1> DEFINE row == Offer!QuotationRow(s, number, version, parent)
             new == [sheet[s] EXCEPT !.status = "CONVERTED"]
  <1>1. s \in Offer!Sheets
    BY DEF Offer!Sheets
  <1>2. new.status = "CONVERTED" /\ new.creator = sheet[s].creator
    BY <1>1 DEF PriceInv, SheetRows
  <1>3. row.status = "DRAFT"
    BY DEF Offer!QuotationRow
  <1>4. quote' = [others EXCEPT ![q] = row] /\ sheet' = [sheet EXCEPT ![s] = new]
        /\ approval' = approval
    BY DEF Offer!CreateQuotationRecord
  <1>5. \A t \in CostSheet : sheet'[t] = IF t = s THEN new ELSE sheet[t]
    BY <1>4 DEF PriceInv, SheetRows
  <1>6. \A p \in Quote : quote'[p] = IF p = q THEN row ELSE others[p]
    BY <1>4
  <1> HIDE DEF row, new
  <1>7. QuoteTypes'
    BY <1>3, <1>6 DEF QuoteTypes, Offer!QuotationStatus
  <1>8. Offer!Sheets' \subseteq Offer!Sheets
    BY <1>1, <1>5 DEF Offer!Sheets
  <1>9. \A t \in Offer!Sheets : t \in CostSheet
    BY DEF Offer!Sheets
  <1>10. SheetTypes'
    BY <1>1, <1>2, <1>4, <1>5, <1>8, <1>9 DEF SheetTypes, Offer!CostSheetStatus
  <1> QED BY <1>7, <1>10

LEMMA QuoteStepTypes ==
    ASSUME PriceInv, SheetTypes, QuoteTypes, Offer!QuoteStep
    PROVE  SheetTypes' /\ QuoteTypes'
  <1>0. DOMAIN quote = Quote
    BY DEF PriceInv, ItemRows
  <1>1. ASSUME NEW q \in Quote, NEW s \in CostSheet, Offer!CreateQuotation(q, s)
        PROVE  SheetTypes' /\ QuoteTypes'
    <2>1. /\ sheet[s].status = "APPROVED"
          /\ Offer!CreateQuotationRecord(q, s, Offer!QuotationRow(s, q, 1, q), quote)
      BY <1>1 DEF Offer!CreateQuotation
    <2>2. \A p \in Quote : quote[p].status \in Offer!QuotationStatus
      BY DEF QuoteTypes
    <2> QED BY <1>0, <2>1, <2>2, RecordTypes
  <1>2. ASSUME NEW q \in Quote, NEW source \in Quote, NEW s \in CostSheet,
               Offer!CreateQuotationVersion(q, source, s)
        PROVE  SheetTypes' /\ QuoteTypes'
    <2> DEFINE others == Offer!Superseded(source)
               version == Offer!NewestVersion(source) + 1
    <2>1. /\ sheet[s].status = "APPROVED"
          /\ Offer!CreateQuotationRecord(
                 q, s, Offer!QuotationRow(s, quote[source].number, version, source), others)
      BY <1>2 DEF Offer!CreateQuotationVersion
    <2>2. /\ DOMAIN others = Quote
          /\ \A p \in Quote : \/ others[p] = quote[p]
                              \/ /\ others[p] = [quote[p] EXCEPT !.status = "SUPERSEDED"]
                                 /\ p \in Offer!Quotes
      BY DEF Offer!Superseded, Offer!Versions
    <2> HIDE DEF others, version
    <2>3. \A p \in Offer!Quotes : "status" \in DOMAIN quote[p]
      BY DEF PriceInv, ItemRows
    <2>4. \A p \in Quote : others[p].status \in Offer!QuotationStatus
      BY <2>2, <2>3 DEF QuoteTypes, Offer!QuotationStatus
    <2> QED BY <2>1, <2>2, <2>4, RecordTypes
  <1>3. ASSUME NEW q \in Quote, NEW target \in Offer!QuotationStatus,
               Offer!ChangeQuotationStatus(q, target)
        PROVE  SheetTypes' /\ QuoteTypes'
    <2> DEFINE row == [quote[q] EXCEPT !.status = target]
    <2>1. /\ quote' = [quote EXCEPT ![q] = row] /\ quote[q].status \in {"DRAFT", "SENT"}
          /\ UNCHANGED <<sheet, approval>>
      BY <1>3 DEF Offer!ChangeQuotationStatus, Offer!SetQuote, Offer!QuoteMoves
    <2>2. q \in Offer!Quotes
      BY <2>1 DEF Offer!Quotes
    <2>3. row.status = target
      BY <2>2 DEF PriceInv, ItemRows
    <2> HIDE DEF row
    <2>4. QuoteTypes'
      BY <1>0, <2>1, <2>3 DEF QuoteTypes
    <2>5. SheetTypes'
      BY <2>1 DEF SheetTypes, Offer!Sheets
    <2> QED BY <2>4, <2>5
  <1> QED BY <1>1, <1>2, <1>3 DEF Offer!QuoteStep

LEMMA OfferTypesKeep ==
    ASSUME PriceInv, OfferTypes, Windows \subseteq Offer!Window, [Offer!Next]_Offer!vars
    PROVE  OfferTypes'
  <1>1. ASSUME UNCHANGED <<list, sheet, approval, quote>> PROVE OfferTypes'
    BY <1>1 DEF OfferTypes, ListTypes, SheetTypes, QuoteTypes, Offer!Sheets
  <1>2. ASSUME UNCHANGED <<sheet, approval, quote>> PROVE SheetTypes' /\ QuoteTypes'
    BY <1>2 DEF OfferTypes, SheetTypes, QuoteTypes, Offer!Sheets
  <1>3. ASSUME Offer!ListStep PROVE OfferTypes'
    <2>1. UNCHANGED <<sheet, approval, quote>>
      BY <1>3 DEF Offer!ListStep, Offer!CreatePriceList, Offer!UpdatePriceList,
                  Offer!ChangePriceListStatus, Offer!DeletePriceList, Offer!ListAges, Offer!SetList
    <2> QED BY <1>2, <1>3, <2>1, ListTypesKeep DEF OfferTypes
  <1>4. ASSUME Offer!SheetStep PROVE OfferTypes'
    <2>1. UNCHANGED <<list, quote>>
      BY <1>4 DEF Offer!SheetStep, Offer!CreateCostSheet, Offer!DecideDiscount
    <2>2. SheetTypes'
      BY <1>4, SheetTypesNew, SheetTypesDecided DEF Offer!SheetStep, OfferTypes
    <2> QED BY <2>1, <2>2 DEF OfferTypes, ListTypes, QuoteTypes
  <1>5. ASSUME Offer!QuoteStep PROVE OfferTypes'
    <2>1. UNCHANGED list
      BY <1>5 DEF Offer!QuoteStep, Offer!CreateQuotation, Offer!CreateQuotationVersion,
                  Offer!CreateQuotationRecord, Offer!ChangeQuotationStatus, Offer!SetQuote
    <2> QED BY <1>5, <2>1, QuoteStepTypes DEF OfferTypes, ListTypes
  <1> QED BY <1>1, <1>3, <1>4, <1>5 DEF Offer!Next, Offer!vars, Offer!Begin

LEMMA OfferTyped == ASSUME PriceInv, OfferInv, OfferTypes PROVE Offer!TypeOK
  <1>1. \A l \in PriceList : list[l].rules \in RuleSets
    BY DEF PriceInv, ListRows
  <1>2. ASSUME NEW s \in Offer!Sheets
        PROVE  /\ sheet[s].list \in PriceList /\ sheet[s].request \in Requests
               /\ (sheet[s].status = "PENDING_APPROVAL") <=> (approval[s].status = "PENDING")
    BY DEF PriceInv, SheetRows, ApprovalRows, Asked, OfferTypes, SheetTypes, Offer!Sheets
  <1>3. \A q \in Offer!Quotes : quote[q].sheet \in Offer!Sheets /\ quote[q].number \in Offer!Quotes
    BY DEF PriceInv, ItemRows, OfferInv, QuoteRows
  <1> QED BY <1>1, <1>2, <1>3 DEF OfferTypes, ListTypes, SheetTypes, QuoteTypes, Offer!TypeOK

-----------------------------------------------------------------------------
(***************************************************************************)
(* Branches, teams and territories, for any of them.                       *)
(***************************************************************************)
(* SQL's NULL is no row.                                                   *)
PlacesApart == None \notin Territory

Grounds == DOMAIN territory \cup {None}
Parent(t) == territory[t].parent

(* Whatever has a territory has what is right above it.                    *)
Upward(S) == \A t \in S \ {None} : Parent(t) \in S

(* However far up one goes, one gets out: there is no set of territories   *)
(* that are all under one another.                                         *)
Trees == \A S \in SUBSET DOMAIN territory : Upward(S) => S = {}
Rooted == \A t \in DOMAIN territory : Parent(t) \in Grounds
PlaceInv ==
    /\ Places!TypeOK
    /\ IsFiniteSet(DOMAIN territory)
    /\ Trees

(* Induction over numbers, for what is right of a set of them.             *)
LEMMA NumbersInduct ==
    ASSUME NEW Right, 0 \in Right, \A n \in Nat : n \in Right => n + 1 \in Right
    PROVE  Nat \subseteq Right
  <1> DEFINE T == {i \in Nat : i \notin Right}
  <1> SUFFICES ASSUME T # {} PROVE FALSE
    OBVIOUS
  <1>1. PICK i \in T : \A j \in T : <<j, i>> \notin OpToRel(<, Nat)
    <2>1. T \subseteq Nat
      OBVIOUS
    <2> HIDE DEF T
    <2> QED BY <2>1, NatLessThanWellFounded, WFMin
  <1>2. i # 0 /\ i - 1 \in Nat /\ (i - 1) + 1 = i
    <2>1. i \in Nat /\ i \notin Right
      BY <1>1
    <2>2. i # 0
      BY <2>1
    <2> QED BY <2>1, <2>2
  <1>3. <<i - 1, i>> \in OpToRel(<, Nat)
    BY <1>1, <1>2 DEF OpToRel
  <1>4. i - 1 \in Right
    BY <1>1, <1>2, <1>3
  <1> QED BY <1>1, <1>2, <1>4

(* The way up from a territory, so far and all of it: what is reached in n *)
(* steps or fewer.                                                         *)
Onto(S) == S \cup {territory[s].parent : s \in S \ {None}}
Climb(w, t, n) == w = [i \in 0..n |-> IF i = 0 THEN {t} ELSE Onto(w[i - 1])]
Walk(w, t) == w = [n \in Nat |-> IF n = 0 THEN {t} ELSE Onto(w[n - 1])]

LEMMA ClimbMore ==
    ASSUME NEW t, NEW n \in Nat, NEW w, Climb(w, t, n)
    PROVE  \E x : Climb(x, t, n + 1)
  <1> DEFINE x == [i \in 0..(n + 1) |-> IF i = n + 1 THEN Onto(w[n]) ELSE w[i]]
  <1>1. \A i \in 0..n : w[i] = IF i = 0 THEN {t} ELSE Onto(w[i - 1])
    <2> HIDE DEF Onto
    <2> QED BY DEF Climb
  <1>2. ASSUME NEW i \in 0..(n + 1) PROVE x[i] = IF i = 0 THEN {t} ELSE Onto(x[i - 1])
    <2>1. CASE i = n + 1
      <3>1. x[i] = Onto(w[n]) /\ i # 0 /\ i - 1 = n /\ n \in 0..(n + 1) /\ n # n + 1
        BY <2>1
      <3>2. x[n] = w[n]
        BY <3>1
      <3> QED BY <3>1, <3>2
    <2>2. CASE i # n + 1 /\ i # 0
      <3>1. i \in 0..n /\ i - 1 \in 0..(n + 1) /\ i - 1 # n + 1
        BY <1>2, <2>2
      <3>2. x[i] = w[i] /\ x[i - 1] = w[i - 1]
        BY <1>2, <2>2, <3>1
      <3> QED BY <1>1, <2>2, <3>1, <3>2
    <2>3. CASE i # n + 1 /\ i = 0
      <3>1. x[i] = w[i] /\ i \in 0..n
        BY <1>2, <2>3
      <3> QED BY <1>1, <2>3, <3>1
    <2> QED BY <2>1, <2>2, <2>3
  <1>3. x = [i \in 0..(n + 1) |-> x[i]]
    OBVIOUS
  <1> HIDE DEF x
  <1>4. x = [i \in 0..(n + 1) |-> IF i = 0 THEN {t} ELSE Onto(x[i - 1])]
    BY <1>2, <1>3
  <1> QED BY <1>4 DEF Climb

LEMMA ClimbExists == ASSUME NEW t PROVE \A n \in Nat : \E w : Climb(w, t, n)
  <1> DEFINE T == {n \in Nat : \E w : Climb(w, t, n)}
  <1>1. 0 \in T
    <2> DEFINE w == [i \in 0..0 |-> {t}]
    <2>1. w = [i \in 0..0 |-> IF i = 0 THEN {t} ELSE Onto(w[i - 1])]
      OBVIOUS
    <2> HIDE DEF w
    <2>2. Climb(w, t, 0)
      BY <2>1 DEF Climb
    <2> QED BY <2>2
  <1>2. ASSUME NEW n \in Nat, n \in T PROVE n + 1 \in T
    BY <1>2, ClimbMore
  <1> HIDE DEF T
  <1>3. Nat \subseteq T
    BY <1>1, <1>2, NumbersInduct
  <1> QED BY <1>3 DEF T

LEMMA ClimbOne ==
    ASSUME NEW t, NEW n \in Nat, NEW m \in Nat, NEW w, NEW x, Climb(w, t, n), Climb(x, t, m)
    PROVE  \A i \in Nat : i <= n /\ i <= m => w[i] = x[i]
  <1> DEFINE T == {i \in Nat : i <= n /\ i <= m => w[i] = x[i]}
  <1>1. \A i \in 0..n : w[i] = IF i = 0 THEN {t} ELSE Onto(w[i - 1])
    <2> HIDE DEF Onto
    <2> QED BY DEF Climb
  <1>2. \A i \in 0..m : x[i] = IF i = 0 THEN {t} ELSE Onto(x[i - 1])
    <2> HIDE DEF Onto
    <2> QED BY DEF Climb
  <1>3. 0 \in T
    BY <1>1, <1>2
  <1>4. ASSUME NEW i \in Nat, i \in T PROVE i + 1 \in T
    <2> SUFFICES ASSUME i + 1 <= n, i + 1 <= m PROVE w[i + 1] = x[i + 1]
      OBVIOUS
    <2>1. w[i] = x[i]
      BY <1>4
    <2>2. i + 1 \in 0..n /\ i + 1 \in 0..m /\ i + 1 # 0 /\ (i + 1) - 1 = i
      OBVIOUS
    <2> QED BY <1>1, <1>2, <2>1, <2>2
  <1> HIDE DEF T
  <1>5. Nat \subseteq T
    BY <1>3, <1>4, NumbersInduct
  <1> QED BY <1>5 DEF T

LEMMA WalkExists == ASSUME NEW t PROVE \E w : Walk(w, t)
  <1> DEFINE c(n) == CHOOSE w : Climb(w, t, n)
             w == [n \in Nat |-> c(n)[n]]
  <1>1. \A n \in Nat : Climb(c(n), t, n)
    BY ClimbExists
  <1> HIDE DEF c
  <1>2. ASSUME NEW n \in Nat PROVE w[n] = IF n = 0 THEN {t} ELSE Onto(w[n - 1])
    <2>1. c(n)[n] = IF n = 0 THEN {t} ELSE Onto(c(n)[n - 1])
      <3>1. n \in 0..n
        OBVIOUS
      <3> HIDE DEF Onto
      <3> QED BY <1>1, <3>1 DEF Climb
    <2>2. n # 0 => c(n)[n - 1] = c(n - 1)[n - 1]
      <3> SUFFICES ASSUME n # 0 PROVE c(n)[n - 1] = c(n - 1)[n - 1]
        OBVIOUS
      <3>1. n - 1 \in Nat /\ n - 1 <= n
        OBVIOUS
      <3> DEFINE m == n - 1
      <3>2. m \in Nat /\ m <= n /\ m <= m /\ Climb(c(n), t, n) /\ Climb(c(m), t, m)
        BY <1>1, <3>1
      <3> HIDE DEF m
      <3>3. c(n)[m] = c(m)[m]
        BY <3>2, ClimbOne
      <3> QED BY <3>3 DEF m
    <2>3. n # 0 => n - 1 \in Nat
      OBVIOUS
    <2> QED BY <2>1, <2>2, <2>3
  <1>3. w = [n \in Nat |-> w[n]]
    OBVIOUS
  <1> HIDE DEF w
  <1>4. w = [n \in Nat |-> IF n = 0 THEN {t} ELSE Onto(w[n - 1])]
    BY <1>2, <1>3
  <1> QED BY <1>4 DEF Walk

LEMMA SameSize == ASSUME NEW S PROVE Places!Cardinality(S) = Cardinality(S)
  BY DEF Places!Cardinality, Cardinality

(* What Above computes is such a way.                                      *)
LEMMA AboveWalks ==
    ASSUME NEW t
    PROVE  \E w : Walk(w, t) /\ Places!Above(t) = w[Cardinality(DOMAIN territory)] \ {None}
  <1> DEFINE v == CHOOSE w : Walk(w, t)
  <1>1. Walk(v, t)
    BY WalkExists
  <1>2. Places!Above(t) = v[Places!Cardinality(DOMAIN territory)] \ {None}
    BY DEF Places!Above, Walk, Onto
  <1> HIDE DEF v
  <1> QED BY <1>1, <1>2, SameSize

LEMMA WalkSteps ==
    ASSUME NEW t, NEW w, Walk(w, t)
    PROVE  w[0] = {t} /\ \A n \in Nat : w[n + 1] = Onto(w[n])
  <1> USE DEF Walk
  <1> HIDE DEF Onto
  <1>1. w[0] = {t}
    OBVIOUS
  <1>2. ASSUME NEW n \in Nat PROVE w[n + 1] = Onto(w[n])
    <2>1. n + 1 \in Nat /\ n + 1 # 0 /\ (n + 1) - 1 = n
      OBVIOUS
    <2> QED BY <2>1
  <1> QED BY <1>1, <1>2

(* It stays where nothing leads out of; and it goes all the way, since it  *)
(* reaches one more with each step until there is no more to reach.        *)
LEMMA AboveWithin ==
    ASSUME NEW C, NEW t \in C, Upward(C), IsFiniteSet(DOMAIN territory)
    PROVE  Places!Above(t) \subseteq C
  <1>1. PICK w : Walk(w, t) /\ Places!Above(t) = w[Cardinality(DOMAIN territory)] \ {None}
    BY AboveWalks
  <1>2. w[0] = {t} /\ \A n \in Nat : w[n + 1] = Onto(w[n])
    BY <1>1, WalkSteps
  <1> DEFINE T == {n \in Nat : w[n] \subseteq C}
  <1>3. 0 \in T
    BY <1>2
  <1>4. ASSUME NEW n \in Nat, n \in T PROVE n + 1 \in T
    BY <1>2, <1>4 DEF Onto, Upward, Parent
  <1> HIDE DEF T
  <1>5. Nat \subseteq T
    BY <1>3, <1>4, NumbersInduct
  <1>6. Cardinality(DOMAIN territory) \in Nat
    BY FS_CardinalityType
  <1> QED BY <1>1, <1>5, <1>6 DEF T

LEMMA AboveReaches ==
    ASSUME PlacesApart, Rooted, DOMAIN territory \subseteq Territory,
           IsFiniteSet(DOMAIN territory), NEW t \in Grounds
    PROVE  \/ DOMAIN territory \subseteq Places!Above(t)
           \/ \E W \in SUBSET Grounds :
                 t \in W /\ Upward(W) /\ Places!Above(t) = W \ {None}
  <1> DEFINE N == Cardinality(DOMAIN territory)
  <1>1. PICK w : Walk(w, t) /\ Places!Above(t) = w[N] \ {None}
    BY AboveWalks
  <1>2. w[0] = {t} /\ \A n \in Nat : w[n + 1] = Onto(w[n])
    BY <1>1, WalkSteps
  <1>3. N \in Nat
    BY FS_CardinalityType
  <1>4. None \notin DOMAIN territory
    BY DEF PlacesApart
  <1>5. IsFiniteSet(Grounds) /\ Cardinality(Grounds) = N + 1
    BY <1>4, FS_AddElement DEF Grounds
  <1> HIDE DEF N
  <1> DEFINE T == {n \in Nat : /\ w[n] \in SUBSET Grounds /\ t \in w[n]
                               /\ Upward(w[n]) \/ Cardinality(w[n]) >= n + 1}
  <1>6. 0 \in T
    <2>1. w[0] \in SUBSET Grounds /\ t \in w[0]
      BY <1>2
    <2>2. Cardinality(w[0]) = 1
      BY <1>2, FS_Singleton
    <2> QED BY <2>1, <2>2
  <1>7. ASSUME NEW n \in Nat, n \in T PROVE n + 1 \in T
    <2>1. w[n + 1] = Onto(w[n]) /\ w[n] \in SUBSET Grounds /\ t \in w[n]
      BY <1>2, <1>7
    <2>2. w[n + 1] \in SUBSET Grounds /\ w[n] \in SUBSET w[n + 1]
      BY <2>1 DEF Onto, Rooted, Grounds, Parent
    <2>3. CASE Upward(w[n])
      <3>1. Onto(w[n]) = w[n]
        BY <2>3 DEF Onto, Upward, Parent
      <3> QED BY <2>1, <2>3, <3>1
    <2>4. CASE ~Upward(w[n])
      <3>1. Cardinality(w[n]) >= n + 1
        BY <1>7, <2>4
      <3>2. w[n + 1] # w[n]
        BY <2>1, <2>4 DEF Onto, Upward, Parent
      <3>3. IsFiniteSet(w[n + 1])
        BY <1>5, <2>2, FS_Subset
      <3>4. IsFiniteSet(w[n]) /\ Cardinality(w[n]) <= Cardinality(w[n + 1])
            /\ Cardinality(w[n]) # Cardinality(w[n + 1])
        BY <2>2, <3>2, <3>3, FS_Subset
      <3>5. Cardinality(w[n]) \in Nat /\ Cardinality(w[n + 1]) \in Nat
        BY <3>3, <3>4, FS_CardinalityType
      <3>6. Cardinality(w[n + 1]) >= n + 2
        BY <3>1, <3>4, <3>5
      <3> QED BY <2>1, <2>2, <3>6
    <2> QED BY <2>3, <2>4
  <1> HIDE DEF T
  <1>8. Nat \subseteq T
    BY <1>6, <1>7, NumbersInduct
  <1>9. /\ w[N] \in SUBSET Grounds /\ t \in w[N]
        /\ Upward(w[N]) \/ Cardinality(w[N]) >= N + 1
    BY <1>3, <1>8 DEF T
  <1>10. CASE Cardinality(w[N]) >= N + 1
    <2>1. IsFiniteSet(w[N]) /\ Cardinality(w[N]) <= N + 1
      BY <1>5, <1>9, FS_Subset
    <2>2. Cardinality(w[N]) = N + 1
      BY <1>3, <1>10, <2>1, FS_CardinalityType
    <2>3. w[N] = Grounds
      BY <1>5, <1>9, <2>2, FS_Subset
    <2> QED BY <1>1, <1>4, <2>3 DEF Grounds
  <1>11. CASE Upward(w[N])
    BY <1>1, <1>9, <1>11
  <1> QED BY <1>9, <1>10, <1>11

(* Where there is no ring, nothing is above itself: what cannot be left    *)
(* without passing a territory would be a ring if it were above itself.    *)
LEMMA TreesRooted ==
    ASSUME PlacesApart, DOMAIN territory \subseteq Territory, Rooted,
           IsFiniteSet(DOMAIN territory), Trees
    PROVE  Places!TerritoriesRooted
  <1> SUFFICES ASSUME NEW t \in DOMAIN territory, t \in Places!Above(Parent(t)) PROVE FALSE
    BY DEF Places!TerritoriesRooted, Parent
  <1> DEFINE Caught == {x \in DOMAIN territory :
                           \A C \in SUBSET Grounds : x \in C /\ Upward(C) => t \in C}
  <1>1. None \notin DOMAIN territory
    BY DEF PlacesApart
  <1>2. ASSUME NEW C \in SUBSET Grounds, Parent(t) \in C, Upward(C) PROVE t \in C
    BY <1>2, AboveWithin
  <1>3. ASSUME NEW x \in DOMAIN territory,
               \A C \in SUBSET Grounds : Parent(x) \in C /\ Upward(C) => t \in C
        PROVE  Parent(x) \in Caught
    <2>1. Upward({None}) /\ {None} \in SUBSET Grounds
      BY DEF Upward, Grounds
    <2>2. Parent(x) # None
      BY <1>1, <1>3, <2>1
    <2>3. Parent(x) \in DOMAIN territory
      BY <2>2 DEF Rooted, Grounds
    <2> QED BY <1>3, <2>3
  <1>4. Parent(t) \in Caught
    BY <1>2, <1>3
  <1>5. ASSUME NEW x \in Caught PROVE Parent(x) \in Caught
    <2>1. ASSUME NEW C \in SUBSET Grounds, Parent(x) \in C, Upward(C) PROVE t \in C
      <3>1. Upward(C \cup {x}) /\ C \cup {x} \in SUBSET Grounds
        BY <2>1 DEF Upward, Grounds
      <3>2. t \in C \cup {x}
        BY <3>1
      <3>3. t = x => t \in C
        BY <1>2, <2>1
      <3> QED BY <3>2, <3>3
    <2> QED BY <1>3, <2>1
  <1>6. Upward(Caught) /\ Caught \in SUBSET DOMAIN territory
    BY <1>5 DEF Upward
  <1> QED BY <1>4, <1>6 DEF Trees

-----------------------------------------------------------------------------
(* A territory that is new has nothing under it; one that goes under       *)
(* another closes no ring, since the walk found nobody on the way up.      *)
LEMMA TerritoryAdded ==
    ASSUME PlacesApart, PlaceInv, NEW t \in Territory, NEW parent, NEW b, NEW m,
           Places!CreateTerritory(t, parent, b, m)
    PROVE  Trees'
  <1>1. /\ t \notin DOMAIN territory /\ parent \in Grounds
        /\ territory' = [i \in DOMAIN territory \cup {t} |->
                           IF i = t THEN [parent |-> parent, branch |-> b, manager |-> m]
                                    ELSE territory[i]]
    BY DEF Places!CreateTerritory, Places!With, Grounds
  <1> SUFFICES ASSUME NEW S \in SUBSET DOMAIN territory', Upward(S)' PROVE S = {}
    BY DEF Trees
  <1>2. None \notin DOMAIN territory /\ t # None
    BY DEF PlacesApart, PlaceInv, Places!TypeOK
  <1> DEFINE R == S \ {t}
  <1>3. R \in SUBSET DOMAIN territory /\ \A x \in R : Parent(x)' = Parent(x)
    BY <1>1 DEF Parent
  <1>4. \A x \in DOMAIN territory : Parent(x) # t
    BY <1>1, <1>2 DEF Parent, PlaceInv, Places!TypeOK
  <1>5. Upward(R)
    BY <1>2, <1>3, <1>4 DEF Upward
  <1>6. R = {}
    BY <1>3, <1>5 DEF PlaceInv, Trees
  <1>7. t \notin S
    <2> SUFFICES ASSUME t \in S PROVE FALSE
      OBVIOUS
    <2>1. Parent(t)' = parent
      BY <1>1 DEF Parent
    <2>2. parent \in S
      BY <1>2, <2>1 DEF Upward
    <2>3. parent # t
      BY <1>1, <1>2 DEF Grounds
    <2> QED BY <1>6, <2>2, <2>3
  <1> QED BY <1>6, <1>7

LEMMA TerritoryMoved ==
    ASSUME PlacesApart, PlaceInv, NEW t \in Territory, NEW parent, NEW b, NEW m,
           Places!UpdateTerritory(t, parent, b, m)
    PROVE  Trees'
  <1>1. /\ t \in DOMAIN territory /\ parent \in Grounds /\ t \notin Places!Above(parent)
        /\ territory' = [territory EXCEPT ![t] = [parent |-> parent, branch |-> b, manager |-> m]]
    BY DEF Places!UpdateTerritory, Grounds
  <1> SUFFICES ASSUME NEW S \in SUBSET DOMAIN territory', Upward(S)', S # {} PROVE FALSE
    BY DEF Trees
  <1>2. None \notin DOMAIN territory /\ DOMAIN territory' = DOMAIN territory
    BY <1>1 DEF PlacesApart, PlaceInv, Places!TypeOK
  <1>3. Rooted /\ DOMAIN territory \subseteq Territory
    BY DEF Rooted, Parent, Grounds, PlaceInv, Places!TypeOK
  <1>4. \A x \in S \ {t} : Parent(x) \in S
    BY <1>1, <1>2 DEF Parent, Upward
  <1>5. t \in S
    <2>1. t \notin S => Upward(S)
      BY <1>4 DEF Upward
    <2> QED BY <1>2, <2>1 DEF PlaceInv, Trees
  <1>6. parent \in S
    BY <1>1, <1>2, <1>5 DEF Upward, Parent
  <1>7. PICK W \in SUBSET Grounds : parent \in W /\ Upward(W) /\ Places!Above(parent) = W \ {None}
    BY <1>1, <1>3, AboveReaches DEF PlaceInv
  <1> DEFINE R == S \cap W
  <1>8. t \notin W
    BY <1>1, <1>2, <1>7
  <1>9. R \in SUBSET DOMAIN territory /\ Upward(R)
    BY <1>2, <1>4, <1>7, <1>8 DEF Upward
  <1> QED BY <1>6, <1>7, <1>9 DEF PlaceInv, Trees

LEMMA TerritoryGone ==
    ASSUME PlacesApart, PlaceInv, NEW t, Places!DeleteTerritory(t)
    PROVE  Trees'
  <1>1. DOMAIN territory' \subseteq DOMAIN territory /\ \A x \in DOMAIN territory' : Parent(x)' = Parent(x)
    BY DEF Places!DeleteTerritory, Places!Without, Parent
  <1> SUFFICES ASSUME NEW S \in SUBSET DOMAIN territory', Upward(S)' PROVE S = {}
    BY DEF Trees
  <1>2. S \in SUBSET DOMAIN territory /\ Upward(S)
    BY <1>1 DEF Upward
  <1> QED BY <1>2 DEF PlaceInv, Trees

-----------------------------------------------------------------------------
(* The rows of each table are right after each request: branches,          *)
(* departments and users, then teams, then territories.                    *)
LEMMA PlaceTypes ==
    ASSUME PlacesApart, Places!TypeOK, Places!PlaceStep
    PROVE  Places!TypeOK' /\ territory' = territory
  <1> USE DEF Places!TypeOK, Places!Branches, Places!Departments
  <1>1. ASSUME NEW b \in Branch, Places!CreateBranch(b)
        PROVE  Places!TypeOK' /\ territory' = territory
    BY <1>1 DEF Places!CreateBranch
  <1>2. ASSUME NEW b \in Branch, Places!DeleteBranch(b)
        PROVE  Places!TypeOK' /\ territory' = territory
    <2>1. /\ branch' = branch \ {b}
          /\ \A d \in DOMAIN department : department[d] # b
          /\ \A u \in DOMAIN place : place[u].branch # b
          /\ \A t \in DOMAIN team : team[t].branch # b
          /\ \A t \in DOMAIN territory : territory[t].branch # b
          /\ UNCHANGED <<department, place, team, territory>>
      BY <1>2 DEF Places!DeleteBranch, Places!InBranch
    <2> QED BY <2>1
  <1>3. ASSUME NEW d \in Department, Places!DeleteDepartment(d)
        PROVE  Places!TypeOK' /\ territory' = territory
    BY <1>3 DEF Places!DeleteDepartment, Places!Without
  <1>4. ASSUME NEW d \in Department, NEW b \in Places!Branches, Places!SaveDepartment(d, b)
        PROVE  Places!TypeOK' /\ territory' = territory
    BY <1>4 DEF Places!SaveDepartment, Places!With
  <1>5. ASSUME NEW u \in Member, Places!DeactivateUser(u)
        PROVE  Places!TypeOK' /\ territory' = territory
    BY <1>5 DEF Places!DeactivateUser
  <1>6. ASSUME NEW u \in Member, NEW active \in BOOLEAN, NEW b \in Places!Branches,
               NEW d \in Places!Departments, Places!PlaceUser(u, active, b, d)
        PROVE  Places!TypeOK' /\ territory' = territory
    BY <1>6 DEF Places!PlaceUser, Places!With
  <1> HIDE DEF Places!TypeOK, Places!Branches, Places!Departments
  <1> QED BY <1>1, <1>2, <1>3, <1>4, <1>5, <1>6 DEF Places!PlaceStep

LEMMA TeamTypes ==
    ASSUME PlacesApart, Places!TypeOK, Places!TeamStep
    PROVE  Places!TypeOK' /\ territory' = territory
  <1> USE DEF Places!TypeOK, Places!Branches, Places!Departments
  <1>1. ASSUME NEW t \in Team, Places!DeleteTeam(t)
        PROVE  Places!TypeOK' /\ territory' = territory
    BY <1>1 DEF Places!DeleteTeam, Places!Without
  <1>2. ASSUME NEW t \in Team, NEW b \in Places!Branches,
               NEW manager \in Places!ActiveUsers \cup {None},
               NEW members \in SUBSET Places!ActiveUsers, Places!SaveTeam(t, b, manager, members)
        PROVE  Places!TypeOK' /\ territory' = territory
    BY <1>2 DEF Places!SaveTeam, Places!With, Places!ActiveUsers
  <1> HIDE DEF Places!TypeOK, Places!Branches, Places!Departments
  <1> QED BY <1>1, <1>2 DEF Places!TeamStep

LEMMA TerritoryTypes ==
    ASSUME PlacesApart, Places!TypeOK, Places!TerritoryStep
    PROVE  Places!TypeOK'
  <1> USE DEF Places!TypeOK, Places!Branches, Places!Departments
  <1>1. ASSUME NEW t \in Territory, Places!DeleteTerritory(t)
        PROVE  Places!TypeOK'
    BY <1>1 DEF Places!DeleteTerritory, Places!Without, PlacesApart
  <1>2. ASSUME NEW t \in Territory, NEW parent \in DOMAIN territory \cup {None},
               NEW b \in Places!Branches, NEW manager \in Places!ActiveUsers \cup {None},
               Places!CreateTerritory(t, parent, b, manager)
        PROVE  Places!TypeOK'
    BY <1>2 DEF Places!CreateTerritory, Places!With, Places!ActiveUsers
  <1>3. ASSUME NEW t \in Territory, NEW parent \in DOMAIN territory \cup {None},
               NEW b \in Places!Branches, NEW manager \in Places!ActiveUsers \cup {None},
               Places!UpdateTerritory(t, parent, b, manager)
        PROVE  Places!TypeOK'
    BY <1>3 DEF Places!UpdateTerritory, Places!ActiveUsers
  <1> HIDE DEF Places!TypeOK, Places!Branches, Places!Departments
  <1> QED BY <1>1, <1>2, <1>3 DEF Places!TerritoryStep

LEMMA PlaceStart == ASSUME Places!Init PROVE PlaceInv
  <1>1. DOMAIN territory = {}
    BY DEF Places!Init, Places!Nothing
  <1>2. Places!TypeOK
    BY DEF Places!Init, Places!Nothing, Places!TypeOK
  <1> QED BY <1>1, <1>2, FS_EmptySet DEF PlaceInv, Trees

LEMMA PlaceInvStep ==
    ASSUME PlacesApart, PlaceInv, [Places!Next]_Places!vars
    PROVE  PlaceInv'
  <1>1. ASSUME Places!TypeOK', territory' = territory PROVE PlaceInv'
    BY <1>1 DEF PlaceInv, Trees, Upward, Parent
  <1>2. CASE Places!PlaceStep
    BY <1>1, <1>2, PlaceTypes DEF PlaceInv
  <1>3. CASE Places!TeamStep
    BY <1>1, <1>3, TeamTypes DEF PlaceInv
  <1>4. CASE Places!TerritoryStep
    <2>1. Places!TypeOK'
      BY <1>4, TerritoryTypes DEF PlaceInv
    <2>2. Trees'
      BY <1>4, TerritoryAdded, TerritoryMoved, TerritoryGone DEF Places!TerritoryStep
    <2>3. PICK t \in Territory : DOMAIN territory' \subseteq DOMAIN territory \cup {t}
      BY <1>4 DEF Places!TerritoryStep, Places!DeleteTerritory, Places!CreateTerritory,
                  Places!UpdateTerritory, Places!With, Places!Without
    <2>4. IsFiniteSet(DOMAIN territory \cup {t})
      BY FS_AddElement DEF PlaceInv
    <2>5. IsFiniteSet(DOMAIN territory')
      BY <2>3, <2>4, FS_Subset
    <2> QED BY <2>1, <2>2, <2>5 DEF PlaceInv
  <1>5. CASE UNCHANGED Places!vars
    <2>1. UNCHANGED <<branch, department, place, team, territory>>
      BY <1>5 DEF Places!vars
    <2>2. Places!TypeOK'
      BY <2>1 DEF PlaceInv, Places!TypeOK, Places!Branches, Places!Departments
    <2> QED BY <1>1, <2>1, <2>2
  <1> QED BY <1>2, <1>3, <1>4, <1>5 DEF Places!Next

LEMMA PlacesRight == ASSUME PlacesApart, PlaceInv PROVE Places!TypeOK /\ Places!TerritoriesRooted
  <1>1. Rooted /\ DOMAIN territory \subseteq Territory
    BY DEF Rooted, Parent, Grounds, PlaceInv, Places!TypeOK
  <1> QED BY <1>1, TreesRooted DEF PlaceInv

(* Every row of the organization refers to rows that are there, and no     *)
(* territory is above itself, however many there are and wherever they are *)
(* moved: _validate_territory_parent finds every ring before it closes,    *)
(* though it follows no more parents than there are territories.           *)
THEOREM PlacesCorrect ==
    ASSUME PlacesApart
    PROVE  Places!Spec => [](Places!TypeOK /\ Places!TerritoriesRooted)
  <1>1. Places!Init => PlaceInv
    BY PlaceStart
  <1>2. PlaceInv /\ [Places!Next]_Places!vars => PlaceInv'
    BY PlaceInvStep
  <1>3. PlaceInv => Places!TypeOK /\ Places!TerritoriesRooted
    BY PlacesRight
  <1> QED BY <1>1, <1>2, <1>3, PTL DEF Places!Spec
=============================================================================
