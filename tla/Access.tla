------------------------------- MODULE Access -------------------------------
(***************************************************************************)
(* services/auth.py, services/rbac.py and the users of                     *)
(* services/organization.py: sessions and passwords, roles and who holds   *)
(* them, accounts and their deactivation.                                  *)
(*                                                                         *)
(* An action is one request, at its commit, and requests follow one        *)
(* another.  Two requests with the same token wait for each other (it is   *)
(* locked first), so nothing is lost for them; what else can happen to     *)
(* requests that overlap is left out.                                      *)
(*                                                                         *)
(* auth_version is compared for equality only and only grows: an access    *)
(* token carries the user's present version if nothing raised it since, so *)
(* a mark on the token stands for the number.  A token is presented by     *)
(* whoever has it, again and again, also after its successor was issued    *)
(* and the answer lost.  Whoever is active may sign in before he asks for  *)
(* something, so his token is not asked for again.                         *)
(***************************************************************************)
EXTENDS Integers, FiniteSets

CONSTANTS
    User,        \* identities for users
    Founder,     \* the user who registered the organization
    Role,        \* identities for roles
    Admin,       \* "Organization Administrator"
    System,      \* the built-in roles, with the permissions they start with
    Portal,      \* of these, the portal roles, with what they are good for at most
    Permission,  \* permissions: "users" and "roles" govern accounts and roles
    Grants,      \* sets of permissions that a role is given
    Password,    \* passwords
    Token,       \* identities for refresh tokens
    Reset,       \* identities for password reset tokens
    None         \* SQL NULL

VARIABLES
    user,     \* users and their user_roles
    role,     \* role_permissions of the roles there are, or None
    token,    \* refresh_tokens
    reset,    \* password_reset_tokens
    access    \* access tokens that were issued: are they of the present auth_version?

sessions == <<token, access>>
vars == <<user, role, token, reset, access>>

NoUser == [exists |-> FALSE, active |-> FALSE, password |-> None, roles |-> {}]
NoToken == [user |-> None, family |-> None, revoked |-> FALSE, expired |-> FALSE]
NoReset == [user |-> None, consumed |-> FALSE, expired |-> FALSE]

Known == {u \in User : user[u].exists}
Active == {u \in Known : user[u].active}
Roles == {r \in Role : role[r] # None}

TypeOK ==
    /\ \A u \in Known : /\ user[u].active \in BOOLEAN /\ user[u].password \in Password
                        /\ user[u].roles \subseteq Roles
    /\ \A r \in Roles : role[r] \subseteq Permission
    /\ DOMAIN System \subseteq Roles /\ role[Admin] = Permission
    /\ \A t \in Token : token[t] # NoToken =>
          token[t].user \in Known /\ token[token[t].family].user = token[t].user
    /\ \A q \in Reset : reset[q] # NoReset => reset[q].user \in Known
    /\ access \subseteq [user: Known, family: Token, current: BOOLEAN]

(* register_organization, for the one organization there is.               *)
Init ==
    /\ user = [u \in User |-> IF u # Founder THEN NoUser
                              ELSE [exists |-> TRUE, active |-> TRUE, roles |-> {Admin},
                                    password |-> CHOOSE p \in Password : TRUE]]
    /\ role = [r \in Role |-> IF r \in DOMAIN System THEN System[r] ELSE None]
    /\ token = [t \in Token |-> NoToken]
    /\ reset = [q \in Reset |-> NoReset]
    /\ access = {}

-----------------------------------------------------------------------------
(* Permissions.                                                            *)

Granted(roles) == UNION {role[r] : r \in roles}

(* What the roles of a user are good for: no more than the portal's, if he *)
(* has no others.                                                          *)
Effective(u) ==
    LET roles == user[u].roles
    IN  IF roles \subseteq DOMAIN Portal THEN Granted(roles) \cap UNION {Portal[r] : r \in roles}
        ELSE Granted(roles)

(* A user who is signed in asks for something that needs a permission.     *)
Asks(a, permission) ==
    /\ a \in Active
    /\ permission \in Effective(a)

MayGrant(a, permissions) == permissions \subseteq Effective(a)

-----------------------------------------------------------------------------
(* Sessions.                                                               *)

Live(t) == token[t] # NoToken /\ ~token[t].revoked /\ ~token[t].expired

(* get_current_user: may this access token be used?                        *)
Accepted(x) ==
    /\ user[x.user].active
    /\ x.current
    /\ \E t \in Token : token[t].user = x.user /\ token[t].family = x.family /\ Live(t)

Issue(t, u, family) ==
    /\ token[t] = NoToken
    /\ access' = access \cup {[user |-> u, family |-> family, current |-> TRUE]}

Login(u, t) ==
    /\ u \in Active
    /\ Issue(t, u, t)
    /\ token' = [token EXCEPT ![t] = [NoToken EXCEPT !.user = u, !.family = t]]
    /\ UNCHANGED <<user, role, reset>>

Revoked(tokens) ==
    [t \in Token |-> IF t \in tokens THEN [token[t] EXCEPT !.revoked = TRUE] ELSE token[t]]

RevokeFamily(t) ==
    /\ token' = Revoked({s \in Token : token[s].family = token[t].family})
    /\ UNCHANGED <<user, role, reset, access>>

(* A token that was replaced, or revoked, is presented again.              *)
RefreshReused(t) ==
    /\ token[t] # NoToken /\ token[t].revoked
    /\ RevokeFamily(t)

RefreshExpired(t) ==
    /\ token[t].expired /\ ~token[t].revoked
    /\ token' = [token EXCEPT ![t].revoked = TRUE]
    /\ UNCHANGED <<user, role, reset, access>>

RefreshDisabled(t) ==
    /\ Live(t) /\ token[t].user \notin Active
    /\ RevokeFamily(t)

(* mutant: the token that is replaced can be used again                    *)
RotateRefreshToken_KeepsOld(t, new) ==
    /\ Live(t) /\ token[t].user \in Active
    /\ Issue(new, token[t].user, token[t].family)
    /\ token' = [token EXCEPT ![new] = token[t]]
    /\ UNCHANGED <<user, role, reset>>

RotateRefreshToken(t, new) ==
    /\ Live(t) /\ token[t].user \in Active
    /\ Issue(new, token[t].user, token[t].family)
    /\ token' = [token EXCEPT ![new] = token[t], ![t].revoked = TRUE]
    /\ UNCHANGED <<user, role, reset>>

Logout(t) ==
    /\ token[t] # NoToken
    /\ RevokeFamily(t)

(* Idle for too long, or after all there is to a session.                  *)
TokenExpires(t) ==
    /\ Live(t)
    /\ token' = [token EXCEPT ![t].expired = TRUE]
    /\ UNCHANGED <<user, role, reset, access>>

-----------------------------------------------------------------------------
(* Passwords.                                                              *)

RevokeUserSessions(u) ==
    token' = Revoked({t \in Token : token[t].user = u})

RaiseVersion(u) ==
    access' = {IF x.user = u THEN [x EXCEPT !.current = FALSE] ELSE x : x \in access}

Consumed(u) ==
    [q \in Reset |-> IF reset[q].user = u THEN [reset[q] EXCEPT !.consumed = TRUE] ELSE reset[q]]

SetPassword(u, password) ==
    /\ password # user[u].password
    /\ user' = [user EXCEPT ![u].password = password]
    /\ RaiseVersion(u) /\ RevokeUserSessions(u)
    /\ reset' = Consumed(u)
    /\ UNCHANGED role

ChangePassword(u, password) ==
    /\ u \in Active
    /\ SetPassword(u, password)

RequestPasswordReset(u, q) ==
    /\ u \in Active
    /\ reset[q] = NoReset
    /\ reset' = [Consumed(u) EXCEPT ![q] = [NoReset EXCEPT !.user = u]]
    /\ UNCHANGED <<user, role, sessions>>

ResetPassword(q, password) ==
    /\ reset[q] # NoReset /\ ~reset[q].consumed /\ ~reset[q].expired
    /\ reset[q].user \in Active
    /\ SetPassword(reset[q].user, password)

ResetExpires(q) ==
    /\ reset[q] # NoReset /\ ~reset[q].consumed /\ ~reset[q].expired
    /\ reset' = [reset EXCEPT ![q].expired = TRUE]
    /\ UNCHANGED <<user, role, sessions>>

-----------------------------------------------------------------------------
(* Accounts.                                                               *)

CreateUser(a, u, password, active) ==
    /\ Asks(a, "users")
    /\ ~user[u].exists
    /\ user' = [user EXCEPT ![u] = [exists |-> TRUE, active |-> active, password |-> password,
                                    roles |-> {}]]
    /\ UNCHANGED <<role, reset, sessions>>

(* mutant: only a deletion ends the sessions, not the switch in the form   *)
UpdateUser_SessionsLeft(a, u, active) ==
    /\ Asks(a, "users")
    /\ u \in Known
    /\ a = u => active
    /\ user' = [user EXCEPT ![u].active = active]
    /\ UNCHANGED <<role, reset, sessions>>

(* Whoever he is, and whatever he is needed for.                           *)
UpdateUser(a, u, active) ==
    /\ Asks(a, "users")
    /\ u \in Known
    /\ a = u => active
    /\ user' = [user EXCEPT ![u].active = active]
    /\ IF user[u].active /\ ~active THEN RaiseVersion(u) /\ RevokeUserSessions(u)
                                    ELSE UNCHANGED sessions
    /\ UNCHANGED <<role, reset>>

DeactivateUser(a, u) ==
    /\ Asks(a, "users")
    /\ u \in Known \ {a}
    /\ user' = [user EXCEPT ![u].active = FALSE]
    /\ RaiseVersion(u) /\ RevokeUserSessions(u)
    /\ UNCHANGED <<role, reset>>

-----------------------------------------------------------------------------
(* Roles.                                                                  *)

CreateRole(a, r, permissions) ==
    /\ Asks(a, "roles")
    /\ role[r] = None
    /\ MayGrant(a, permissions)
    /\ role' = [role EXCEPT ![r] = permissions]
    /\ UNCHANGED <<user, reset, sessions>>

UpdateRole(a, r, permissions) ==
    /\ Asks(a, "roles")
    /\ r \in Roles \ {Admin}
    /\ MayGrant(a, permissions)
    /\ role' = [role EXCEPT ![r] = permissions]
    /\ UNCHANGED <<user, reset, sessions>>

DeleteRole(a, r) ==
    /\ Asks(a, "roles")
    /\ r \in Roles \ DOMAIN System
    /\ \A u \in Known : r \notin user[u].roles
    /\ role' = [role EXCEPT ![r] = None]
    /\ UNCHANGED <<user, reset, sessions>>

(* _protect_last_administrator, which is asked here and here only.         *)
AdministratorsLeft(u, roles) ==
    Admin \in user[u].roles \ roles => \E b \in Active \ {u} : Admin \in user[b].roles

(* mutant: of the new roles, only those the user did not have are checked  *)
ReplaceUserRoles_OnlyAdded(a, u, roles) ==
    /\ Asks(a, "roles")
    /\ u \in Known \ {a}
    /\ roles \subseteq Roles
    /\ MayGrant(a, Granted(roles \ user[u].roles))
    /\ AdministratorsLeft(u, roles)
    /\ user' = [user EXCEPT ![u].roles = roles]
    /\ RaiseVersion(u)
    /\ UNCHANGED <<role, token, reset>>

ReplaceUserRoles(a, u, roles) ==
    /\ Asks(a, "roles")
    /\ u \in Known \ {a}
    /\ roles \subseteq Roles
    /\ MayGrant(a, Granted(roles)) /\ MayGrant(a, Granted(user[u].roles))
    /\ AdministratorsLeft(u, roles)
    /\ user' = [user EXCEPT ![u].roles = roles]
    /\ RaiseVersion(u)
    /\ UNCHANGED <<role, token, reset>>

-----------------------------------------------------------------------------
SessionStep ==
    \/ \E u \in User, t \in Token : Login(u, t)
    \/ \E t, new \in Token : RotateRefreshToken(t, new)
    \/ \E t \in Token : \/ RefreshReused(t) \/ RefreshExpired(t) \/ RefreshDisabled(t)
                        \/ Logout(t) \/ TokenExpires(t)

PasswordStep ==
    \/ \E u \in User, password \in Password : ChangePassword(u, password)
    \/ \E q \in Reset : ResetExpires(q) \/ \E password \in Password : ResetPassword(q, password)
    \/ \E u \in User, q \in Reset : RequestPasswordReset(u, q)

AccountStep(a) ==
    \E u \in User :
        \/ \E active \in BOOLEAN : \/ UpdateUser(a, u, active)
                                   \/ \E password \in Password : CreateUser(a, u, password, active)
        \/ DeactivateUser(a, u)

RoleStep(a) ==
    \/ \E r \in Role : \/ DeleteRole(a, r)
                       \/ \E p \in Grants : CreateRole(a, r, p) \/ UpdateRole(a, r, p)
    \/ \E u \in User, roles \in SUBSET Role : ReplaceUserRoles(a, u, roles)

Next ==
    \/ SessionStep \/ PasswordStep
    \/ \E a \in User : AccountStep(a) \/ RoleStep(a)

Spec == Init /\ [][Next]_vars

-----------------------------------------------------------------------------
(* Properties.                                                             *)

(* "rotated under a database lock": of the tokens of a session at most one *)
(* can be used, none if the user may not sign in, and of the links to set  *)
(* a new password that a user was sent at most one works.                  *)
OneToken ==
    /\ \A t, s \in Token : Live(t) /\ Live(s) /\ token[t].family = token[s].family => t = s
    /\ \A t \in Token : Live(t) => token[t].user \in Active
    /\ \A p, q \in Reset :
          /\ {reset[p], reset[q]} \cap {NoReset} = {} /\ reset[p].user = reset[q].user
          /\ ~reset[p].consumed /\ ~reset[q].consumed
          => p = q

(* A new password, a deactivation or other roles end what was signed in    *)
(* before; and what was ended, by anything at all, is ended for good, even *)
(* if the account is opened again.                                         *)
EndedStep ==
    \A x \in access \cap access' :
        Accepted(x)' => /\ Accepted(x)
                        /\ user'[x.user].password = user[x.user].password
                        /\ user'[x.user].roles = user[x.user].roles

EndedForGood == [][EndedStep]_vars

(* "A delegated administrator cannot grant a permission they do not        *)
(* personally hold": nobody gains one by a request of somebody without it, *)
(* in whichever way roles, portal roles and their contents are combined.   *)
GrantStep ==
    \A u, a \in User :
        LET gained == Effective(u)' \ Effective(u)
        IN  ~(gained \subseteq Effective(a)) => ~(RoleStep(a) \/ AccountStep(a))

GrantsHeld == [][GrantStep]_vars

(* "At least one active Organization Administrator is required".           *)
LastAdministrator == \E u \in Active : Admin \in user[u].roles
=============================================================================
