----------------------------- MODULE Organization -----------------------------
(***************************************************************************)
(* services/organization.py: branches, their departments, where users      *)
(* belong, teams, and territories, which form a hierarchy.                 *)
(*                                                                         *)
(* An action is one request, at its commit, and requests follow one        *)
(* another.  The foreign keys (RESTRICT) refuse to delete what something   *)
(* refers to.  The permissions to assign, codes and names, which are       *)
(* unique, and whether a unit of the organization is active, which nothing *)
(* here asks, are left out; what else there is to a user is in Access.     *)
(***************************************************************************)
EXTENDS Naturals, FiniteSets

CONSTANTS Branch, Department, User, Team, Territory,  \* identities for rows
          None                                        \* SQL NULL

VARIABLES
    branch,      \* the branches there are
    department,  \* the branch of each department there is
    place,       \* whether a user is active, his branch and department
    team,        \* branch, manager and team_members of each team there is
    territory    \* parent, branch and manager of each territory there is

vars == <<branch, department, place, team, territory>>

(* Rows are functions on the identities that are taken.                    *)
With(rows, id, row) == [i \in DOMAIN rows \cup {id} |-> IF i = id THEN row ELSE rows[i]]
Without(rows, id) == [i \in DOMAIN rows \ {id} |-> rows[i]]

Branches == branch \cup {None}
Departments == DOMAIN department \cup {None}
ActiveUsers == {u \in DOMAIN place : place[u].active}

TypeOK ==
    /\ branch \subseteq Branch
    /\ DOMAIN department \subseteq Department
    /\ \A d \in DOMAIN department : department[d] \in Branches
    /\ DOMAIN place \subseteq User
    /\ \A u \in DOMAIN place :
          place[u] \in [active: BOOLEAN, branch: Branches, department: Departments]
    /\ DOMAIN team \subseteq Team
    /\ \A t \in DOMAIN team :
          team[t] \in [branch: Branches, manager: DOMAIN place \cup {None},
                       members: SUBSET DOMAIN place]
    /\ DOMAIN territory \subseteq Territory
    /\ \A t \in DOMAIN territory :
          territory[t] \in [parent: DOMAIN territory \cup {None}, branch: Branches,
                            manager: DOMAIN place \cup {None}]

Nothing == [i \in {} |-> None]

Init ==
    /\ branch = {}
    /\ department = Nothing
    /\ place = Nothing
    /\ team = Nothing
    /\ territory = Nothing

-----------------------------------------------------------------------------
(* Branches, departments and users.                                        *)

CreateBranch(b) ==
    /\ b \notin branch
    /\ branch' = branch \cup {b}
    /\ UNCHANGED <<department, place, team, territory>>

InBranch(rows, b) == \E i \in DOMAIN rows : rows[i].branch = b

DeleteBranch(b) ==
    /\ b \in branch
    /\ \A d \in DOMAIN department : department[d] # b
    /\ ~InBranch(place, b) /\ ~InBranch(team, b) /\ ~InBranch(territory, b)
    /\ branch' = branch \ {b}
    /\ UNCHANGED <<department, place, team, territory>>

(* create_department; update_department, which asks for nobody's place.    *)
SaveDepartment(d, b) ==
    /\ b \in Branches
    /\ department' = With(department, d, b)
    /\ UNCHANGED <<branch, place, team, territory>>

DeleteDepartment(d) ==
    /\ d \in DOMAIN department
    /\ \A u \in DOMAIN place : place[u].department # d
    /\ department' = Without(department, d)
    /\ UNCHANGED <<branch, place, team, territory>>

(* create_user and update_user.                                            *)
PlaceUser(u, active, b, d) ==
    /\ b \in Branches /\ d \in Departments
    /\ d # None => department[d] \in {None, b}
    /\ place' = With(place, u, [active |-> active, branch |-> b, department |-> d])
    /\ UNCHANGED <<branch, department, team, territory>>

DeactivateUser(u) ==
    /\ u \in DOMAIN place
    /\ place' = [place EXCEPT ![u].active = FALSE]
    /\ UNCHANGED <<branch, department, team, territory>>

-----------------------------------------------------------------------------
(* Teams and territories.                                                  *)

(* create_team and update_team: all of its members are given anew.         *)
SaveTeam(t, b, manager, members) ==
    /\ b \in Branches
    /\ members \cup {manager} \subseteq ActiveUsers \cup {None}
    /\ team' = With(team, t, [branch |-> b, manager |-> manager, members |-> members])
    /\ UNCHANGED <<branch, department, place, territory>>

DeleteTeam(t) ==
    /\ t \in DOMAIN team
    /\ team' = Without(team, t)
    /\ UNCHANGED <<branch, department, place, territory>>

(* A territory and what is above it, as _validate_territory_parent walks.  *)
Above(t) ==
    LET walk[n \in Nat] ==
            IF n = 0 THEN {t}
            ELSE walk[n - 1] \cup {territory[s].parent : s \in walk[n - 1] \ {None}}
    IN  walk[Cardinality(DOMAIN territory)] \ {None}

CreateTerritory(t, parent, b, manager) ==
    /\ t \notin DOMAIN territory
    /\ parent \in DOMAIN territory \cup {None}
    /\ b \in Branches /\ manager \in ActiveUsers \cup {None}
    /\ territory' = With(territory, t, [parent |-> parent, branch |-> b, manager |-> manager])
    /\ UNCHANGED <<branch, department, place, team>>

(* mutant: only a territory and the one right above it are compared        *)
UpdateTerritory_DirectOnly(t, parent, b, manager) ==
    /\ t \in DOMAIN territory
    /\ parent \in (DOMAIN territory \cup {None}) \ {t}
    /\ parent # None => territory[parent].parent # t
    /\ b \in Branches /\ manager \in ActiveUsers \cup {None}
    /\ territory' = [territory EXCEPT ![t] = [parent |-> parent, branch |-> b, manager |-> manager]]
    /\ UNCHANGED <<branch, department, place, team>>

UpdateTerritory(t, parent, b, manager) ==
    /\ t \in DOMAIN territory
    /\ parent \in DOMAIN territory \cup {None}
    /\ t \notin Above(parent)
    /\ b \in Branches /\ manager \in ActiveUsers \cup {None}
    /\ territory' = [territory EXCEPT ![t] = [parent |-> parent, branch |-> b, manager |-> manager]]
    /\ UNCHANGED <<branch, department, place, team>>

DeleteTerritory(t) ==
    /\ t \in DOMAIN territory
    /\ \A s \in DOMAIN territory : territory[s].parent # t
    /\ territory' = Without(territory, t)
    /\ UNCHANGED <<branch, department, place, team>>

-----------------------------------------------------------------------------
PlaceStep ==
    \/ \E b \in Branch : CreateBranch(b) \/ DeleteBranch(b)
    \/ \E d \in Department : \/ DeleteDepartment(d)
                             \/ \E b \in Branches : SaveDepartment(d, b)
    \/ \E u \in User : \/ DeactivateUser(u)
                       \/ \E active \in BOOLEAN, b \in Branches, d \in Departments :
                             PlaceUser(u, active, b, d)

TeamStep ==
    \E t \in Team : \/ DeleteTeam(t)
                    \/ \E b \in Branches, manager \in ActiveUsers \cup {None},
                          members \in SUBSET ActiveUsers : SaveTeam(t, b, manager, members)

TerritoryStep ==
    \E t \in Territory :
        \/ DeleteTerritory(t)
        \/ \E parent \in DOMAIN territory \cup {None}, b \in Branches,
              manager \in ActiveUsers \cup {None} :
              \/ CreateTerritory(t, parent, b, manager)
              \/ UpdateTerritory(t, parent, b, manager)

Next == PlaceStep \/ TeamStep \/ TerritoryStep

Spec == Init /\ [][Next]_vars

-----------------------------------------------------------------------------
(* Properties.                                                             *)

(* "A territory cannot be its own ancestor": as long as requests follow    *)
(* one another, the territories form trees, however they are moved, and    *)
(* deleted under one another.                                              *)
TerritoriesRooted ==
    \A t \in DOMAIN territory : t \notin Above(territory[t].parent)
=============================================================================
