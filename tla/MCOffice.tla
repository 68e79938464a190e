------------------------------- MODULE MCOffice -------------------------------
(***************************************************************************)
(* What an office does before anything is sold: leads, prices and          *)
(* quotations, customers' papers, and who may sign in, do what, and        *)
(* belongs where.  The components share no rows.  Each behaviour is at one *)
(* desk, which has an instance of its component with bounds of its own;    *)
(* the others rest.                                                        *)
(***************************************************************************)
EXTENDS Integers, Sequences, TLC

CONSTANTS
    PriceList, CostSheet, Quote, User, u1, u2, l1, l2, Activity, Visit, NoOne,
    f, b1, b2, Territory

(* NULL is nobody, no token, no lead and no date.                          *)
ASSUME OfficeAssumption ==
    NoOne \notin {f, u1, u2, l1, l2, b1} \cup User \cup CostSheet \cup Territory \cup Nat

Rule(code, calculation, value, taxable, optional, facing) ==
    [code |-> code, calculation |-> calculation, value |-> value, taxable |-> taxable,
     optional |-> optional, facing |-> facing]

(* Prices that exercise every kind of line, with a tax that rounds up.     *)
FullRules ==
    [rate |-> {20}, overrides |-> [n \in {"A1", "B2"} |->
                        IF n = "B2" THEN {[base |-> {}, adjustment |-> -10]} ELSE {}],
     floor_rise |-> {[start |-> 3, calculation |-> "fixed", value |-> 7, taxable |-> TRUE]},
     premiums |-> <<Rule("EAST", "percentage", 3, TRUE, FALSE, "east"),
                    Rule("VIEW", "fixed", 11, TRUE, TRUE, "any")>>,
     parking |-> [code \in {"COVERED"} |-> Rule("COVERED", "fixed", 15, TRUE, FALSE, "any")],
     amenities |-> [code \in {"CLUB"} |-> Rule("CLUB", "percentage", 1, FALSE, FALSE, "any")],
     charges |-> <<Rule("LEGAL", "per_sqft", 1, FALSE, FALSE, "any"),
                   Rule("EXTRA", "fixed", 50, TRUE, TRUE, "any")>>,
     taxes |-> <<[rate |-> 5, applies_to |-> {}], [rate |-> 1, applies_to |-> {"PARKING"}]>>,
     limit |-> 20000, maximum |-> {200000},
     levels |-> {[minimum |-> 20001, maximum |-> {100000}, users |-> {u1}, roles |-> {}],
                  [minimum |-> 100001, maximum |-> {}, users |-> {}, roles |-> {"director"}]},
     booking |-> {[calculation |-> "percentage", value |-> 10]}]

PlainRules ==
    [FullRules EXCEPT !.premiums = <<>>, !.overrides = [n \in {"A1", "B2"} |-> {}],
                      !.floor_rise = {[start |-> 5, calculation |-> "per_sqft", value |-> 1,
                                       taxable |-> FALSE]},
                      !.taxes = <<[rate |-> 5, applies_to |-> {}]>>,
                      !.limit = 50000, !.maximum = {},
                      !.booking = {[calculation |-> "fixed", value |-> 30]}]

UnitA == [number |-> "A1", base |-> {200}, area |-> {12}, adjustment |-> 0, floor |-> 5,
          facing |-> "east"]
UnitB == [number |-> "B2", base |-> {}, area |-> {12}, adjustment |-> 0, floor |-> 1,
          facing |-> "north"]

Request(unit, customer, parking, amenities, discount, final) ==
    [unit |-> unit, customer |-> customer, parking |-> parking, amenities |-> amenities,
     premiums |-> {"VIEW"}, discount |-> discount, final |-> final, booking |-> {}]
MCRequests ==
    {Request(UnitA, "c1", <<[code |-> "COVERED", quantity |-> 2]>>, <<"CLUB">>, 0, {}),
     Request(UnitA, "c1", <<>>, <<>>, 6, {}),
     Request(UnitB, "c1", <<>>, <<"CLUB", "CLUB">>, 0, {200})}

(* A manager of roles who is no administrator, and a portal role; what     *)
(* roles are given goes beyond what the portal is good for.                *)
Rights == {"users", "roles", "leases"}
Portals == [r \in {"Tenant"} |-> {"leases"}]
Administrators == [r \in {"Admin"} |-> Rights]
BuiltIn == [r \in {"Admin", "Tenant"} |-> IF r = "Admin" THEN Rights ELSE {"leases"}]

(* And NULL is no set of permissions.                                      *)
ASSUME RightsAssumption == \A rights \in SUBSET Rights : NoOne # rights

VARIABLES desk, list, sheet, approval, quote, lists, lead, assignees, reason, customer, activity,
          visit, views, user, role, token, reset, access, branch, department, place, team, territory,
          day, paper, readings, lapsed

leadVars == <<lead, assignees, reason, customer, activity, visit, views>>
quoteVars == <<list, sheet, approval, quote, lists>>
accessVars == <<user, role, token, reset, access>>
placeVars == <<branch, department, place, team, territory>>
paperVars == <<day, paper, readings, lapsed>>

Quoting == INSTANCE Quotations WITH
    Managers <- {u2}, RoleOf <- [u \in User |-> IF u = u1 THEN "sales" ELSE "director"],
    RuleSets <- {FullRules, PlainRules}, Windows <- {"current"}, Requests <- MCRequests,
    old <- lists

(* One lead with follow-ups and a visit; two leads that may be duplicates. *)
Following == INSTANCE Leads WITH
    Lead <- {l1}, Contact <- {1}, Owner <- {u1, u2}, Reason <- {1}, Dues <- {1, 2}, old <- views
Entering == INSTANCE Leads WITH
    Lead <- {l1, l2}, Contact <- {1}, Owner <- {u1}, Reason <- {1}, Activity <- {}, Dues <- {1},
    Visit <- {}, old <- views

(* Two people who sign in; who forget their passwords; three who are given *)
(* roles.                                                                  *)
Signing == INSTANCE Access WITH
    User <- {f, u1}, Founder <- f, Role <- {"Admin"}, Admin <- "Admin", System <- Administrators,
    Portal <- [r \in {} |-> {}], Permission <- Rights, Grants <- {Rights}, Password <- {1, 2},
    Token <- CostSheet, Reset <- {}, None <- NoOne
Resetting == INSTANCE Access WITH
    User <- {f, u1}, Founder <- f, Role <- {"Admin"}, Admin <- "Admin", System <- Administrators,
    Portal <- [r \in {} |-> {}], Permission <- Rights, Grants <- {Rights}, Password <- {1, 2},
    Token <- {u1}, Reset <- Quote, None <- NoOne
Governing == INSTANCE Access WITH
    User <- User \cup {f}, Founder <- f, Role <- {"Admin", "Tenant", "Staff"}, Admin <- "Admin",
    System <- BuiltIn, Portal <- Portals, Permission <- Rights,
    Grants <- {{"roles"}, {"roles", "leases"}, {"users", "leases"}}, Password <- {1},
    Token <- {}, Reset <- {}, None <- NoOne

(* All kinds of places; and territories that are moved about.              *)
Arranging == INSTANCE Organization WITH
    Branch <- {b1, b2}, Department <- {b1}, User <- {u1}, Team <- {b1}, Territory <- {b1},
    None <- NoOne
Mapping == INSTANCE Organization WITH
    Branch <- {b1}, Department <- {}, User <- {}, Team <- {}, None <- NoOne

(* Two papers, or one in two versions, over three days.                    *)
Filing == INSTANCE Documents WITH
    Document <- Quote, Reviewer <- {u1, u2}, Manager <- {u2}, LastDay <- 2, None <- NoOne,
    today <- day, document <- paper, old <- readings

(* Prices are whole numbers of cents.                                      *)
ASSUME CentsAssumption ==
    \A rules \in {FullRules, PlainRules}, request \in MCRequests :
        Quoting!WholeCents(rules, request.unit, request)

Init ==
    /\ desk \in {"quoting", "following", "entering", "signing", "resetting", "governing",
                "arranging", "mapping", "filing"}
    /\ Quoting!Init
    /\ IF desk = "entering" THEN Entering!Init ELSE Following!Init
    /\ CASE desk = "governing" -> Governing!Init
         [] desk = "resetting" -> Resetting!Init
         [] OTHER -> Signing!Init
    /\ Mapping!Init
    /\ Filing!Init

SalesNext ==
    /\ UNCHANGED <<accessVars, placeVars>>
    /\ \/ desk = "quoting" /\ Quoting!Next /\ UNCHANGED leadVars
       \/ desk = "following" /\ Following!Step /\ UNCHANGED quoteVars
       \/ desk = "entering" /\ Entering!Next /\ UNCHANGED quoteVars

StaffNext ==
    /\ UNCHANGED <<quoteVars, leadVars>>
    /\ \/ desk = "signing" /\ Signing!Next /\ UNCHANGED placeVars
       \/ desk = "resetting" /\ Resetting!Next /\ UNCHANGED placeVars
       \/ desk = "governing" /\ Governing!Next /\ UNCHANGED placeVars
       \/ desk = "arranging" /\ Arranging!Next /\ UNCHANGED accessVars
       \/ desk = "mapping" /\ Mapping!Next /\ UNCHANGED accessVars

PaperNext ==
    /\ desk = "filing" /\ Filing!Next
    /\ UNCHANGED <<quoteVars, leadVars, accessVars, placeVars>>

Next ==
    /\ UNCHANGED desk
    /\ \/ (SalesNext \/ StaffNext) /\ UNCHANGED paperVars
       \/ PaperNext

Spec == Init /\ [][Next]_<<desk, leadVars, quoteVars, accessVars, placeVars, paperVars>>

Symmetry == Permutations(CostSheet) \cup Permutations(Quote) \cup Permutations(Activity)

-----------------------------------------------------------------------------
(* The components' properties, each at its desk.                           *)

(* The rows of each component are of their types, and refer to rows that   *)
(* are there.                                                              *)
TypeOK ==
    CASE desk = "quoting" -> Quoting!TypeOK
      [] desk = "following" -> Following!TypeOK
      [] desk = "entering" -> Entering!TypeOK
      [] desk = "signing" -> Signing!TypeOK
      [] desk = "resetting" -> Resetting!TypeOK
      [] desk = "governing" -> Governing!TypeOK
      [] desk = "arranging" -> Arranging!TypeOK
      [] desk = "mapping" -> Mapping!TypeOK
      [] desk = "filing" -> Filing!TypeOK

(* A cost sheet's price is its price list's, frozen, and adds up, and so   *)
(* does the quotation made of it.                                          *)
PricesStand == Quoting!PricesStand

(* A discount above the seller's limit is quoted only after somebody else  *)
(* in charge of it approved.                                               *)
DiscountsVouched == Quoting!DiscountsVouched

(* Only the newest version of a quotation is open.  Of a customer's paper  *)
(* only the newest is current, on what it says of itself, and no booking   *)
(* goes on with one that ran out.                                          *)
NewestCounts ==
    /\ desk = "quoting" => Quoting!OneOpen
    /\ desk = "filing" => Filing!NewestCounts

(* A lead's active assignment is to its owner.                             *)
OneAssignee == IF desk = "entering" THEN Entering!OneAssignee ELSE Following!OneAssignee

(* Requests that follow one another leave a lead's next follow-up at the   *)
(* earliest one pending, up to its first visit.                            *)
NextFollowUp == desk = "following" => Following!NextFollowUp

(* A converted lead stays as it is.                                        *)
ConvertedRest == [][IF desk = "entering" THEN Entering!ConvertedStep ELSE Following!ConvertedStep]_leadVars

(* Of a session's tokens one can be used, and none of somebody who may not *)
(* sign in; of the links to set a new password a user was sent one works.  *)
OneToken ==
    /\ desk = "signing" => Signing!OneToken
    /\ desk = "resetting" => Resetting!OneToken

(* A new password, a deactivation or other roles end what was signed in    *)
(* before, for good.                                                       *)
EndedForGood ==
    [][/\ desk = "signing" => Signing!EndedStep
       /\ desk = "resetting" => Resetting!EndedStep]_accessVars

(* Nobody gains a permission by a request of somebody without it.          *)
GrantsHeld == [][desk = "governing" => Governing!GrantStep]_accessVars

(* The territories form trees, however they are moved.                     *)
TerritoriesRooted == desk = "mapping" => Mapping!TerritoriesRooted
=============================================================================
