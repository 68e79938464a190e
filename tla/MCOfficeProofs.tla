--------------------------- MODULE MCOfficeProofs ---------------------------
(***************************************************************************)
(* The properties of the run Office.  What is proved of a component is     *)
(* brought to each desk by an instance of its proofs whose parameters are  *)
(* the desk's: `First' is at the desks quoting, following, signing,        *)
(* mapping and filing, `Second' at entering, resetting and arranging,      *)
(* `Third' at governing.                                                   *)
(***************************************************************************)
EXTENDS MCOffice, TLAPS

First == INSTANCE OfficeProofs WITH
    User <- {f, u1}, Founder <- f, Role <- {"Admin"}, Admin <- "Admin", System <- Administrators,
    Portal <- [r \in {} |-> {}], Permission <- Rights, Grants <- {Rights}, Password <- {1, 2},
    Token <- CostSheet, Reset <- {}, None <- NoOne,
    Lead <- {l1}, Contact <- {1}, Owner <- {u1, u2}, Reason <- {1}, Dues <- {1, 2},
    Document <- Quote, Reviewer <- {u1, u2}, Manager <- {u2}, LastDay <- 2,
    Seller <- User, Managers <- {u2},
    RoleOf <- [u \in User |-> IF u = u1 THEN "sales" ELSE "director"],
    RuleSets <- {FullRules, PlainRules}, Windows <- {"current"}, Requests <- MCRequests,
    Branch <- {b1}, Department <- {}, Member <- {}, Team <- {}

Second == INSTANCE OfficeProofs WITH
    User <- {f, u1}, Founder <- f, Role <- {"Admin"}, Admin <- "Admin", System <- Administrators,
    Portal <- [r \in {} |-> {}], Permission <- Rights, Grants <- {Rights}, Password <- {1, 2},
    Token <- {u1}, Reset <- Quote, None <- NoOne,
    Lead <- {l1, l2}, Contact <- {1}, Owner <- {u1}, Reason <- {1}, Activity <- {}, Dues <- {1},
    Visit <- {},
    Document <- {}, Reviewer <- {}, Manager <- {}, LastDay <- 0,
    Seller <- {}, Managers <- {}, RoleOf <- <<>>, RuleSets <- {}, Windows <- {}, Requests <- {},
    Branch <- {b1, b2}, Department <- {b1}, Member <- {u1}, Team <- {b1}, Territory <- {b1}

Third == INSTANCE OfficeProofs WITH
    User <- User \cup {f}, Founder <- f, Role <- {"Admin", "Tenant", "Staff"}, Admin <- "Admin",
    System <- BuiltIn, Portal <- Portals, Permission <- Rights,
    Grants <- {{"roles"}, {"roles", "leases"}, {"users", "leases"}}, Password <- {1},
    Token <- {}, Reset <- {}, None <- NoOne,
    Lead <- {}, Contact <- {}, Owner <- {}, Reason <- {}, Activity <- {}, Dues <- {},
    Visit <- {},
    Document <- {}, Reviewer <- {}, Manager <- {}, LastDay <- 0,
    Seller <- {}, Managers <- {}, RoleOf <- <<>>, RuleSets <- {}, Windows <- {}, Requests <- {},
    Branch <- {}, Department <- {}, Member <- {}, Team <- {}, Territory <- {}

-----------------------------------------------------------------------------
(* Sessions, links, roles and accounts.                                    *)
LEMMA SigningStarts == Signing!Init => First!Init
  BY DEF Signing!NoUser, First!NoUser, Signing!NoToken, First!NoToken, Signing!NoReset,
         First!NoReset, Signing!Init, First!Init

LEMMA SigningSteps == Signing!Next => First!Next
  BY DEF Signing!sessions, First!sessions, Signing!NoToken, First!NoToken, Signing!NoReset,
         First!NoReset, Signing!Known, First!Known, Signing!Active, First!Active,
         Signing!Roles, First!Roles, Signing!Granted, First!Granted, Signing!Effective,
         First!Effective, Signing!Asks, First!Asks, Signing!MayGrant, First!MayGrant,
         Signing!Live, First!Live, Signing!Issue, First!Issue, Signing!Login, First!Login,
         Signing!Revoked, First!Revoked, Signing!RevokeFamily, First!RevokeFamily,
         Signing!RefreshReused, First!RefreshReused, Signing!RefreshExpired,
         First!RefreshExpired, Signing!RefreshDisabled, First!RefreshDisabled,
         Signing!RotateRefreshToken, First!RotateRefreshToken, Signing!Logout, First!Logout,
         Signing!TokenExpires, First!TokenExpires, Signing!RevokeUserSessions,
         First!RevokeUserSessions, Signing!RaiseVersion, First!RaiseVersion,
         Signing!Consumed, First!Consumed, Signing!SetPassword, First!SetPassword,
         Signing!ChangePassword, First!ChangePassword, Signing!RequestPasswordReset,
         First!RequestPasswordReset, Signing!ResetPassword, First!ResetPassword,
         Signing!ResetExpires, First!ResetExpires, Signing!CreateUser, First!CreateUser,
         Signing!UpdateUser, First!UpdateUser, Signing!DeactivateUser, First!DeactivateUser,
         Signing!CreateRole, First!CreateRole, Signing!UpdateRole, First!UpdateRole,
         Signing!DeleteRole, First!DeleteRole, Signing!AdministratorsLeft,
         First!AdministratorsLeft, Signing!ReplaceUserRoles, First!ReplaceUserRoles,
         Signing!SessionStep, First!SessionStep, Signing!PasswordStep, First!PasswordStep,
         Signing!AccountStep, First!AccountStep, Signing!RoleStep, First!RoleStep,
         Signing!Next, First!Next

LEMMA ResettingStarts == Resetting!Init => Second!Init
  BY DEF Resetting!NoUser, Second!NoUser, Resetting!NoToken, Second!NoToken,
         Resetting!NoReset, Second!NoReset, Resetting!Init, Second!Init

LEMMA ResettingSteps == Resetting!Next => Second!Next
  BY DEF Resetting!sessions, Second!sessions, Resetting!NoToken, Second!NoToken,
         Resetting!NoReset, Second!NoReset, Resetting!Known, Second!Known, Resetting!Active,
         Second!Active, Resetting!Roles, Second!Roles, Resetting!Granted, Second!Granted,
         Resetting!Effective, Second!Effective, Resetting!Asks, Second!Asks,
         Resetting!MayGrant, Second!MayGrant, Resetting!Live, Second!Live, Resetting!Issue,
         Second!Issue, Resetting!Login, Second!Login, Resetting!Revoked, Second!Revoked,
         Resetting!RevokeFamily, Second!RevokeFamily, Resetting!RefreshReused,
         Second!RefreshReused, Resetting!RefreshExpired, Second!RefreshExpired,
         Resetting!RefreshDisabled, Second!RefreshDisabled, Resetting!RotateRefreshToken,
         Second!RotateRefreshToken, Resetting!Logout, Second!Logout, Resetting!TokenExpires,
         Second!TokenExpires, Resetting!RevokeUserSessions, Second!RevokeUserSessions,
         Resetting!RaiseVersion, Second!RaiseVersion, Resetting!Consumed, Second!Consumed,
         Resetting!SetPassword, Second!SetPassword, Resetting!ChangePassword,
         Second!ChangePassword, Resetting!RequestPasswordReset, Second!RequestPasswordReset,
         Resetting!ResetPassword, Second!ResetPassword, Resetting!ResetExpires,
         Second!ResetExpires, Resetting!CreateUser, Second!CreateUser, Resetting!UpdateUser,
         Second!UpdateUser, Resetting!DeactivateUser, Second!DeactivateUser,
         Resetting!CreateRole, Second!CreateRole, Resetting!UpdateRole, Second!UpdateRole,
         Resetting!DeleteRole, Second!DeleteRole, Resetting!AdministratorsLeft,
         Second!AdministratorsLeft, Resetting!ReplaceUserRoles, Second!ReplaceUserRoles,
         Resetting!SessionStep, Second!SessionStep, Resetting!PasswordStep,
         Second!PasswordStep, Resetting!AccountStep, Second!AccountStep, Resetting!RoleStep,
         Second!RoleStep, Resetting!Next, Second!Next

LEMMA GoverningStarts == Governing!Init => Third!Init
  BY DEF Governing!NoUser, Third!NoUser, Governing!NoToken, Third!NoToken,
         Governing!NoReset, Third!NoReset, Governing!Init, Third!Init

LEMMA GoverningSteps == Governing!Next => Third!Next
  BY DEF Governing!sessions, Third!sessions, Governing!NoToken, Third!NoToken,
         Governing!NoReset, Third!NoReset, Governing!Known, Third!Known, Governing!Active,
         Third!Active, Governing!Roles, Third!Roles, Governing!Granted, Third!Granted,
         Governing!Effective, Third!Effective, Governing!Asks, Third!Asks,
         Governing!MayGrant, Third!MayGrant, Governing!Live, Third!Live, Governing!Issue,
         Third!Issue, Governing!Login, Third!Login, Governing!Revoked, Third!Revoked,
         Governing!RevokeFamily, Third!RevokeFamily, Governing!RefreshReused,
         Third!RefreshReused, Governing!RefreshExpired, Third!RefreshExpired,
         Governing!RefreshDisabled, Third!RefreshDisabled, Governing!RotateRefreshToken,
         Third!RotateRefreshToken, Governing!Logout, Third!Logout, Governing!TokenExpires,
         Third!TokenExpires, Governing!RevokeUserSessions, Third!RevokeUserSessions,
         Governing!RaiseVersion, Third!RaiseVersion, Governing!Consumed, Third!Consumed,
         Governing!SetPassword, Third!SetPassword, Governing!ChangePassword,
         Third!ChangePassword, Governing!RequestPasswordReset, Third!RequestPasswordReset,
         Governing!ResetPassword, Third!ResetPassword, Governing!ResetExpires,
         Third!ResetExpires, Governing!CreateUser, Third!CreateUser, Governing!UpdateUser,
         Third!UpdateUser, Governing!DeactivateUser, Third!DeactivateUser,
         Governing!CreateRole, Third!CreateRole, Governing!UpdateRole, Third!UpdateRole,
         Governing!DeleteRole, Third!DeleteRole, Governing!AdministratorsLeft,
         Third!AdministratorsLeft, Governing!ReplaceUserRoles, Third!ReplaceUserRoles,
         Governing!SessionStep, Third!SessionStep, Governing!PasswordStep,
         Third!PasswordStep, Governing!AccountStep, Third!AccountStep, Governing!RoleStep,
         Third!RoleStep, Governing!Next, Third!Next

LEMMA SigningOneToken == First!OneToken => Signing!OneToken
  BY DEF Signing!NoToken, First!NoToken, Signing!NoReset, First!NoReset, Signing!Known,
         First!Known, Signing!Active, First!Active, Signing!Live, First!Live,
         Signing!OneToken, First!OneToken

LEMMA ResettingOneToken == Second!OneToken => Resetting!OneToken
  BY DEF Resetting!NoToken, Second!NoToken, Resetting!NoReset, Second!NoReset,
         Resetting!Known, Second!Known, Resetting!Active, Second!Active, Resetting!Live,
         Second!Live, Resetting!OneToken, Second!OneToken

LEMMA SigningEndedStep == First!EndedStep => Signing!EndedStep
  BY DEF Signing!NoToken, First!NoToken, Signing!Live, First!Live, Signing!Accepted,
         First!Accepted, Signing!EndedStep, First!EndedStep

LEMMA ResettingEndedStep == Second!EndedStep => Resetting!EndedStep
  BY DEF Resetting!NoToken, Second!NoToken, Resetting!Live, Second!Live, Resetting!Accepted,
         Second!Accepted, Resetting!EndedStep, Second!EndedStep

LEMMA GoverningGrantStep == Third!GrantStep => Governing!GrantStep
  BY DEF Governing!sessions, Third!sessions, Governing!Known, Third!Known, Governing!Active,
         Third!Active, Governing!Roles, Third!Roles, Governing!Granted, Third!Granted,
         Governing!Effective, Third!Effective, Governing!Asks, Third!Asks,
         Governing!MayGrant, Third!MayGrant, Governing!Revoked, Third!Revoked,
         Governing!RevokeUserSessions, Third!RevokeUserSessions, Governing!RaiseVersion,
         Third!RaiseVersion, Governing!CreateUser, Third!CreateUser, Governing!UpdateUser,
         Third!UpdateUser, Governing!DeactivateUser, Third!DeactivateUser,
         Governing!CreateRole, Third!CreateRole, Governing!UpdateRole, Third!UpdateRole,
         Governing!DeleteRole, Third!DeleteRole, Governing!AdministratorsLeft,
         Third!AdministratorsLeft, Governing!ReplaceUserRoles, Third!ReplaceUserRoles,
         Governing!AccountStep, Third!AccountStep, Governing!RoleStep, Third!RoleStep,
         Governing!GrantStep, Third!GrantStep

(* Leads.                                                                  *)
LEMMA FollowingStarts == Following!Init => First!Pipeline!Init
  BY DEF Following!NoLead, First!Pipeline!NoLead, Following!NoActivity,
         First!Pipeline!NoActivity, Following!NoVisit, First!Pipeline!NoVisit,
         Following!Init, First!Pipeline!Init

LEMMA FollowingSteps == Following!Step => First!Pipeline!Step
  BY DEF Following!LeadStatus, First!Pipeline!LeadStatus, Following!VisitStatus,
         First!Pipeline!VisitStatus, Following!Open, First!Pipeline!Open,
         Following!StatusTransitions, First!Pipeline!StatusTransitions, Following!NoLead,
         First!Pipeline!NoLead, Following!NoActivity, First!Pipeline!NoActivity,
         Following!NoVisit, First!Pipeline!NoVisit, Following!others, First!Pipeline!others,
         Following!Snapshot, First!Pipeline!Snapshot, Following!Views, First!Pipeline!Views,
         Following!Known, First!Pipeline!Known, Following!Matches, First!Pipeline!Matches,
         Following!NewLead, First!Pipeline!NewLead, Following!Assignment,
         First!Pipeline!Assignment, Following!AddLeads, First!Pipeline!AddLeads,
         Following!CreateLead, First!Pipeline!CreateLead, Following!CommitImport,
         First!Pipeline!CommitImport, Following!SetLead, First!Pipeline!SetLead,
         Following!Editable, First!Pipeline!Editable, Following!UpdateLead,
         First!Pipeline!UpdateLead, Following!DeleteLead, First!Pipeline!DeleteLead,
         Following!ResolveDuplicates, First!Pipeline!ResolveDuplicates,
         Following!SetAssignment, First!Pipeline!SetAssignment, Following!AssignLead,
         First!Pipeline!AssignLead, Following!BulkAssign, First!Pipeline!BulkAssign,
         Following!EnsureTransition, First!Pipeline!EnsureTransition,
         Following!TransitionStatus, First!Pipeline!TransitionStatus, Following!QualifyLead,
         First!Pipeline!QualifyLead, Following!MarkLeadLost, First!Pipeline!MarkLeadLost,
         Following!UpdateLostReason, First!Pipeline!UpdateLostReason, Following!ConvertLead,
         First!Pipeline!ConvertLead, Following!Pending, First!Pipeline!Pending,
         Following!PendingDues, First!Pipeline!PendingDues, Following!Earliest,
         First!Pipeline!Earliest, Following!SetActivity, First!Pipeline!SetActivity,
         Following!Entry, First!Pipeline!Entry, Following!CreateActivity,
         First!Pipeline!CreateActivity, Following!UpdateActivity,
         First!Pipeline!UpdateActivity, Following!CompleteFollowUp,
         First!Pipeline!CompleteFollowUp, Following!DeleteActivity,
         First!Pipeline!DeleteActivity, Following!SetVisit, First!Pipeline!SetVisit,
         Following!CreateVisit, First!Pipeline!CreateVisit, Following!Upcoming,
         First!Pipeline!Upcoming, Following!UpdateVisit, First!Pipeline!UpdateVisit,
         Following!ChangeVisitStatus, First!Pipeline!ChangeVisitStatus, Following!CheckIn,
         First!Pipeline!CheckIn, Following!CheckOut, First!Pipeline!CheckOut,
         Following!Visitor, First!Pipeline!Visitor, Following!CheckOutCustomer,
         First!Pipeline!CheckOutCustomer,
         Following!DeleteVisit, First!Pipeline!DeleteVisit, Following!VisitFallsDue,
         First!Pipeline!VisitFallsDue, Following!SomeKeys, First!Pipeline!SomeKeys,
         Following!EntryStep, First!Pipeline!EntryStep, Following!PipelineStep,
         First!Pipeline!PipelineStep, Following!ActivityStep, First!Pipeline!ActivityStep,
         Following!VisitStep, First!Pipeline!VisitStep, Following!Step, First!Pipeline!Step

LEMMA EnteringStarts == Entering!Init => Second!Pipeline!Init
  BY DEF Entering!NoLead, Second!Pipeline!NoLead, Entering!NoActivity,
         Second!Pipeline!NoActivity, Entering!NoVisit, Second!Pipeline!NoVisit,
         Entering!Init, Second!Pipeline!Init

LEMMA EnteringSteps == Entering!Next => Second!Pipeline!Next
  BY DEF Entering!LeadStatus, Second!Pipeline!LeadStatus, Entering!VisitStatus,
         Second!Pipeline!VisitStatus, Entering!Open, Second!Pipeline!Open,
         Entering!StatusTransitions, Second!Pipeline!StatusTransitions, Entering!NoLead,
         Second!Pipeline!NoLead, Entering!NoActivity, Second!Pipeline!NoActivity,
         Entering!NoVisit, Second!Pipeline!NoVisit, Entering!others, Second!Pipeline!others,
         Entering!Snapshot, Second!Pipeline!Snapshot, Entering!Views, Second!Pipeline!Views,
         Entering!Known, Second!Pipeline!Known, Entering!Begin, Second!Pipeline!Begin,
         Entering!Matches, Second!Pipeline!Matches, Entering!NewLead,
         Second!Pipeline!NewLead, Entering!Assignment, Second!Pipeline!Assignment,
         Entering!AddLeads, Second!Pipeline!AddLeads, Entering!CreateLead,
         Second!Pipeline!CreateLead, Entering!CommitImport, Second!Pipeline!CommitImport,
         Entering!SetLead, Second!Pipeline!SetLead, Entering!Editable,
         Second!Pipeline!Editable, Entering!UpdateLead, Second!Pipeline!UpdateLead,
         Entering!DeleteLead, Second!Pipeline!DeleteLead, Entering!ResolveDuplicates,
         Second!Pipeline!ResolveDuplicates, Entering!SetAssignment,
         Second!Pipeline!SetAssignment, Entering!AssignLead, Second!Pipeline!AssignLead,
         Entering!BulkAssign, Second!Pipeline!BulkAssign, Entering!EnsureTransition,
         Second!Pipeline!EnsureTransition, Entering!TransitionStatus,
         Second!Pipeline!TransitionStatus, Entering!QualifyLead,
         Second!Pipeline!QualifyLead, Entering!MarkLeadLost, Second!Pipeline!MarkLeadLost,
         Entering!UpdateLostReason, Second!Pipeline!UpdateLostReason, Entering!ConvertLead,
         Second!Pipeline!ConvertLead, Entering!Pending, Second!Pipeline!Pending,
         Entering!PendingDues, Second!Pipeline!PendingDues, Entering!Earliest,
         Second!Pipeline!Earliest, Entering!SetActivity, Second!Pipeline!SetActivity,
         Entering!Entry, Second!Pipeline!Entry, Entering!CreateActivity,
         Second!Pipeline!CreateActivity, Entering!UpdateActivity,
         Second!Pipeline!UpdateActivity, Entering!CompleteFollowUp,
         Second!Pipeline!CompleteFollowUp, Entering!DeleteActivity,
         Second!Pipeline!DeleteActivity, Entering!SetVisit, Second!Pipeline!SetVisit,
         Entering!CreateVisit, Second!Pipeline!CreateVisit, Entering!Upcoming,
         Second!Pipeline!Upcoming, Entering!UpdateVisit, Second!Pipeline!UpdateVisit,
         Entering!ChangeVisitStatus, Second!Pipeline!ChangeVisitStatus, Entering!CheckIn,
         Second!Pipeline!CheckIn, Entering!CheckOut, Second!Pipeline!CheckOut,
         Entering!Visitor, Second!Pipeline!Visitor, Entering!CheckOutCustomer,
         Second!Pipeline!CheckOutCustomer,
         Entering!DeleteVisit, Second!Pipeline!DeleteVisit, Entering!VisitFallsDue,
         Second!Pipeline!VisitFallsDue, Entering!SomeKeys, Second!Pipeline!SomeKeys,
         Entering!EntryStep, Second!Pipeline!EntryStep, Entering!PipelineStep,
         Second!Pipeline!PipelineStep, Entering!ActivityStep, Second!Pipeline!ActivityStep,
         Entering!VisitStep, Second!Pipeline!VisitStep, Entering!Step, Second!Pipeline!Step,
         Entering!Next, Second!Pipeline!Next

LEMMA FollowingOneAssignee == First!Pipeline!OneAssignee => Following!OneAssignee
  BY DEF Following!Known, First!Pipeline!Known, Following!Assignment,
         First!Pipeline!Assignment, Following!OneAssignee, First!Pipeline!OneAssignee

LEMMA EnteringOneAssignee == Second!Pipeline!OneAssignee => Entering!OneAssignee
  BY DEF Entering!Known, Second!Pipeline!Known, Entering!Assignment,
         Second!Pipeline!Assignment, Entering!OneAssignee, Second!Pipeline!OneAssignee

LEMMA FollowingConvertedStep == First!Pipeline!ConvertedStep => Following!ConvertedStep
  BY DEF Following!ConvertedStep, First!Pipeline!ConvertedStep

LEMMA EnteringConvertedStep == Second!Pipeline!ConvertedStep => Entering!ConvertedStep
  BY DEF Entering!ConvertedStep, Second!Pipeline!ConvertedStep

LEMMA FollowingNextFollowUp == First!Pipeline!NextFollowUp => Following!NextFollowUp
  BY DEF Following!Known, First!Pipeline!Known, Following!Pending, First!Pipeline!Pending,
         Following!PendingDues, First!Pipeline!PendingDues, Following!Earliest,
         First!Pipeline!Earliest, Following!VisitedTo, First!Pipeline!VisitedTo,
         Following!NextFollowUp, First!Pipeline!NextFollowUp

(* Papers and quotations.                                                  *)
LEMMA FilingStarts == Filing!Init => First!Papers!Init
  BY DEF Filing!NoDocument, First!Papers!NoDocument, Filing!Init, First!Papers!Init

LEMMA FilingSteps == Filing!Next => First!Papers!Next
  BY DEF Filing!EXPIRABLE_STATUSES, First!Papers!EXPIRABLE_STATUSES, Filing!Date,
         First!Papers!Date, Filing!Views, First!Papers!Views, Filing!Known,
         First!Papers!Known, Filing!Versions, First!Papers!Versions, Filing!Begin,
         First!Papers!Begin, Filing!NextDay, First!Papers!NextDay, Filing!Past,
         First!Papers!Past, Filing!ValidExpiry, First!Papers!ValidExpiry,
         Filing!CreateRequest, First!Papers!CreateRequest, Filing!Uploaded,
         First!Papers!Uploaded, Filing!UploadInitial, First!Papers!UploadInitial,
         Filing!UploadVersion, First!Papers!UploadVersion, Filing!StartReview,
         First!Papers!StartReview, Filing!DecideReview, First!Papers!DecideReview,
         Filing!Due, First!Papers!Due, Filing!Expired, First!Papers!Expired,
         Filing!ExpireDueDocuments, First!Papers!ExpireDueDocuments, Filing!Verified,
         First!Papers!Verified, Filing!RelyOnKyc, First!Papers!RelyOnKyc, Filing!Next,
         First!Papers!Next

LEMMA FilingNewestCounts == First!Papers!NewestCounts => Filing!NewestCounts
  BY DEF Filing!Known, First!Papers!Known, Filing!Versions, First!Papers!Versions,
         Filing!Past, First!Papers!Past, Filing!NewestCounts, First!Papers!NewestCounts

LEMMA QuotingStarts == Quoting!Init => First!Offer!Init
  BY DEF Quoting!NoSheet, First!Offer!NoSheet, Quoting!NoApproval, First!Offer!NoApproval,
         Quoting!NoQuote, First!Offer!NoQuote, Quoting!Init, First!Offer!Init

(* A price is calculated the same way.                                     *)
LEMMA QuotingGross ==
    ASSUME NEW rules, NEW unit, NEW request
    PROVE  Quoting!Gross(rules, unit, request) = First!Offer!Gross(rules, unit, request)
  BY DEF Quoting!Line, First!Offer!Line, Quoting!Rounded, First!Offer!Rounded,
         Quoting!Percent, First!Offer!Percent, Quoting!Added, First!Offer!Added,
         Quoting!Total, First!Offer!Total, Quoting!AddLine, First!Offer!AddLine,
         Quoting!BasePrices, First!Offer!BasePrices, Quoting!Adjustment,
         First!Offer!Adjustment, Quoting!FloorRise, First!Offer!FloorRise, Quoting!Matches,
         First!Offer!Matches, Quoting!LineAmounts, First!Offer!LineAmounts, Quoting!Charge,
         First!Offer!Charge, Quoting!ChargeAll, First!Offer!ChargeAll, Quoting!Chosen,
         First!Offer!Chosen, Quoting!ChargeParking, First!Offer!ChargeParking,
         Quoting!ChargeAmenities, First!Offer!ChargeAmenities, Quoting!Premiums,
         First!Offer!Premiums, Quoting!Charges, First!Offer!Charges, Quoting!Gross,
         First!Offer!Gross, Quoting!FoldLeft, First!Offer!FoldLeft, Quoting!MapThenFoldSet,
         First!Offer!MapThenFoldSet, Quoting!Max, First!Offer!Max, Quoting!FoldSet,
         First!Offer!FoldSet, Quoting!ToSet, First!Offer!ToSet

LEMMA QuotingAllowedDiscounts ==
    ASSUME NEW rules, NEW request, NEW value
    PROVE  Quoting!AllowedDiscounts(rules, request, value) = First!Offer!AllowedDiscounts(rules, request, value)
  BY DEF Quoting!Rounded, First!Offer!Rounded, Quoting!Discounts, First!Offer!Discounts,
         Quoting!Decimals, First!Offer!Decimals, Quoting!DiscountPercent,
         First!Offer!DiscountPercent, Quoting!Levels, First!Offer!Levels,
         Quoting!NeedsApproval, First!Offer!NeedsApproval, Quoting!AllowedDiscounts,
         First!Offer!AllowedDiscounts

LEMMA QuotingSheet ==
    ASSUME NEW gross, NEW taxes, NEW d, NEW booking
    PROVE  Quoting!Sheet(gross, taxes, d, booking) = First!Offer!Sheet(gross, taxes, d, booking)
  BY DEF Quoting!Line, First!Offer!Line, Quoting!Rounded, First!Offer!Rounded,
         Quoting!Added, First!Offer!Added, Quoting!Total, First!Offer!Total,
         Quoting!AddLine, First!Offer!AddLine, Quoting!AddLines, First!Offer!AddLines,
         Quoting!Decimals, First!Offer!Decimals, Quoting!DiscountPercent,
         First!Offer!DiscountPercent, Quoting!Sheet, First!Offer!Sheet, Quoting!FoldLeft,
         First!Offer!FoldLeft, Quoting!MapThenFoldSet, First!Offer!MapThenFoldSet,
         Quoting!Max, First!Offer!Max

LEMMA QuotingTaxLines ==
    ASSUME NEW lines, NEW rules
    PROVE  Quoting!TaxLines(lines, rules) = First!Offer!TaxLines(lines, rules)
  BY DEF Quoting!Line, First!Offer!Line, Quoting!Rounded, First!Offer!Rounded,
         Quoting!Percent, First!Offer!Percent, Quoting!Added, First!Offer!Added,
         Quoting!Bears, First!Offer!Bears, Quoting!TaxAmount, First!Offer!TaxAmount,
         Quoting!TaxLines, First!Offer!TaxLines, Quoting!FoldLeft, First!Offer!FoldLeft,
         Quoting!MapThenFoldSet, First!Offer!MapThenFoldSet, Quoting!Max, First!Offer!Max

LEMMA QuotingAdded ==
    ASSUME NEW numbers
    PROVE  Quoting!Added(numbers) = First!Offer!Added(numbers)
  BY DEF Quoting!Added, First!Offer!Added, Quoting!FoldLeft, First!Offer!FoldLeft,
         Quoting!MapThenFoldSet, First!Offer!MapThenFoldSet, Quoting!Max, First!Offer!Max

LEMMA QuotingTotal ==
    ASSUME NEW lines
    PROVE  Quoting!Total(lines) = First!Offer!Total(lines)
  BY DEF Quoting!Added, First!Offer!Added, Quoting!Total, First!Offer!Total,
         Quoting!FoldLeft, First!Offer!FoldLeft, Quoting!MapThenFoldSet,
         First!Offer!MapThenFoldSet, Quoting!Max, First!Offer!Max

LEMMA QuotingBookingAmounts ==
    ASSUME NEW rules, NEW request, NEW final
    PROVE  Quoting!BookingAmounts(rules, request, final) = First!Offer!BookingAmounts(rules, request, final)
  BY DEF Quoting!Rounded, First!Offer!Rounded, Quoting!Percent, First!Offer!Percent,
         Quoting!BookingAmounts, First!Offer!BookingAmounts

LEMMA QuotingCostSheets ==
    ASSUME NEW rules, NEW unit, NEW request
    PROVE  Quoting!CostSheets(rules, unit, request) = First!Offer!CostSheets(rules, unit, request)
  BY QuotingGross, QuotingAllowedDiscounts, QuotingSheet, QuotingTaxLines, QuotingTotal,
     QuotingBookingAmounts DEF Quoting!CostSheets, First!Offer!CostSheets

LEMMA QuotingWholeCents ==
    ASSUME NEW rules, NEW unit, NEW request, Quoting!WholeCents(rules, unit, request)
    PROVE  First!Offer!WholeCents(rules, unit, request)
  BY QuotingGross DEF Quoting!WholeCents, First!Offer!WholeCents, Quoting!LineRow,
     First!Offer!LineRow, Quoting!Category, First!Offer!Category

LEMMA QuotingCents == First!Cents
  BY CentsAssumption, QuotingWholeCents DEF First!Cents

LEMMA QuotingLists == Quoting!ListStep => First!Offer!ListStep
  BY DEF Quoting!ListStatus, First!Offer!ListStatus, Quoting!Sheets, First!Offer!Sheets,
         Quoting!SetList, First!Offer!SetList, Quoting!CreatePriceList,
         First!Offer!CreatePriceList, Quoting!UpdatePriceList, First!Offer!UpdatePriceList,
         Quoting!ListMoves, First!Offer!ListMoves, Quoting!ChangePriceListStatus,
         First!Offer!ChangePriceListStatus, Quoting!DeletePriceList,
         First!Offer!DeletePriceList, Quoting!ListAges, First!Offer!ListAges,
         Quoting!ListStep, First!Offer!ListStep

LEMMA QuotingNewSheets ==
    ASSUME NEW v, NEW s, NEW l, NEW request, NEW seller,
           Quoting!CreateCostSheet(v, s, l, request, seller)
    PROVE  First!Offer!CreateCostSheet(v, s, l, request, seller)
  BY QuotingCostSheets
     DEF Quoting!Effective, First!Offer!Effective, Quoting!NeedsApproval,
         First!Offer!NeedsApproval, Quoting!Levels, First!Offer!Levels, Quoting!LevelFor,
         First!Offer!LevelFor, Quoting!NoApproval, First!Offer!NoApproval,
         Quoting!CreateCostSheet, First!Offer!CreateCostSheet

LEMMA QuotingDiscounts ==
    ASSUME NEW s, NEW seller, NEW verdict, Quoting!DecideDiscount(s, seller, verdict)
    PROVE  First!Offer!DecideDiscount(s, seller, verdict)
  BY DEF Quoting!MayDecide, First!Offer!MayDecide, Quoting!DecideDiscount,
         First!Offer!DecideDiscount

LEMMA QuotingSheets == Quoting!SheetStep => First!Offer!SheetStep
  BY QuotingNewSheets, QuotingDiscounts
     DEF Quoting!SheetStep, First!Offer!SheetStep, Quoting!Views, First!Offer!Views

LEMMA QuotingQuotes == Quoting!QuoteStep => First!Offer!QuoteStep
  BY DEF Quoting!QuotationStatus, First!Offer!QuotationStatus, Quoting!Quotes,
         First!Offer!Quotes, Quoting!PriceOf, First!Offer!PriceOf, Quoting!Item,
         First!Offer!Item, Quoting!Versions, First!Offer!Versions, Quoting!QuotationRow,
         First!Offer!QuotationRow, Quoting!CreateQuotationRecord,
         First!Offer!CreateQuotationRecord, Quoting!CreateQuotation,
         First!Offer!CreateQuotation, Quoting!Superseded, First!Offer!Superseded,
         Quoting!NewestVersion, First!Offer!NewestVersion, Quoting!CreateQuotationVersion,
         First!Offer!CreateQuotationVersion, Quoting!SetQuote, First!Offer!SetQuote,
         Quoting!QuoteMoves, First!Offer!QuoteMoves, Quoting!ChangeQuotationStatus,
         First!Offer!ChangeQuotationStatus, Quoting!QuoteStep, First!Offer!QuoteStep

LEMMA QuotingSteps == Quoting!Next => First!Offer!Next
  BY QuotingLists, QuotingSheets, QuotingQuotes
     DEF Quoting!Next, First!Offer!Next, Quoting!Begin, First!Offer!Begin

LEMMA QuotingOneOpen == First!Offer!OneOpen => Quoting!OneOpen
  BY DEF Quoting!Quotes, First!Offer!Quotes, Quoting!Versions, First!Offer!Versions,
         Quoting!OneOpen, First!Offer!OneOpen

LEMMA QuotingPrices == First!Offer!PricesStand => Quoting!PricesStand
  BY QuotingCostSheets, QuotingTotal, QuotingAdded
     DEF Quoting!Sheets, First!Offer!Sheets, Quoting!Quotes, First!Offer!Quotes,
         Quoting!PriceOf, First!Offer!PriceOf, Quoting!PricesStand, First!Offer!PricesStand

LEMMA QuotingPercent ==
    ASSUME NEW discount, NEW value
    PROVE  Quoting!DiscountPercent(discount, value) = First!Offer!DiscountPercent(discount, value)
  BY DEF Quoting!Rounded, First!Offer!Rounded, Quoting!Decimals, First!Offer!Decimals,
         Quoting!DiscountPercent, First!Offer!DiscountPercent

LEMMA QuotingLevels ==
    ASSUME NEW rules, NEW percent
    PROVE  Quoting!Levels(rules, percent) = First!Offer!Levels(rules, percent)
  BY DEF Quoting!Levels, First!Offer!Levels

LEMMA QuotingVouched == First!Offer!DiscountsVouched => Quoting!DiscountsVouched
  BY QuotingPercent, QuotingLevels
     DEF Quoting!Quotes, First!Offer!Quotes, Quoting!PriceOf, First!Offer!PriceOf,
         Quoting!DiscountsVouched, First!Offer!DiscountsVouched

(* Places and territories.                                                 *)
LEMMA MappingStarts == Mapping!Init => First!Places!Init
  BY DEF Mapping!Nothing, First!Places!Nothing, Mapping!Init, First!Places!Init

LEMMA MappingAbove == ASSUME NEW t PROVE Mapping!Above(t) = First!Places!Above(t)
  BY DEF Mapping!Above, First!Places!Above, Mapping!Cardinality, First!Places!Cardinality

LEMMA MappingUsers == Mapping!PlaceStep => First!Places!PlaceStep
  BY DEF Mapping!Branches, First!Places!Branches, Mapping!Departments,
         First!Places!Departments, Mapping!ActiveUsers, First!Places!ActiveUsers,
         Mapping!With, First!Places!With, Mapping!Without, First!Places!Without,
         Mapping!InBranch, First!Places!InBranch, Mapping!CreateBranch,
         First!Places!CreateBranch, Mapping!DeleteBranch, First!Places!DeleteBranch,
         Mapping!SaveDepartment, First!Places!SaveDepartment, Mapping!DeleteDepartment,
         First!Places!DeleteDepartment, Mapping!PlaceUser, First!Places!PlaceUser,
         Mapping!DeactivateUser, First!Places!DeactivateUser, Mapping!PlaceStep,
         First!Places!PlaceStep

LEMMA MappingTeams == Mapping!TeamStep => First!Places!TeamStep
  BY DEF Mapping!With, First!Places!With, Mapping!Without, First!Places!Without,
         Mapping!Branches, First!Places!Branches, Mapping!ActiveUsers,
         First!Places!ActiveUsers, Mapping!SaveTeam, First!Places!SaveTeam,
         Mapping!DeleteTeam, First!Places!DeleteTeam, Mapping!TeamStep, First!Places!TeamStep

LEMMA MappingTerritories == Mapping!TerritoryStep => First!Places!TerritoryStep
  BY MappingAbove DEF Mapping!With, First!Places!With, Mapping!Without, First!Places!Without,
         Mapping!Branches, First!Places!Branches, Mapping!ActiveUsers,
         First!Places!ActiveUsers, Mapping!CreateTerritory, First!Places!CreateTerritory,
         Mapping!UpdateTerritory, First!Places!UpdateTerritory, Mapping!DeleteTerritory,
         First!Places!DeleteTerritory, Mapping!TerritoryStep, First!Places!TerritoryStep

LEMMA MappingSteps == Mapping!Next => First!Places!Next
  BY MappingUsers, MappingTeams, MappingTerritories DEF Mapping!Next, First!Places!Next

LEMMA ArrangingStarts == Arranging!Init => Second!Places!Init
  BY DEF Arranging!Nothing, Second!Places!Nothing, Arranging!Init, Second!Places!Init

LEMMA ArrangingAbove == ASSUME NEW t PROVE Arranging!Above(t) = Second!Places!Above(t)
  BY DEF Arranging!Above, Second!Places!Above, Arranging!Cardinality,
         Second!Places!Cardinality

LEMMA ArrangingUsers == Arranging!PlaceStep => Second!Places!PlaceStep
  BY DEF Arranging!Branches, Second!Places!Branches, Arranging!Departments,
         Second!Places!Departments, Arranging!ActiveUsers, Second!Places!ActiveUsers,
         Arranging!With, Second!Places!With, Arranging!Without, Second!Places!Without,
         Arranging!InBranch, Second!Places!InBranch, Arranging!CreateBranch,
         Second!Places!CreateBranch, Arranging!DeleteBranch, Second!Places!DeleteBranch,
         Arranging!SaveDepartment, Second!Places!SaveDepartment, Arranging!DeleteDepartment,
         Second!Places!DeleteDepartment, Arranging!PlaceUser, Second!Places!PlaceUser,
         Arranging!DeactivateUser, Second!Places!DeactivateUser, Arranging!PlaceStep,
         Second!Places!PlaceStep

LEMMA ArrangingTeams == Arranging!TeamStep => Second!Places!TeamStep
  BY DEF Arranging!With, Second!Places!With, Arranging!Without, Second!Places!Without,
         Arranging!Branches, Second!Places!Branches, Arranging!ActiveUsers,
         Second!Places!ActiveUsers, Arranging!SaveTeam, Second!Places!SaveTeam,
         Arranging!DeleteTeam, Second!Places!DeleteTeam, Arranging!TeamStep,
         Second!Places!TeamStep

LEMMA ArrangingTerritories == Arranging!TerritoryStep => Second!Places!TerritoryStep
  BY ArrangingAbove DEF Arranging!With, Second!Places!With, Arranging!Without,
         Second!Places!Without, Arranging!Branches, Second!Places!Branches,
         Arranging!ActiveUsers, Second!Places!ActiveUsers, Arranging!CreateTerritory,
         Second!Places!CreateTerritory, Arranging!UpdateTerritory,
         Second!Places!UpdateTerritory, Arranging!DeleteTerritory,
         Second!Places!DeleteTerritory, Arranging!TerritoryStep, Second!Places!TerritoryStep

LEMMA ArrangingSteps == Arranging!Next => Second!Places!Next
  BY ArrangingUsers, ArrangingTeams, ArrangingTerritories DEF Arranging!Next, Second!Places!Next

LEMMA MappingRooted == First!Places!TerritoriesRooted => Mapping!TerritoriesRooted
  BY MappingAbove DEF Mapping!TerritoriesRooted, First!Places!TerritoriesRooted

(* The types of the rows.                                                  *)
LEMMA SigningTyped == First!TypeOK => Signing!TypeOK
  BY DEF Signing!NoUser, First!NoUser, Signing!NoToken, First!NoToken, Signing!NoReset,
         First!NoReset, Signing!Known, First!Known, Signing!Roles, First!Roles,
         Signing!TypeOK, First!TypeOK

LEMMA ResettingTyped == Second!TypeOK => Resetting!TypeOK
  BY DEF Resetting!NoUser, Second!NoUser, Resetting!NoToken, Second!NoToken,
         Resetting!NoReset, Second!NoReset, Resetting!Known, Second!Known, Resetting!Roles,
         Second!Roles, Resetting!TypeOK, Second!TypeOK

LEMMA GoverningTyped == Third!TypeOK => Governing!TypeOK
  BY DEF Governing!NoUser, Third!NoUser, Governing!NoToken, Third!NoToken,
         Governing!NoReset, Third!NoReset, Governing!Known, Third!Known, Governing!Roles,
         Third!Roles, Governing!TypeOK, Third!TypeOK

LEMMA FollowingTyped == First!Pipeline!TypeOK => Following!TypeOK
  BY DEF Following!LeadStatus, First!Pipeline!LeadStatus, Following!VisitStatus,
         First!Pipeline!VisitStatus, Following!Open, First!Pipeline!Open, Following!Known,
         First!Pipeline!Known, Following!LeadRow, First!Pipeline!LeadRow,
         Following!ActivityRow, First!Pipeline!ActivityRow, Following!VisitRow,
         First!Pipeline!VisitRow, Following!TypeOK, First!Pipeline!TypeOK

LEMMA EnteringTyped == Second!Pipeline!TypeOK => Entering!TypeOK
  BY DEF Entering!LeadStatus, Second!Pipeline!LeadStatus, Entering!VisitStatus,
         Second!Pipeline!VisitStatus, Entering!Open, Second!Pipeline!Open, Entering!Known,
         Second!Pipeline!Known, Entering!LeadRow, Second!Pipeline!LeadRow,
         Entering!ActivityRow, Second!Pipeline!ActivityRow, Entering!VisitRow,
         Second!Pipeline!VisitRow, Entering!TypeOK, Second!Pipeline!TypeOK

LEMMA FilingTyped == First!Papers!TypeOK => Filing!TypeOK
  BY DEF Filing!Statuses, First!Papers!Statuses, Filing!Date, First!Papers!Date,
         Filing!CustomerDocument, First!Papers!CustomerDocument, Filing!Known,
         First!Papers!Known, Filing!Versions, First!Papers!Versions, Filing!Views,
         First!Papers!Views, Filing!TypeOK, First!Papers!TypeOK

LEMMA QuotingTyped == First!Offer!TypeOK => Quoting!TypeOK
  BY DEF Quoting!ListStatus, First!Offer!ListStatus, Quoting!CostSheetStatus,
         First!Offer!CostSheetStatus, Quoting!QuotationStatus, First!Offer!QuotationStatus,
         Quoting!ApprovalStatus, First!Offer!ApprovalStatus, Quoting!Window,
         First!Offer!Window, Quoting!Sheets, First!Offer!Sheets, Quoting!Quotes,
         First!Offer!Quotes, Quoting!TypeOK, First!Offer!TypeOK

LEMMA MappingTyped == First!Places!TypeOK => Mapping!TypeOK
  BY DEF Mapping!Branches, First!Places!Branches, Mapping!Departments,
         First!Places!Departments, Mapping!TypeOK, First!Places!TypeOK

LEMMA ArrangingTyped == Second!Places!TypeOK => Arranging!TypeOK
  BY DEF Arranging!Branches, Second!Places!Branches, Arranging!Departments,
         Second!Places!Departments, Arranging!TypeOK, Second!Places!TypeOK

LEMMA NothingArranged == Mapping!Init => Second!Places!Init
  BY DEF Mapping!Nothing, Second!Places!Nothing, Mapping!Init, Second!Places!Init

-----------------------------------------------------------------------------
(***************************************************************************)
(* The run's behaviours: a step is at the desk, and leaves the rows of the *)
(* others as they are.                                                     *)
(***************************************************************************)
all == <<desk, leadVars, quoteVars, accessVars, placeVars, paperVars>>

LEMMA DeskStays ==
    ASSUME [Next]_all
    PROVE  /\ desk' = desk
           /\ desk = "quoting" => UNCHANGED quoteVars \/ Quoting!Next
           /\ desk # "quoting" => UNCHANGED quoteVars
           /\ desk = "following" => UNCHANGED leadVars \/ Following!Step
           /\ desk = "entering" => UNCHANGED leadVars \/ Entering!Next
           /\ desk \notin {"following", "entering"} => UNCHANGED leadVars
           /\ desk = "signing" => UNCHANGED accessVars \/ Signing!Next
           /\ desk = "resetting" => UNCHANGED accessVars \/ Resetting!Next
           /\ desk = "governing" => UNCHANGED accessVars \/ Governing!Next
           /\ desk = "arranging" => UNCHANGED placeVars \/ Arranging!Next
           /\ desk = "mapping" => UNCHANGED placeVars \/ Mapping!Next
           /\ desk = "filing" => UNCHANGED paperVars \/ Filing!Next
  BY DEF all, Next, SalesNext, StaffNext, PaperNext

LEMMA AccessSteps ==
    ASSUME [Next]_all
    PROVE  /\ desk = "signing" => [First!Next]_(First!vars)
           /\ desk = "resetting" => [Second!Next]_(Second!vars)
           /\ desk = "governing" => [Third!Next]_(Third!vars)
  BY DeskStays, SigningSteps, ResettingSteps, GoverningSteps
     DEF accessVars, First!vars, Second!vars, Third!vars

LEMMA LeadSteps ==
    ASSUME [Next]_all
    PROVE  /\ desk = "entering" => [Second!Pipeline!Next]_(Second!Pipeline!vars)
           /\ desk = "following" => [First!Pipeline!Step]_(First!Pipeline!vars)
           /\ desk # "entering" => [First!Pipeline!Next]_(First!Pipeline!vars)
  BY DeskStays, FollowingSteps, EnteringSteps
     DEF leadVars, First!Pipeline!vars, First!Pipeline!others, First!Pipeline!Next,
         Second!Pipeline!vars, Second!Pipeline!others

LEMMA PaperSteps ==
    ASSUME [Next]_all, desk = "filing" PROVE [First!Papers!Next]_(First!Papers!vars)
  BY DeskStays, FilingSteps DEF paperVars, First!Papers!vars

LEMMA PlaceSteps ==
    ASSUME [Next]_all
    PROVE  /\ desk = "mapping" => [First!Places!Next]_(First!Places!vars)
           /\ desk = "arranging" => [Second!Places!Next]_(Second!Places!vars)
  BY DeskStays, MappingSteps, ArrangingSteps
     DEF placeVars, First!Places!vars, Second!Places!vars

LEMMA QuoteSteps ==
    ASSUME [Next]_all PROVE [First!Offer!Next]_(First!Offer!vars)
  BY DeskStays, QuotingSteps DEF quoteVars, First!Offer!vars

LEMMA Nulls ==
    /\ First!Apart /\ Second!Apart /\ Third!Apart
    /\ First!LeadsApart /\ Second!LeadsApart /\ First!PapersApart
    /\ First!PlacesApart /\ Second!PlacesApart
  BY OfficeAssumption
     DEF First!Apart, Second!Apart, Third!Apart, First!LeadsApart, Second!LeadsApart,
         First!PapersApart, First!PlacesApart, Second!PlacesApart

LEMMA Given == First!RolesGiven /\ Second!RolesGiven /\ Third!RolesGiven
  <1>1. NoOne \notin SUBSET Rights
    BY RightsAssumption
  <1> QED BY <1>1 DEF First!RolesGiven, Second!RolesGiven, Third!RolesGiven, Administrators,
                      BuiltIn, Rights

-----------------------------------------------------------------------------
(* Of a session's tokens one can be used, and none of somebody who may not *)
(* sign in; of the links to set a new password a user was sent one works.  *)
THEOREM OfficeTokens == Spec => []OneToken
  <1> DEFINE IInv == /\ desk = "signing" => First!SessionInv
                     /\ desk = "resetting" => Second!SessionInv
  <1>1. Init => IInv
    BY Nulls, SigningStarts, ResettingStarts, First!SessionStart, Second!SessionStart DEF Init
  <1>2. ASSUME IInv, [Next]_all PROVE IInv'
    <2>1. ASSUME desk = "signing" PROVE First!SessionInv'
      BY <1>2, <2>1, Nulls, AccessSteps, First!SessionInvStep
    <2>2. ASSUME desk = "resetting" PROVE Second!SessionInv'
      BY <1>2, <2>2, Nulls, AccessSteps, Second!SessionInvStep
    <2> QED BY <1>2, <2>1, <2>2, DeskStays
  <1>3. IInv => OneToken
    BY First!SessionShows, Second!SessionShows, SigningOneToken, ResettingOneToken DEF OneToken
  <1> QED BY <1>1, <1>2, <1>3, PTL DEF Spec, all

(* A new password, a deactivation or other roles end what was signed in    *)
(* before, for good.                                                       *)
THEOREM OfficeEnds == Spec => EndedForGood
  <1> DEFINE IInv == /\ desk = "signing" => First!SessionInv
                     /\ desk = "resetting" => Second!SessionInv
             Ends == [/\ desk = "signing" => Signing!EndedStep
                      /\ desk = "resetting" => Resetting!EndedStep]_accessVars
  <1>1. Init => IInv
    BY Nulls, SigningStarts, ResettingStarts, First!SessionStart, Second!SessionStart DEF Init
  <1>2. ASSUME IInv, [Next]_all PROVE IInv' /\ Ends
    <2>1. ASSUME desk = "signing" PROVE First!SessionInv' /\ Ends
      <3>1. First!SessionInv' /\ [First!EndedStep]_(First!vars)
        BY <1>2, <2>1, Nulls, AccessSteps, First!SessionInvStep, First!EndedStepHolds
      <3> QED BY <2>1, <3>1, SigningEndedStep DEF accessVars, First!vars
    <2>2. ASSUME desk = "resetting" PROVE Second!SessionInv' /\ Ends
      <3>1. Second!SessionInv' /\ [Second!EndedStep]_(Second!vars)
        BY <1>2, <2>2, Nulls, AccessSteps, Second!SessionInvStep, Second!EndedStepHolds
      <3> QED BY <2>2, <3>1, ResettingEndedStep DEF accessVars, Second!vars
    <2> QED BY <1>2, <2>1, <2>2, DeskStays
  <1> QED BY <1>1, <1>2, PTL DEF Spec, all, EndedForGood

(* Nobody gains a permission by a request of somebody without it.          *)
THEOREM OfficeGrants == Spec => GrantsHeld
  <1> DEFINE IInv == desk = "governing" => Third!SessionInv /\ Third!GrantInv
             Grants == [desk = "governing" => Governing!GrantStep]_accessVars
  <1>1. Init => IInv
    BY Nulls, GoverningStarts, Third!SessionStart, Third!GrantStart DEF Init
  <1>2. ASSUME IInv, [Next]_all PROVE IInv' /\ Grants
    <2>1. ASSUME desk = "governing" PROVE Third!SessionInv' /\ Third!GrantInv' /\ Grants
      BY <1>2, <2>1, Nulls, AccessSteps, Third!SessionInvStep, Third!GrantInvStep,
         Third!GrantStepHolds, GoverningGrantStep
    <2> QED BY <1>2, <2>1, DeskStays
  <1> QED BY <1>1, <1>2, PTL DEF Spec, all, GrantsHeld

(* A lead's active assignment is to its owner, whatever requests read.     *)
THEOREM OfficeAssignees == Spec => []OneAssignee
  <1> DEFINE IInv == IF desk = "entering" THEN Second!LeadInv ELSE First!LeadInv
  <1>1. Init => IInv
    BY Nulls, FollowingStarts, EnteringStarts, First!LeadStart, Second!LeadStart DEF Init
  <1>2. ASSUME IInv, [Next]_all PROVE IInv'
    BY <1>2, Nulls, DeskStays, LeadSteps, First!LeadInvStep, Second!LeadInvStep
  <1>3. IInv => OneAssignee
    BY First!LeadShows, Second!LeadShows, FollowingOneAssignee, EnteringOneAssignee
       DEF OneAssignee
  <1> QED BY <1>1, <1>2, <1>3, PTL DEF Spec, all

(* A converted lead stays as it is, whatever requests read.                *)
THEOREM OfficeConversions == Spec => ConvertedRest
  <1> DEFINE IInv == IF desk = "entering" THEN Second!LeadInv ELSE First!LeadInv
             Rest == [IF desk = "entering" THEN Entering!ConvertedStep
                                           ELSE Following!ConvertedStep]_leadVars
  <1>1. Init => IInv
    BY Nulls, FollowingStarts, EnteringStarts, First!LeadStart, Second!LeadStart DEF Init
  <1>2. ASSUME IInv, [Next]_all PROVE IInv' /\ Rest
    <2>1. ASSUME desk = "entering" PROVE Second!LeadInv' /\ Rest
      <3>1. Second!LeadInv' /\ [Second!Pipeline!ConvertedStep]_(Second!Pipeline!vars)
        BY <1>2, <2>1, Nulls, LeadSteps, Second!LeadInvStep
      <3> QED BY <2>1, <3>1, EnteringConvertedStep
              DEF leadVars, Second!Pipeline!vars, Second!Pipeline!others
    <2>2. ASSUME desk # "entering" PROVE First!LeadInv' /\ Rest
      <3>1. First!LeadInv' /\ [First!Pipeline!ConvertedStep]_(First!Pipeline!vars)
        BY <1>2, <2>2, Nulls, LeadSteps, First!LeadInvStep
      <3> QED BY <2>2, <3>1, FollowingConvertedStep
              DEF leadVars, First!Pipeline!vars, First!Pipeline!others
    <2> QED BY <2>1, <2>2, DeskStays, <1>2
  <1> QED BY <1>1, <1>2, PTL DEF Spec, all, ConvertedRest

(* Requests that follow one another leave a lead's next follow-up at the   *)
(* earliest one pending, up to its first visit.                            *)
THEOREM OfficeFollowUps == Spec => []NextFollowUp
  <1> DEFINE IInv == desk = "following" => First!FollowInv
  <1>1. Init => IInv
    BY Nulls, FollowingStarts, First!FollowStart DEF Init
  <1>2. ASSUME IInv, [Next]_all PROVE IInv'
    <2>1. ASSUME desk = "following" PROVE First!FollowInv'
      BY <1>2, <2>1, Nulls, LeadSteps, First!FollowStep
    <2> QED BY <1>2, <2>1, DeskStays
  <1>3. IInv => NextFollowUp
    BY First!FollowShows, FollowingNextFollowUp DEF NextFollowUp
  <1> QED BY <1>1, <1>2, <1>3, PTL DEF Spec, all

(* Only the newest version of a quotation is open; of a customer's paper   *)
(* only the newest is current, on what it says of itself, and no booking   *)
(* goes on with one that ran out.                                          *)
THEOREM OfficeVersions == Spec => []NewestCounts
  <1> DEFINE IInv == /\ desk = "quoting" => First!OfferInv
                     /\ desk = "filing" => First!PaperInv
  <1>1. Init => IInv
    BY Nulls, QuotingStarts, FilingStarts, First!OfferStart, First!PaperStart DEF Init
  <1>2. ASSUME IInv, [Next]_all PROVE IInv'
    <2>1. ASSUME desk = "quoting" PROVE First!OfferInv'
      BY <1>2, <2>1, QuoteSteps, First!OfferInvStep
    <2>2. ASSUME desk = "filing" PROVE First!PaperInv'
      BY <1>2, <2>2, Nulls, PaperSteps, First!PaperInvStep
    <2> QED BY <1>2, <2>1, <2>2, DeskStays
  <1>3. IInv => NewestCounts
    BY First!OfferShows, First!PaperShows, QuotingOneOpen, FilingNewestCounts DEF NewestCounts
  <1> QED BY <1>1, <1>2, <1>3, PTL DEF Spec, all

(* A cost sheet's price is its price list's, frozen, and adds up, and so   *)
(* does the quotation made of it.  A discount above the seller's limit is  *)
(* quoted only after somebody else in charge of it approved.               *)
LEMMA OfficeOffers == Spec => [](PricesStand /\ DiscountsVouched)
  <1>1. Init => First!PriceInv
    BY QuotingStarts, First!PriceStart DEF Init
  <1>2. First!PriceInv /\ [Next]_all => First!PriceInv'
    BY QuotingCents, QuoteSteps, First!PriceInvStep
  <1>3. First!PriceInv => PricesStand /\ DiscountsVouched
    BY QuotingCents, QuotingPrices, QuotingVouched, First!PriceShows
       DEF PricesStand, DiscountsVouched
  <1> QED BY <1>1, <1>2, <1>3, PTL DEF Spec, all

THEOREM OfficePrices == Spec => []PricesStand
  BY OfficeOffers, PTL

THEOREM OfficeDiscounts == Spec => []DiscountsVouched
  BY OfficeOffers, PTL

(* The territories form trees, however they are moved.                     *)
THEOREM OfficeTerritories == Spec => []TerritoriesRooted
  <1> DEFINE IInv == desk = "mapping" => First!PlaceInv
  <1>1. Init => IInv
    BY MappingStarts, First!PlaceStart DEF Init
  <1>2. ASSUME IInv, [Next]_all PROVE IInv'
    <2>1. ASSUME desk = "mapping" PROVE First!PlaceInv'
      BY <1>2, <2>1, Nulls, PlaceSteps, First!PlaceInvStep
    <2> QED BY <1>2, <2>1, DeskStays
  <1>3. IInv => TerritoriesRooted
    BY Nulls, First!PlacesRight, MappingRooted DEF TerritoriesRooted
  <1> QED BY <1>1, <1>2, <1>3, PTL DEF Spec, all

(* The rows of each component are of their types, and refer to rows that   *)
(* are there, whatever requests read.                                      *)
THEOREM OfficeTyped == Spec => []TypeOK
  <1> DEFINE Signs == /\ desk = "signing" => First!SessionInv /\ First!AccountInv
                      /\ desk = "resetting" => Second!SessionInv /\ Second!AccountInv
                      /\ desk = "governing" => Third!SessionInv /\ Third!AccountInv
             Leads == /\ desk = "entering" => Second!LeadInv /\ Second!LinkInv
                      /\ desk # "entering" => First!LeadInv /\ First!LinkInv
             Files == desk = "filing" => First!PaperInv /\ First!Numbered
             Quotes == First!PriceInv /\ First!OfferInv /\ First!OfferTypes
             Places == /\ desk = "mapping" => First!PlaceInv
                       /\ desk = "arranging" => Second!PlaceInv
             At == desk \in {"quoting", "following", "entering", "signing", "resetting",
                             "governing", "arranging", "mapping", "filing"}
             IInv == At /\ Signs /\ Leads /\ Files /\ Quotes /\ Places
  <1>1. Init => IInv
    <2>1. Init => At
      BY DEF Init
    <2>2. Init => Signs
      BY Nulls, Given, SigningStarts, ResettingStarts, GoverningStarts, First!SessionStart,
         First!AccountStart, Second!SessionStart, Second!AccountStart, Third!SessionStart,
         Third!AccountStart DEF Init
    <2>3. Init => Leads
      BY Nulls, FollowingStarts, EnteringStarts, First!LeadStart, First!LinkStart,
         Second!LeadStart, Second!LinkStart DEF Init
    <2>4. Init => Files
      BY Nulls, FilingStarts, First!PaperStart, First!NumberedStart DEF Init
    <2>5. Init => Quotes
      BY QuotingStarts, First!PriceStart, First!OfferStart, First!OfferTypesStart DEF Init
    <2>6. Init => Places
      BY MappingStarts, NothingArranged, First!PlaceStart, Second!PlaceStart DEF Init
    <2> QED BY <2>1, <2>2, <2>3, <2>4, <2>5, <2>6
  <1>2. ASSUME IInv, [Next]_all PROVE IInv'
    <2>1. ASSUME desk = "signing" PROVE First!SessionInv' /\ First!AccountInv'
      BY <1>2, <2>1, Nulls, Given, AccessSteps, First!SessionInvStep, First!AccountInvStep
    <2>2. ASSUME desk = "resetting" PROVE Second!SessionInv' /\ Second!AccountInv'
      BY <1>2, <2>2, Nulls, Given, AccessSteps, Second!SessionInvStep, Second!AccountInvStep
    <2>3. ASSUME desk = "governing" PROVE Third!SessionInv' /\ Third!AccountInv'
      BY <1>2, <2>3, Nulls, Given, AccessSteps, Third!SessionInvStep, Third!AccountInvStep
    <2>4. ASSUME desk = "entering" PROVE Second!LeadInv' /\ Second!LinkInv'
      BY <1>2, <2>4, Nulls, LeadSteps, Second!LeadInvStep, Second!LinkInvStep
    <2>5. ASSUME desk # "entering" PROVE First!LeadInv' /\ First!LinkInv'
      BY <1>2, <2>5, Nulls, LeadSteps, First!LeadInvStep, First!LinkInvStep
    <2>6. ASSUME desk = "filing" PROVE First!PaperInv' /\ First!Numbered'
      BY <1>2, <2>6, Nulls, PaperSteps, First!PaperInvStep, First!NumberedKeeps
    <2>7. Quotes'
      <3>1. {"current"} \subseteq First!Offer!Window
        BY DEF First!Offer!Window
      <3> QED BY <1>2, <3>1, QuotingCents, QuoteSteps, First!PriceInvStep, First!OfferInvStep,
                 First!OfferTypesKeep
    <2>8. ASSUME desk = "mapping" PROVE First!PlaceInv'
      BY <1>2, <2>8, Nulls, PlaceSteps, First!PlaceInvStep
    <2>9. ASSUME desk = "arranging" PROVE Second!PlaceInv'
      BY <1>2, <2>9, Nulls, PlaceSteps, Second!PlaceInvStep
    <2> HIDE DEF Quotes
    <2> QED BY <1>2, <2>1, <2>2, <2>3, <2>4, <2>5, <2>6, <2>7, <2>8, <2>9, DeskStays
  <1>3. IInv => TypeOK
    <2> SUFFICES ASSUME IInv PROVE TypeOK
      OBVIOUS
    <2>1. /\ desk = "signing" => Signing!TypeOK
          /\ desk = "resetting" => Resetting!TypeOK
          /\ desk = "governing" => Governing!TypeOK
      BY First!AccountTyped, Second!AccountTyped, Third!AccountTyped, SigningTyped,
         ResettingTyped, GoverningTyped
    <2>2. desk = "following" => Following!TypeOK
      BY First!LeadsTyped, FollowingTyped
    <2>3. desk = "entering" => Entering!TypeOK
      BY Second!LeadsTyped, EnteringTyped
    <2>4. desk = "filing" => Filing!TypeOK
      BY First!PapersTyped, FilingTyped
    <2>5. Quoting!TypeOK
      BY First!OfferTyped, QuotingTyped
    <2>6. /\ desk = "mapping" => Mapping!TypeOK
          /\ desk = "arranging" => Arranging!TypeOK
      BY Nulls, First!PlacesRight, Second!PlacesRight, MappingTyped, ArrangingTyped
    <2>7. At
      OBVIOUS
    <2> HIDE DEF IInv
    <2> QED BY <2>1, <2>2, <2>3, <2>4, <2>5, <2>6, <2>7 DEF TypeOK
  <1> QED BY <1>1, <1>2, <1>3, PTL DEF Spec, all
=============================================================================
