------------------------------ MODULE Quotations ------------------------------
(***************************************************************************)
(* services/quotations.py: price lists and their rules, the cost sheets    *)
(* priced under them, the approval of discounts, and the versions of a     *)
(* quotation up to its acceptance.                                         *)
(*                                                                         *)
(* An action is one request, at its commit.  A row a handler locks is      *)
(* current when it is looked at; a price list is read plainly by a cost    *)
(* sheet, so it is taken from the read view v of the transaction.          *)
(***************************************************************************)
EXTENDS PriceCalculation

CONSTANTS
    PriceList,  \* identities for price lists
    CostSheet,  \* identities for cost sheets
    Quote,      \* identities for quotation versions
    User,
    Managers,   \* the users with quotations.manage
    RoleOf,     \* the role of each user
    RuleSets,   \* pricing rules a price list may be given
    Requests,   \* the units and selections a cost sheet may be asked for
    Windows     \* where a new list's effective dates may lie

ListStatus == {"NONE", "DRAFT", "ACTIVE", "INACTIVE", "ARCHIVED", "DELETED"}
CostSheetStatus == {"NONE", "PENDING_APPROVAL", "APPROVED", "REJECTED", "CONVERTED"}
QuotationStatus == {"NONE", "DRAFT", "SENT", "ACCEPTED", "REJECTED", "EXPIRED", "SUPERSEDED"}
ApprovalStatus == {"NONE", "PENDING", "APPROVED", "REJECTED"}
Window == {"future", "current", "past"}

VARIABLES
    list,      \* price_lists
    sheet,     \* cost_sheets with their cost_sheet_items
    approval,  \* discount_approvals, one for each cost sheet that needs it
    quote,     \* quotations with their quotation_items
    old        \* read views of requests that began some time ago

vars == <<list, sheet, approval, quote, old>>

Views == {list} \cup old

NoSheet == [status |-> "NONE"]
NoApproval == [status |-> "NONE"]
NoQuote == [status |-> "NONE"]

Sheets == {s \in CostSheet : sheet[s].status # "NONE"}
Quotes == {q \in Quote : quote[q].status # "NONE"}

TypeOK ==
    /\ \A l \in PriceList : /\ list[l].status \in ListStatus
                            /\ list[l].rules \in RuleSets
                            /\ list[l].window \in Window
    /\ \A s \in CostSheet : /\ sheet[s].status \in CostSheetStatus
                            /\ approval[s].status \in ApprovalStatus
    /\ \A s \in Sheets :
          /\ sheet[s].list \in PriceList /\ sheet[s].request \in Requests
          /\ sheet[s].creator \in User
          /\ (sheet[s].status = "PENDING_APPROVAL") <=> (approval[s].status = "PENDING")
    /\ \A q \in Quote : quote[q].status \in QuotationStatus
    /\ \A q \in Quotes : quote[q].sheet \in Sheets /\ quote[q].number \in Quotes

Init ==
    /\ list = [l \in PriceList |->
                  [status |-> "NONE", rules |-> CHOOSE r \in RuleSets : TRUE, window |-> "past"]]
    /\ sheet = [s \in CostSheet |-> NoSheet]
    /\ approval = [s \in CostSheet |-> NoApproval]
    /\ quote = [q \in Quote |-> NoQuote]
    /\ old = {}

(* A request begins, and lets others go first.                             *)
Begin ==
    /\ old' = {list}
    /\ UNCHANGED <<list, sheet, approval, quote>>

-----------------------------------------------------------------------------
(* Price lists.                                                            *)

SetList(l, row) ==
    /\ list' = [list EXCEPT ![l] = row]
    /\ UNCHANGED <<sheet, approval, quote, old>>

CreatePriceList(l, rules, window) ==
    /\ list[l].status = "NONE"
    /\ SetList(l, [status |-> "DRAFT", rules |-> rules, window |-> window])

(* mutant: a list that is not in use can be edited *)
UpdatePriceList_NotActive(l, rules, window) ==
    /\ list[l].status \in {"DRAFT", "INACTIVE"}
    /\ SetList(l, [list[l] EXCEPT !.rules = rules, !.window = window])

UpdatePriceList(l, rules, window) ==
    /\ list[l].status = "DRAFT"
    /\ SetList(l, [list[l] EXCEPT !.rules = rules, !.window = window])

ListMoves == [DRAFT    |-> {"ACTIVE", "ARCHIVED"},
              ACTIVE   |-> {"INACTIVE", "ARCHIVED"},
              INACTIVE |-> {"ACTIVE", "ARCHIVED"}]

ChangePriceListStatus(l, target) ==
    /\ list[l].status \in DOMAIN ListMoves
    /\ target \in ListMoves[list[l].status]
    /\ SetList(l, [list[l] EXCEPT !.status = target])

(* The foreign key of its cost sheets would refuse it, but a draft has none. *)
DeletePriceList(l) ==
    /\ list[l].status = "DRAFT"
    /\ \A s \in Sheets : sheet[s].list # l
    /\ SetList(l, [list[l] EXCEPT !.status = "DELETED"])

(* Days pass.                                                              *)
ListAges(l) ==
    /\ list[l].status \in DOMAIN ListMoves /\ list[l].window # "past"
    /\ SetList(l, [list[l] EXCEPT !.window = IF @ = "future" THEN "current" ELSE "past"])

-----------------------------------------------------------------------------
(* Cost sheets and the approval of their discounts.                        *)

Effective(row) == row.status = "ACTIVE" /\ row.window = "current"

PriceOf(s) == sheet[s].price
LevelFor(rules, price) == CHOOSE level \in Levels(rules, price.percent) : TRUE

CreateCostSheet(v, s, l, request, user) ==
    /\ sheet[s].status = "NONE"
    /\ Effective(v[l])
    /\ \E price \in CostSheets(v[l].rules, request.unit, request) :
          LET needed == NeedsApproval(v[l].rules, price.discount, price.percent)
          IN  /\ sheet' = [sheet EXCEPT ![s] =
                     [status |-> IF needed THEN "PENDING_APPROVAL" ELSE "APPROVED",
                      list |-> l, request |-> request, price |-> price, creator |-> user]]
              /\ approval' = [approval EXCEPT ![s] =
                     IF needed
                     THEN [status |-> "PENDING", requester |-> user,
                           users |-> LevelFor(v[l].rules, price).users,
                           roles |-> LevelFor(v[l].rules, price).roles]
                     ELSE NoApproval]
    /\ UNCHANGED <<list, quote, old>>

MayDecide(s, user) ==
    /\ user # approval[s].requester
    /\ \/ user \in approval[s].users
       \/ RoleOf[user] \in approval[s].roles
       \/ user \in Managers

DecideDiscount(s, user, verdict) ==
    /\ approval[s].status = "PENDING"
    /\ MayDecide(s, user)
    /\ approval' = [approval EXCEPT ![s] = [status |-> verdict, requester |-> @.requester,
                                            users |-> @.users, roles |-> @.roles,
                                            approver |-> user]]
    /\ sheet' = [sheet EXCEPT ![s].status = verdict]
    /\ UNCHANGED <<list, quote, old>>

-----------------------------------------------------------------------------
(* Quotations.                                                             *)

(* An item carries its line's amount, except a discount's, which is kept   *)
(* apart.  The database refuses a negative total, and with it the whole    *)
(* quotation of a unit priced below its base.                              *)
Item(line) ==
    [discount |-> IF line.category = "DISCOUNT" THEN -line.amount ELSE 0,
     total    |-> IF line.category = "DISCOUNT" THEN 0 ELSE line.amount]

(* mutant: a discount's item counts it in its total as well *)
Item_Discounted(line) ==
    [discount |-> IF line.category = "DISCOUNT" THEN -line.amount ELSE 0,
     total    |-> IF line.amount < 0 THEN -line.amount ELSE line.amount]

Versions(q) == {p \in Quotes : quote[p].number = quote[q].number}

QuotationRow(s, number, version, parent) ==
    [status |-> "DRAFT", number |-> number, version |-> version, parent |-> parent,
     sheet |-> s, total |-> PriceOf(s).final,
     items |-> [i \in DOMAIN PriceOf(s).lines |-> Item(PriceOf(s).lines[i])]]

CreateQuotationRecord(q, s, row, others) ==
    /\ quote[q].status = "NONE"
    /\ \A i \in DOMAIN row.items : row.items[i].total >= 0
    /\ quote' = [others EXCEPT ![q] = row]
    /\ sheet' = [sheet EXCEPT ![s].status = "CONVERTED"]
    /\ UNCHANGED <<list, approval, old>>

(* A new quotation's number is its own.                                    *)
CreateQuotation(q, s) ==
    /\ sheet[s].status = "APPROVED"
    /\ CreateQuotationRecord(q, s, QuotationRow(s, q, 1, q), quote)

(* mutant: only what was not sent yet is superseded *)
Superseded_Drafts(source) ==
    [p \in Quote |-> IF p \in Versions(source) /\ quote[p].status = "DRAFT"
                     THEN [quote[p] EXCEPT !.status = "SUPERSEDED"] ELSE quote[p]]

Superseded(source) ==
    [p \in Quote |-> IF p \in Versions(source) /\ quote[p].status \notin {"ACCEPTED", "REJECTED"}
                     THEN [quote[p] EXCEPT !.status = "SUPERSEDED"] ELSE quote[p]]

NewestVersion(source) == CHOOSE n \in {quote[p].version : p \in Versions(source)} :
                            \A p \in Versions(source) : quote[p].version <= n

(* Only the version it is made from must not have been accepted.           *)
CreateQuotationVersion(q, source, s) ==
    /\ source \in Quotes
    /\ quote[source].status # "ACCEPTED"
    /\ sheet[s].status = "APPROVED"
    /\ sheet[s].request.unit = sheet[quote[source].sheet].request.unit
    /\ sheet[s].request.customer = sheet[quote[source].sheet].request.customer
    /\ CreateQuotationRecord(q, s, QuotationRow(s, quote[source].number,
                                                NewestVersion(source) + 1, source),
                             Superseded(source))

SetQuote(q, row) ==
    /\ quote' = [quote EXCEPT ![q] = row]
    /\ UNCHANGED <<list, sheet, approval, old>>

QuoteMoves == [DRAFT |-> {"SENT", "EXPIRED"}, SENT |-> {"ACCEPTED", "REJECTED", "EXPIRED"}]

(* The date a quotation is valid until decides nothing here.               *)
ChangeQuotationStatus(q, target) ==
    /\ quote[q].status \in DOMAIN QuoteMoves
    /\ target \in QuoteMoves[quote[q].status]
    /\ SetQuote(q, [quote[q] EXCEPT !.status = target])

-----------------------------------------------------------------------------
ListStep ==
    \/ \E l \in PriceList, rules \in RuleSets, w \in Windows :
          CreatePriceList(l, rules, w) \/ UpdatePriceList(l, rules, w)
    \/ \E l \in PriceList, target \in ListStatus : ChangePriceListStatus(l, target)
    \/ \E l \in PriceList : DeletePriceList(l) \/ ListAges(l)

SheetStep ==
    \/ \E v \in Views, s \in CostSheet, l \in PriceList, request \in Requests, user \in User :
          CreateCostSheet(v, s, l, request, user)
    \/ \E s \in CostSheet, user \in User, verdict \in {"APPROVED", "REJECTED"} :
          DecideDiscount(s, user, verdict)

QuoteStep ==
    \/ \E q \in Quote, s \in CostSheet : CreateQuotation(q, s)
    \/ \E q, source \in Quote, s \in CostSheet : CreateQuotationVersion(q, source, s)
    \/ \E q \in Quote, target \in QuotationStatus : ChangeQuotationStatus(q, target)

Next == Begin \/ ListStep \/ SheetStep \/ QuoteStep

Spec == Init /\ [][Next]_vars

-----------------------------------------------------------------------------
(* Properties.                                                             *)

(* Cost sheets freeze the rules: whatever read view a price was calculated *)
(* in, it is the price its list's rules give, then and ever after, and it  *)
(* adds up - the lines of the sheet to its final value, the items of its   *)
(* quotation, less their discounts, to the total quoted.                   *)
PricesStand ==
    /\ \A s \in Sheets :
          /\ PriceOf(s) \in CostSheets(list[sheet[s].list].rules, sheet[s].request.unit,
                                    sheet[s].request)
          /\ Total(PriceOf(s).lines) = PriceOf(s).final
    /\ \A q \in Quotes :
          LET items == quote[q].items
          IN  Added([i \in DOMAIN items |-> items[i].total])
                - Added([i \in DOMAIN items |-> items[i].discount]) = quote[q].total

(* A discount above what its list lets a seller give is quoted only after  *)
(* somebody else - of the level that covers it, or a manager - approved.   *)
DiscountsVouched ==
    \A q \in Quotes :
        LET s == quote[q].sheet
            p == PriceOf(s)
            rules == list[sheet[s].list].rules
            percent == DiscountPercent(p.discount, p.final + p.discount)
        IN  percent > rules.limit =>
               /\ approval[s].status = "APPROVED"
               /\ approval[s].approver # sheet[s].creator
               /\ \/ approval[s].approver \in Managers
                  \/ \E level \in Levels(rules, percent) :
                        \/ approval[s].approver \in level.users
                        \/ RoleOf[approval[s].approver] \in level.roles

(* One offer at a time: of the versions of a quotation, whoever made them  *)
(* from whichever, only the newest is still open.                          *)
OneOpen ==
    \A q, p \in Quotes :
        /\ p # q
        /\ p \in Versions(q)
        => /\ quote[p].version # quote[q].version
           /\ quote[q].status \in {"DRAFT", "SENT"} => quote[p].version < quote[q].version
=============================================================================
