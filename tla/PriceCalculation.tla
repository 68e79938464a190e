--------------------------- MODULE PriceCalculation ---------------------------
(***************************************************************************)
(* services/quotations.py, calculate_cost_sheet: the price of a unit under *)
(* the rules of a price list, line by line.                                *)
(*                                                                         *)
(* An amount is an integer number of cents, a percentage a whole number.   *)
(* What may be missing (an area, a base price, a limit) is a set with at   *)
(* most one element, and so is every result: the empty set is a request    *)
(* the code refuses.                                                       *)
(***************************************************************************)
EXTENDS Integers, Sequences, FiniteSets, SequencesExt

Category == {"BASE_PRICE", "UNIT_ADJUSTMENT", "FLOOR_RISE", "PREMIUM", "PARKING", "AMENITY",
             "CHARGE", "TAX", "DISCOUNT"}
LineRow == [category: Category, amount: Int, taxable: BOOLEAN]

(* A line's category decides which taxes it bears.                         *)
Line(category, amount, taxable) ==
    [category |-> category, amount |-> amount, taxable |-> taxable]

(* ROUND_HALF_UP, away from zero.                                          *)
Rounded(n, d) == IF n >= 0 THEN (2 * n + d) \div (2 * d) ELSE -((d - 2 * n) \div (2 * d))
Percent(amount, rate) == Rounded(amount * rate, 100)

Added(numbers) == FoldLeft(+, 0, numbers)
Total(lines) == Added([i \in DOMAIN lines |-> lines[i].amount])

(* Lines of nothing are left out.                                          *)
AddLine(lines, line) == IF line.amount = 0 THEN lines ELSE Append(lines, line)
AddLines(lines, more) == FoldLeft(AddLine, lines, more)

(* The override of the price list before the unit's own price before the   *)
(* rate for its area.                                                      *)
BasePrices(rules, unit) ==
    LET override == UNION {o.base : o \in rules.overrides[unit.number]}
    IN  CASE override # {} -> override
          [] override = {} /\ unit.base # {} -> unit.base
          [] OTHER -> {rate * area : rate \in rules.rate, area \in unit.area}

Adjustment(rules, unit) ==
    unit.adjustment + FoldSet(LAMBDA o, sum : sum + o.adjustment, 0, rules.overrides[unit.number])

Matches(rule, unit) == rule.facing \in {"any", unit.facing}

LineAmounts(rule, unit, basis) ==
    CASE rule.calculation = "fixed" -> {rule.value}
      [] rule.calculation = "per_sqft" -> {area * rule.value : area \in unit.area}
      [] rule.calculation = "percentage" -> {Percent(basis, rule.value)}

(* One more rule applied, to as many as were asked for, on the basis of    *)
(* everything priced so far.                                               *)
Charge(prices, category, rule, quantity, unit) ==
    UNION {{AddLine(lines, Line(category, amount * quantity, rule.taxable)) :
               amount \in LineAmounts(rule, unit, Total(lines))} : lines \in prices}

(* Per floor from the first that rises, an amount or a rate for the area.  *)
FloorRise(prices, rules, unit) ==
    LET rising == {rise \in rules.floor_rise : unit.floor >= rise.start}
    IN  IF rising = {} THEN prices
        ELSE UNION {Charge(prices, "FLOOR_RISE", rise, unit.floor - rise.start + 1, unit) :
                       rise \in rising}

ChargeAll(prices, category, charged, unit) ==
    FoldLeft(LAMBDA p, rule : Charge(p, category, rule, 1, unit), prices, charged)

(* Every code of a request must be configured.                             *)
Chosen(options, codes) ==
    IF ToSet(codes) \subseteq DOMAIN options
    THEN {[i \in DOMAIN codes |-> options[codes[i]]]} ELSE {}

ChargeParking(prices, rules, request, unit) ==
    IF \A i \in DOMAIN request.parking : request.parking[i].code \in DOMAIN rules.parking
    THEN FoldLeft(LAMBDA p, sel : Charge(p, "PARKING", rules.parking[sel.code], sel.quantity, unit),
                  prices, request.parking)
    ELSE {}

ChargeAmenities(prices, rules, request, unit) ==
    UNION {ChargeAll(prices, "AMENITY", charged, unit) :
              charged \in Chosen(rules.amenities, request.amenities)}

Premiums(rules, request, unit) ==
    SelectSeq(rules.premiums, LAMBDA rule :
        Matches(rule, unit) /\ (rule.optional => rule.code \in request.premiums))

(* Optional charges are in no price: no request can choose them.           *)
Charges(rules, unit) ==
    SelectSeq(rules.charges, LAMBDA rule : ~rule.optional /\ Matches(rule, unit))

(* The priced lines before taxes and discount.                             *)
Gross(rules, unit, request) ==
    LET base     == {AddLine(<<Line("BASE_PRICE", price, TRUE)>>,
                             Line("UNIT_ADJUSTMENT", Adjustment(rules, unit), TRUE)) :
                        price \in BasePrices(rules, unit)}
        risen    == FloorRise(base, rules, unit)
        premium  == ChargeAll(risen, "PREMIUM", Premiums(rules, request, unit), unit)
        parking  == ChargeParking(premium, rules, request, unit)
        amenity  == ChargeAmenities(parking, rules, request, unit)
    IN  ChargeAll(amenity, "CHARGE", Charges(rules, unit), unit)

Bears(line, tax) == line.taxable /\ (tax.applies_to = {} \/ line.category \in tax.applies_to)

TaxAmount(lines, tax) ==
    Percent(Added([i \in DOMAIN lines |-> IF Bears(lines[i], tax) THEN lines[i].amount ELSE 0]),
            tax.rate)

TaxLines(lines, rules) == [i \in DOMAIN rules.taxes |->
                              Line("TAX", TaxAmount(lines, rules.taxes[i]), FALSE)]

(* The discount asked for, or what a final value leaves of the calculated *)
(* one; never more than that.                                              *)
Discounts(request, value) ==
    {d \in IF request.final = {} THEN {request.discount} ELSE {value - f : f \in request.final} :
        0 <= d /\ d <= value}

(* A discount policy's percentages have four decimals.                     *)
Decimals == 10000
DiscountPercent(discount, value) ==
    IF value = 0 THEN 0 ELSE Rounded(discount * 100 * Decimals, value)

(* The levels of the approval matrix that cover a discount: at most one,   *)
(* for they do not overlap, and none where they leave a gap.              *)
Levels(rules, percent) ==
    {level \in rules.levels :
        /\ level.minimum <= percent
        /\ \A maximum \in level.maximum : percent <= maximum}

BookingAmounts(rules, request, final) ==
    IF request.booking # {} THEN request.booking
    ELSE {IF rule.calculation = "fixed" THEN rule.value ELSE Percent(final, rule.value) :
             rule \in rules.booking}

(* mutant: the limit is taken in whole percents *)
NeedsApproval_WholePercents(rules, discount, percent) ==
    discount > 0 /\ Decimals * (percent \div Decimals) > rules.limit

NeedsApproval(rules, discount, percent) == discount > 0 /\ percent > rules.limit

AllowedDiscounts(rules, request, value) ==
    {d \in Discounts(request, value) :
        LET percent == DiscountPercent(d, value) IN
        /\ \A maximum \in rules.maximum : percent <= maximum
        /\ NeedsApproval(rules, d, percent) => Levels(rules, percent) # {}}

(* A cost sheet: its figures, and the lines it shows for them.             *)
Sheet(gross, taxes, d, booking) ==
    [gross    |-> Total(gross),
     tax      |-> Total(taxes),
     discount |-> d,
     percent  |-> DiscountPercent(d, Total(gross) + Total(taxes)),
     final    |-> Total(gross) + Total(taxes) - d,
     booking  |-> booking,
     lines    |-> AddLines(gross, Append(taxes, Line("DISCOUNT", -d, FALSE)))]

CostSheets(rules, unit, request) ==
    UNION {LET taxes == TaxLines(gross, rules)
               value == Total(gross) + Total(taxes)
           IN  UNION {{Sheet(gross, taxes, d, booking) :
                          booking \in {b \in BookingAmounts(rules, request, value - d) :
                                          b <= value - d}} :
                      d \in AllowedDiscounts(rules, request, value)} :
           gross \in {g \in Gross(rules, unit, request) : Total(g) >= 0}}

(* Amounts are whole numbers of cents, and percentages whole numbers.      *)
WholeCents(rules, unit, request) ==
    /\ Gross(rules, unit, request) \subseteq Seq(LineRow)
    /\ rules.taxes \in Seq([rate: Nat, applies_to: SUBSET Category])
    /\ rules.limit \in Nat
    /\ request.discount \in Int /\ request.final \subseteq Int
=============================================================================
