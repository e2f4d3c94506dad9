------------------------------ MODULE Estimate ------------------------------
(***************************************************************************)
(* An estimate: from a visitor's configuration and the pricing data to the *)
(* priced lines, their totals and the warnings                             *)
(* (src/packages/calc-engine/src/estimate and variables), with the checks  *)
(* the API makes before it (src/apps/api/src/modules/pricing/estimate).    *)
(*                                                                         *)
(* Amounts are integer cents.  An absent number is 0 where the schema only *)
(* admits positive ones and Missing otherwise; an absent name is None.     *)
(* Ids are unique, so the tables of the pricing data are functions of the  *)
(* id; what is ordered there (rules, package items) is a sequence.  Of a   *)
(* message the code is kept, of a line what a reader of it can tell apart. *)
(***************************************************************************)
EXTENDS Formula

CONSTANTS
    MaxLineCents  \* MAX_LINE_CENTS: no line is dearer

ASSUME MaxLineCentsAssumption == MaxLineCents \in Nat

None == "none"
Missing == -1
NoFormula == [type |-> "None"]
SectionOrder == <<"BASE", "OBJECT", "MATERIALS", "ENGINEERING", "ADDITIONAL">>
Sections == ToSet(SectionOrder)
RateScale == 10000

\* The values of a function and, where it has none, those of another.
f ++ g == [x \in DOMAIN f \cup DOMAIN g |-> IF x \in DOMAIN f THEN f[x] ELSE g[x]]

\* The sum of a sequence of integers.
Total(ints) ==
    LET upTo[n \in 0 .. Len(ints)] == IF n = 0 THEN 0 ELSE upTo[n - 1] + ints[n]
    IN  upTo[Len(ints)]

Map(f(_), seq) == [i \in DOMAIN seq |-> f(seq[i])]
Sum(f(_), seq) == Total(Map(f, seq))
FlatMap(f(_), seq) == FlattenSeq(Map(f, seq))

\* The elements of a sequence that are in a set, and those that pass a test.
Among(seq, kept) == FlatMap(LAMBDA x : IF x \in kept THEN <<x>> ELSE <<>>, seq)
Only(seq, kept(_)) == Among(seq, {x \in ToSet(seq) : kept(x)})

Distinct(seq) == \A i, j \in DOMAIN seq : seq[i] = seq[j] => i = j
IsSequence(seq) == seq \in Seq(ToSet(seq))

-----------------------------------------------------------------------------
(* What the schemas say of the fields that an estimate computes with.      *)

\* ConfigurationSchema.
ConfigurationTyped(c) ==
    /\ c.scope \in {"FULL", "PARTIAL"} /\ c.totalArea \in Nat /\ c.balconyArea \in Nat
    /\ IsSequence(c.rooms) /\ IsSequence(c.options)
    /\ \A room \in ToSet(c.rooms) :
          /\ room.clientId # None
          /\ \A side \in {room.length, room.width, room.height} : side \in Nat
          /\ IsSequence(room.selections)
          /\ \A selection \in ToSet(room.selections) :
                selection.categoryId # None /\ selection.areaShare \in 0 .. 100
    /\ \A selection \in ToSet(c.options) :
          selection.optionId # None /\ selection.quantity \in Nat

Units == {"PIECE", "PROJECT", "ROOM", "ROOM_SQM"}
OptionKinds == {"ENGINEERING", "ADDITIONAL"}
DataFields == {"rate", "limits", "coefficients", "rules", "categories",
               "materialTypes", "products", "packageItems", "options", "roomTypes"}

\* PricingDataSchema.
PricingDataTyped(data) ==
    /\ data = [field \in DataFields |-> data[field]]
    /\ data.rate \in Nat
    /\ \A key \in DOMAIN data.coefficients : data.coefficients[key] \in Int
    /\ IsSequence(data.rules) /\ IsSequence(data.packageItems)
    /\ \A rule \in ToSet(data.rules) : rule.sortOrder \in Int
    /\ \A item \in ToSet(data.packageItems) :
          item.priceCents \in Nat \cup {Missing} /\ item.unit \in Units \cup {None}
    /\ \A id \in DOMAIN data.categories : data.categories[id].wastePercent \in Nat
    /\ \A id \in DOMAIN data.products : LET product == data.products[id] IN
          product.priceCents \in Nat /\ product.wasteOverride \in Nat \cup {Missing}
    /\ data.options = [id \in DOMAIN data.options |-> data.options[id]]
    /\ \A id \in DOMAIN data.options : LET option == data.options[id] IN
          /\ option.kind \in OptionKinds /\ option.unit \in Units
          /\ option.priceCents \in Nat /\ option.minQuantity \in Int
          /\ IsSequence(option.keys)

-----------------------------------------------------------------------------
(* The configuration and the checks before an estimate.                    *)

ConfigurationValid(c) ==
    /\ (c.scope = "FULL") = (c.totalArea # 0)
    /\ Distinct(Map(LAMBDA room : room.clientId, c.rooms))
    /\ \A room \in ToSet(c.rooms) :
          Distinct(Map(LAMBDA selection : selection.categoryId, room.selections))
    /\ Distinct(Map(LAMBDA option : option.optionId, c.options))

Within(value, range) == range[1] <= value /\ value <= range[2]

CheckLimits(c, data) ==
    LET full == c.scope = "FULL" /\ c.totalArea # 0 IN
    /\ full => Within(c.totalArea, data.limits.totalArea)
    /\ Within(c.balconyArea,
              <<0, IF full THEN c.totalArea ELSE data.limits.totalArea[2]>>)
    /\ Within(Len(c.rooms), data.limits.rooms)
    /\ \A room \in ToSet(c.rooms) :
          /\ \A side \in {room.length, room.width} : Within(side, data.limits.side)
          /\ Within(room.height, data.limits.height)
    /\ \A selection \in ToSet(c.options) :
          /\ selection.optionId \in DOMAIN data.options
          /\ data.options[selection.optionId].unit = "PIECE"
          /\ selection.quantity # 0
          => LET option == data.options[selection.optionId] IN
             Within(selection.quantity,
                    <<Max({1, option.minQuantity}),
                      IF option.maxQuantity = 0 THEN MaxNumber
                      ELSE option.maxQuantity>>)

\* tolerant: the policy "unavailable" of a stored configuration, which may refer
\* to what has been deleted since.
UnknownReferences(c, data, tolerant) ==
    \/ \E room \in ToSet(c.rooms) :
          \/ room.roomTypeCode \notin data.roomTypes
          \/ \E selection \in ToSet(room.selections) :
                /\ ~tolerant
                /\ \/ selection.categoryId \notin DOMAIN data.categories
                   \/ /\ selection.productId # None
                      /\ \/ selection.productId \notin DOMAIN data.products
                         \/ data.products[selection.productId].categoryId
                               # selection.categoryId
    \/ \E selection \in ToSet(c.options) :
          \/ ~tolerant /\ selection.optionId \notin DOMAIN data.options
          \/ \E id \in selection.rooms :
                \A room \in ToSet(c.rooms) : room.clientId # id

\* A deleted option of a stored configuration keeps its place as a line.
WithRetiredOptions(c, data, retired) ==
    LET gone == {entry \in retired :
                   /\ entry.id \notin DOMAIN data.options
                   /\ \E s \in ToSet(c.options) : s.optionId = entry.id}
        placeholder(id) ==
            [kind |-> (CHOOSE entry \in gone : entry.id = id).kind,
             priceCents |-> 0, unit |-> "PROJECT", roomTypeCodes |-> {},
             keys |-> <<>>, scopes |-> {"FULL", "PARTIAL"},
             minQuantity |-> 0, maxQuantity |-> 0, available |-> FALSE]
    IN  [data EXCEPT !.options =
            @ ++ [id \in {entry.id : entry \in gone} |-> placeholder(id)]]

-----------------------------------------------------------------------------
(* The variables of the formulas.                                          *)

Perimeter(room) == 2 * (room.length + room.width)
FloorArea(room) == Times(room.length, room.width)
WallArea(room) == Times(Perimeter(room), room.height)
AreaOf(room, surface) == IF surface = "WALLS" THEN WallArea(room) ELSE FloorArea(room)

RoomVariables(room) ==
    [length |-> Num(room.length), width |-> Num(room.width),
     height |-> Num(room.height), floorArea |-> Num(FloorArea(room)),
     perimeter |-> Num(Perimeter(room)), wallArea |-> Num(WallArea(room)),
     heatedFloor |-> Bool(room.heatedFloor), roomType |-> Str(room.roomTypeCode)]

Percent(n) == n * (Scale \div 100)
ProductVariables(priceCents, unit, wastePercent) ==
    [price |-> Num(Percent(priceCents)), waste |-> Num(Percent(wastePercent)),
     unit |-> Str(unit)]

SurfaceOf(categories, id) ==
    IF id \in DOMAIN categories THEN categories[id].surface ELSE "UNKNOWN"

\* The selections with a product that share a surface of the room.
SurfaceSelections(room, surface, categories) ==
    Only(room.selections,
         LAMBDA s : s.productId # None
                    /\ SurfaceOf(categories, s.categoryId) = surface)
SharedSurface(selections) == \E s \in ToSet(selections) : s.areaShare # 0
TotalPercent(selections) == Sum(LAMBDA s : s.areaShare, selections)
AreaShareOf(selection) ==
    IF selection.areaShare = 0 THEN Scale ELSE Percent(selection.areaShare)

\* None, or the code of the error of a selection's share.
AreaShareError(room, selection, categories) ==
    LET surface == SurfaceOf(categories, selection.categoryId)
        shares == SurfaceSelections(room, surface, categories)
    IN  CASE surface = "UNKNOWN" -> None
          [] surface \in {"NONE", "CEILING"} ->
                IF selection.areaShare = 0 THEN None ELSE "AREA_SHARE_NOT_ALLOWED"
          [] OTHER ->
                IF SharedSurface(shares) /\ \E s \in ToSet(shares) : s.areaShare = 0
                THEN "AREA_SHARE_MISSING"
                ELSE IF TotalPercent(shares) > 100 THEN "AREA_SHARE_EXCEEDS_SURFACE"
                ELSE None

PuttyRequiredOn(room, surface, categories) ==
    LET selected == {id \in DOMAIN categories :
                       /\ categories[id].surface = surface
                       /\ \E s \in ToSet(room.selections) : s.categoryId = id}
    IN  selected = {} \/ \E id \in selected : categories[id].requiresPutty

PuttyShareOn(room, surface, categories) ==
    LET shares == SurfaceSelections(room, surface, categories)
        needing == Only(shares, LAMBDA s : categories[s.categoryId].requiresPutty)
    IN  CASE surface = "WALLS" /\ SharedSurface(shares) ->
                Min({Scale, Sum(AreaShareOf, needing)})
          [] OTHER -> IF PuttyRequiredOn(room, surface, categories)
                      THEN Scale ELSE 0

TotalAreaOf(scope, totalArea, roomsFloorArea) ==
    IF scope = "PARTIAL" \/ totalArea = 0 THEN roomsFloorArea ELSE totalArea

CountRooms(rooms, codes) ==
    Num(Scale * Len(Only(rooms, LAMBDA room : room.roomTypeCode \in codes)))

ObjectVariables(c, categories) ==
    LET floor == Sum(FloorArea, c.rooms) IN
    [scope |-> Str(c.scope),
     totalArea |-> Num(TotalAreaOf(c.scope, c.totalArea, floor)),
     balconyArea |-> Num(c.balconyArea), balconyTiles |-> Bool(c.balconyTiles),
     finishLevel |-> Str(c.finishLevel),
     roomsCount |-> CountRooms(c.rooms, {"LIVING_ROOM", "BEDROOM", "KITCHEN_LIVING"}),
     bathroomsCount |-> CountRooms(c.rooms, {"BATHROOM"}),
     roomsFloorArea |-> Num(floor), roomsWallArea |-> Num(Sum(WallArea, c.rooms)),
     roomsPuttyWallArea |->
        Num(Sum(LAMBDA room : Times(WallArea(room),
                                    PuttyShareOn(room, "WALLS", categories)), c.rooms)),
     roomsPerimeter |-> Num(Sum(Perimeter, c.rooms)),
     wetRoomsCount |-> CountRooms(c.rooms, {"BATHROOM", "KITCHEN", "KITCHEN_LIVING"})]

-----------------------------------------------------------------------------
(* Lines.                                                                  *)

\* A line as init leaves it, with the defaults of createLine.
Line(init) ==
    init ++ [status |-> "OK", roomClientId |-> None, categoryId |-> None,
             productId |-> None, optionId |-> None, packageItemId |-> None,
             ruleId |-> None, quantity |-> Missing, amountCents |-> 0,
             components |-> <<>>, warnings |-> {}, error |-> None]
FailedLine(init, status, error) == Line([status |-> status, error |-> error] ++ init)

ToCents(dollars) == (dollars * 100 + Scale \div 2) \div Scale
InRange(dollars) == dollars >= 0 /\ dollars * 100 <= MaxLineCents * Scale
PricedLine(init, dollars) ==
    IF InRange(dollars) THEN Line([amountCents |-> ToCents(dollars)] ++ init)
    ELSE FailedLine(init, "ERROR", "AMOUNT_OUT_OF_RANGE")

\* Rules of the same sort order stay in theirs.
BySortOrder(rules) ==
    LET before(i, j) == \/ rules[i].sortOrder < rules[j].sortOrder
                        \/ rules[i].sortOrder = rules[j].sortOrder /\ i < j
        place(i) == Cardinality({j \in DOMAIN rules : before(j, i)}) + 1
    IN  [n \in DOMAIN rules |-> rules[CHOOSE i \in DOMAIN rules : place(i) = n]]

ObjectRuleLines(c, data, section) ==
    LET rules == BySortOrder(Only(data.rules,
                    LAMBDA r : /\ r.level = "OBJECT"
                               /\ r.baseComponent = (section = "BASE")))
        lineOf(rule, outcome) ==
            LET init == [id |-> <<section, rule.id>>, section |-> section,
                         ruleId |-> rule.id]
            IN  IF Failed(outcome) THEN FailedLine(init, "ERROR", outcome.code)
                ELSE PricedLine(init, outcome.n)
        line(rule) ==
            lineOf(rule, RunNumericFormula(rule.costFormula,
                            [variables |-> ObjectVariables(c, data.categories),
                             coefficients |-> data.coefficients]))
    IN  IF section = "BASE" /\ c.scope # "FULL" THEN <<>>
        ELSE Only(Map(line, rules),
                  LAMBDA l : section # "BASE" \/ l.status # "OK" \/ l.amountCents # 0)

\* The rules that price a product: its material type's before its category's.
SelectRule(data, categoryId, materialTypeId) ==
    Only(data.rules, LAMBDA r : /\ r.level = "MATERIAL_TYPE"
                                /\ r.categoryId = categoryId
                                /\ r.materialTypeId = materialTypeId)
    \o Only(data.rules, LAMBDA r : r.level = "CATEGORY" /\ r.categoryId = categoryId)

WasteOf(product, category) ==
    IF product.wasteOverride = Missing THEN category.wastePercent
    ELSE product.wasteOverride

\* The variables of a selection's formulas: the surface it covers by its share.
SelectionVariables(c, data, room, selection) ==
    LET category == data.categories[selection.categoryId]
        product == data.products[selection.productId]
        covered(surface, area) ==
            Num(IF category.surface = surface
                THEN Times(area, AreaShareOf(selection)) ELSE area)
    IN  [wallArea |-> covered("WALLS", WallArea(room)),
         floorArea |-> covered("FLOOR", FloorArea(room))]
        ++ RoomVariables(room)
        ++ ProductVariables(product.priceCents, product.unit,
                            WasteOf(product, category))
        ++ ObjectVariables(c, data.categories)

\* The components of a material line, each a formula rounded to cents on its own.
Component(kind, rule, cents, sharedWith) ==
    [kind |-> kind, ruleId |-> rule.id, amountCents |-> cents,
     sharedWith |-> sharedWith]
ComponentsTotal(components) == Sum(LAMBDA k : k.amountCents, components)

\* The line of a material from the outcomes of its rule's formulas.
MaterialLineOf(c, rule, init, quantity, cost, labor) ==
    LET components ==
            <<Component("MATERIAL", rule, ToCents(cost.n), None)>>
            \o IF c.scope = "FULL" THEN <<>>
               ELSE <<Component("LABOR", rule, ToCents(labor.n), None)>>
    IN  CASE Failed(quantity) -> FailedLine(init, "ERROR", quantity.code)
          [] ~Failed(quantity) /\ Failed(cost) -> FailedLine(init, "ERROR", cost.code)
          [] ~Failed(quantity) /\ ~Failed(cost) /\ ~InRange(cost.n) ->
                FailedLine(init, "ERROR", "AMOUNT_OUT_OF_RANGE")
          [] ~Failed(quantity) /\ ~Failed(cost) /\ InRange(cost.n) /\ Failed(labor) ->
                FailedLine(init, "ERROR", labor.code)
          [] OTHER ->
                IF ~InRange(labor.n) \/ ComponentsTotal(components) > MaxLineCents
                THEN FailedLine(init, "ERROR", "AMOUNT_OUT_OF_RANGE")
                ELSE Line([quantity |-> quantity.n, components |-> components,
                           amountCents |-> ComponentsTotal(components),
                           warnings |-> init.warnings \cup
                              IF c.scope = "PARTIAL" /\ rule.laborFormula = NoFormula
                              THEN {"LABOR_RATE_MISSING"} ELSE {}] ++ init)

PricedMaterialLine(c, data, variables, rule, init) ==
    LET run(formula, names) ==
            RunNumericFormula(formula, [variables |-> names,
                                        coefficients |-> data.coefficients])
        quantity == run(rule.quantityFormula, variables)
        priced == [quantity |-> quantity] ++ variables
        labored == c.scope = "PARTIAL" /\ rule.laborFormula # NoFormula
    IN  MaterialLineOf(c, rule, init, quantity, run(rule.costFormula, priced),
            IF labored THEN run(rule.laborFormula, priced) ELSE Num(0))

MaterialLine(c, data, room, selection) ==
    LET id == selection.productId
        found == /\ id \in DOMAIN data.products
                 /\ data.products[id].categoryId = selection.categoryId
                 /\ selection.categoryId \in DOMAIN data.categories
                 /\ data.products[id].available
        shareError == AreaShareError(room, selection, data.categories)
        rules == SelectRule(data, selection.categoryId,
                            data.products[id].materialTypeId)
        init == [id |-> <<"MATERIALS", room.clientId, selection.categoryId>>,
                 section |-> "MATERIALS", roomClientId |-> room.clientId,
                 categoryId |-> selection.categoryId, productId |-> id]
        warnings ==
            IF /\ room.heatedFloor
               /\ data.categories[selection.categoryId].surface = "FLOOR"
               /\ ~data.products[id].heatedFloorCompatible
            THEN {"HEATED_FLOOR_INCOMPATIBLE"} ELSE {}
    IN  CASE shareError # None -> FailedLine(init, "ERROR", shareError)
          [] shareError = None /\ ~found ->
                FailedLine(init, "UNAVAILABLE", "PRODUCT_UNAVAILABLE")
          [] OTHER ->
                IF rules = <<>>
                THEN FailedLine([warnings |-> warnings] ++ init,
                                "NOT_CALCULATED", "RULE_NOT_FOUND")
                ELSE PricedMaterialLine(c, data,
                        SelectionVariables(c, data, room, selection), Head(rules),
                        [warnings |-> warnings, ruleId |-> Head(rules).id] ++ init)

-----------------------------------------------------------------------------
(* The preparation of surfaces, in a partial renovation: priced once for a *)
(* room and surface, carried by the first line on it.                      *)

SurfaceRules(data, surface) ==
    BySortOrder(Only(data.rules, LAMBDA r : r.level = "SURFACE" /\ r.surface = surface))

Chargeable(outcome) ==
    IF ~Failed(outcome) /\ ~InRange(outcome.n)
    THEN Failure("AMOUNT_OUT_OF_RANGE") ELSE outcome

PrepOutcome(c, data, room, surface) ==
    LET area == AreaOf(room, surface)
        share == PuttyShareOn(room, surface, data.categories)
    IN  Chargeable(
            RunNumericFormula(Head(SurfaceRules(data, surface)).costFormula,
                [variables |->
                    [surfaceArea |-> Num(area), puttyRequired |-> Bool(share > 0),
                     puttyArea |-> Num(Times(area, share))]
                    ++ RoomVariables(room) ++ ObjectVariables(c, data.categories),
                 coefficients |-> data.coefficients]))

FailedWith(line, error) ==
    FailedLine([id |-> line.id, section |-> line.section,
                roomClientId |-> line.roomClientId, categoryId |-> line.categoryId,
                productId |-> line.productId, ruleId |-> line.ruleId,
                warnings |-> line.warnings], "ERROR", error)

WithComponent(line, component) ==
    LET components == Append(line.components, component) IN
    IF ComponentsTotal(components) > MaxLineCents
    THEN FailedWith(line, "AMOUNT_OUT_OF_RANGE")
    ELSE [line EXCEPT !.components = components,
                      !.amountCents = ComponentsTotal(components)]

\* The lines that are priced on a surface of the room, by their position.
OnSurface(data, lines, surface) ==
    {i \in DOMAIN lines : /\ lines[i].status = "OK"
                          /\ SurfaceOf(data.categories, lines[i].categoryId) = surface}
Carrier(data, lines, surface) == Min(OnSurface(data, lines, surface))

\* Mutant: every line on the surface carries the preparation.
EveryLineCarries(data, lines, surface, i, rule, cents) ==
    Component("PREP", rule, cents, None)

PrepComponent(data, lines, surface, i, rule, cents) ==
    LET carrier == Carrier(data, lines, surface) IN
    IF i = carrier THEN Component("PREP", rule, cents, None)
    ELSE Component("PREP", rule, 0, lines[carrier].categoryId)

PreparedLine(c, data, room, lines, i) ==
    LET surface == SurfaceOf(data.categories, lines[i].categoryId)
        rule == Head(SurfaceRules(data, surface))
        prepared(outcome) ==
            IF Failed(outcome) THEN FailedWith(lines[i], outcome.code)
            ELSE WithComponent(lines[i],
                    PrepComponent(data, lines, surface, i, rule, ToCents(outcome.n)))
    IN  CASE \/ lines[i].status # "OK"
             \/ surface \in {"NONE", "UNKNOWN"}
             \/ SurfaceRules(data, surface) = <<>> -> lines[i]
          [] OTHER -> prepared(PrepOutcome(c, data, room, surface))

\* The lines of a room, before and after the preparation of its surfaces.
PickedIn(room) == Only(room.selections, LAMBDA s : s.productId # None)
RoomLines(c, data, room) ==
    Map(LAMBDA s : MaterialLine(c, data, room, s), PickedIn(room))
SurfacePrep(c, data, room, lines) ==
    IF c.scope = "FULL" THEN lines
    ELSE [i \in DOMAIN lines |-> PreparedLine(c, data, room, lines, i)]
PreparedLines(c, data, room) ==
    SurfacePrep(c, data, room, RoomLines(c, data, room))

MaterialLines(c, data) ==
    FlatMap(LAMBDA room : PreparedLines(c, data, room), c.rooms)

-----------------------------------------------------------------------------
(* Package items and options.                                              *)

UnitQuantity(unit, rooms, pieces) ==
    CASE unit = "PIECE" -> pieces * Scale
      [] unit = "PROJECT" -> Scale
      [] unit = "ROOM" -> Len(rooms) * Scale
      [] unit = "ROOM_SQM" -> Sum(FloorArea, rooms)

PackageLine(c, item) ==
    LET init == [id |-> <<"ENGINEERING", "package", item.id>>,
                 section |-> "ENGINEERING", packageItemId |-> item.id]
        quantity == UnitQuantity(item.unit, c.rooms, 1)
    IN  CASE item.includedInBase -> Line([status |-> "INCLUDED"] ++ init)
          [] ~item.includedInBase /\ (item.priceCents = Missing \/ item.unit = None) ->
                FailedLine(init, "NOT_CALCULATED", "PACKAGE_ITEM_PRICE_MISSING")
          [] OTHER -> PricedLine([quantity |-> quantity] ++ init,
                                 Times(Percent(item.priceCents), quantity))

\* The price of an option in dollars: its own, or the sum of its coefficients.
KeysKnown(option, coefficients) ==
    \A key \in ToSet(option.keys) : key \in DOMAIN coefficients
OptionDollars(option, coefficients) ==
    IF option.keys = <<>> THEN Percent(option.priceCents)
    ELSE Sum(LAMBDA key : coefficients[key], option.keys)

OptionLine(c, option, selection, coefficients) ==
    LET init == [id |-> <<option.kind, "option", selection.optionId>>,
                 section |-> option.kind, optionId |-> selection.optionId]
        chosen == Only(c.rooms, LAMBDA room : room.clientId \in selection.rooms)
        allowed == Only(chosen, LAMBDA room : \/ option.roomTypeCodes = {}
                                              \/ room.roomTypeCode \in option.roomTypeCodes)
        pieces == IF selection.quantity # 0 THEN selection.quantity
                  ELSE Max({1, option.minQuantity})
        quantity == UnitQuantity(option.unit, allowed, pieces)
        unitCents == ToCents(OptionDollars(option, coefficients))
    IN  CASE c.scope \notin option.scopes ->
                FailedLine(init, "UNAVAILABLE", "OPTION_SCOPE_NOT_ALLOWED")
          [] c.scope \in option.scopes /\ ~option.available ->
                FailedLine(init, "UNAVAILABLE", "PRODUCT_UNAVAILABLE")
          [] c.scope \in option.scopes /\ option.available
                /\ ~KeysKnown(option, coefficients) ->
                FailedLine(init, "ERROR", "UNKNOWN_COEFFICIENT")
          [] OTHER ->
                IF ~InRange(OptionDollars(option, coefficients))
                THEN FailedLine(init, "ERROR", "AMOUNT_OUT_OF_RANGE")
                ELSE PricedLine([quantity |-> quantity,
                                 warnings |-> IF chosen = allowed THEN {}
                                    ELSE {"OPTION_ROOM_TYPE_NOT_ALLOWED"}] ++ init,
                                Times(Percent(unitCents), quantity))

OptionLines(c, data, kind) ==
    Map(LAMBDA s : OptionLine(c, data.options[s.optionId], s, data.coefficients),
        Only(c.options, LAMBDA s : /\ s.optionId \in DOMAIN data.options
                                   /\ data.options[s.optionId].kind = kind))

EngineeringLines(c, data) ==
    (IF c.scope = "PARTIAL" THEN <<>>
     ELSE Map(LAMBDA item : PackageLine(c, item), data.packageItems))
    \o OptionLines(c, data, "ENGINEERING")

-----------------------------------------------------------------------------
(* Totals, warnings and the estimate.                                      *)

\* Mutant: the fraction of a kopeck is dropped.
ConvertDown(cents, rate) == (cents * rate) \div RateScale

ConvertCentsToKopecks(cents, rate) == (cents * rate + RateScale \div 2) \div RateScale

WithKopecks(line, rate) ==
    line ++ [amountUahKopecks |->
                IF rate = 0 THEN Missing
                ELSE ConvertCentsToKopecks(line.amountCents, rate)]

SumTotal(lines, rate) ==
    [usdCents |-> Sum(LAMBDA l : l.amountCents, lines),
     uahKopecks |-> IF rate = 0 THEN Missing
                    ELSE Sum(LAMBDA l : l.amountUahKopecks, lines)]

ComputeTotals(lines, rate) ==
    [sections |-> [section \in Sections |->
        SumTotal(Only(lines, LAMBDA l : l.section = section), rate)]]
    ++ SumTotal(lines, rate)

RoomsAreaWarnings(c, data) ==
    LET rooms == Sum(FloorArea, c.rooms) IN
    CASE c.scope # "FULL" -> {}
      [] c.scope = "FULL" /\ rooms > c.totalArea -> {"ROOMS_AREA_EXCEEDS_TOTAL"}
      [] OTHER -> IF c.totalArea - rooms > data.limits.missingAreaHint
                  THEN {"ROOMS_AREA_BELOW_TOTAL"} ELSE {}

\* The surfaces of a room of which its shares leave a part over, and that part.
PartlyShared(room, categories) ==
    {surface \in {"WALLS", "FLOOR"} :
        LET shares == SurfaceSelections(room, surface, categories) IN
        /\ SharedSurface(shares)
        /\ \A share \in ToSet(shares) : share.areaShare # 0
        /\ TotalPercent(shares) < 100}

AreaShareWarnings(c, categories) ==
    UNION {{<<room.clientId, surface, 100 - TotalPercent(
                 SurfaceSelections(room, surface, categories))>> :
              surface \in PartlyShared(room, categories)} : room \in ToSet(c.rooms)}

EstimateWarnings(c, data) ==
    RoomsAreaWarnings(c, data)
    \cup (IF c.currency = "UAH" /\ data.rate = 0 THEN {"EXCHANGE_RATE_UNAVAILABLE"}
          ELSE {})

EstimateLines(c, data) ==
    Map(LAMBDA line : WithKopecks(line, data.rate),
        ObjectRuleLines(c, data, "BASE") \o ObjectRuleLines(c, data, "OBJECT")
        \o MaterialLines(c, data) \o EngineeringLines(c, data)
        \o OptionLines(c, data, "ADDITIONAL"))

IsIncomplete(lines) ==
    \E line \in ToSet(lines) : line.status \in {"ERROR", "NOT_CALCULATED"}

WithTotals(c, data, lines) ==
    [lines |-> lines, totals |-> ComputeTotals(lines, data.rate),
     warnings |-> EstimateWarnings(c, data),
     unallocated |-> AreaShareWarnings(c, data.categories),
     incomplete |-> IsIncomplete(lines)]

EstimateOf(c, data) == WithTotals(c, data, EstimateLines(c, data))
=============================================================================
