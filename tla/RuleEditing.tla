---------------------------- MODULE RuleEditing ----------------------------
(***************************************************************************)
(* What an administrator may save as a pricing rule, and what the preview  *)
(* of a rule shows before it is saved (src/apps/api/src/modules/pricing/   *)
(* rules and src/packages/calc-engine/src/formula/preview.ts).             *)
(*                                                                         *)
(* A rule is a record of its level, its target (categoryId, materialTypeId *)
(* or surface), baseComponent and three formulas; what is absent is None,  *)
(* an absent formula is NoFormula.                                         *)
(***************************************************************************)
EXTENDS Estimate

-----------------------------------------------------------------------------
(* The shape of a rule: three places say which fields a level has.         *)

\* Each pair: whether the level needs the field, and whether it is there.
ExpectedFields(rule) ==
    {<<Priced(rule.level), rule.categoryId # None>>,
     <<rule.level = "MATERIAL_TYPE", rule.materialTypeId # None>>,
     <<rule.level = "SURFACE", rule.surface # None>>}

FormulaShapeIssues(rule) ==
    \/ Priced(rule.level) # (rule.quantityFormula # NoFormula)
    \/ ~Priced(rule.level) /\ rule.laborFormula # NoFormula

\* Mutant: the shape of the formulas is left to their static check.
TargetIssues(rule) == \E field \in ExpectedFields(rule) : field[1] # field[2]

RuleShapeIssues(rule) ==
    \/ \E field \in ExpectedFields(rule) : field[1] # field[2]
    \/ rule.level # "OBJECT" /\ rule.baseComponent
    \/ FormulaShapeIssues(rule)

\* PricingRuleSchema, which the pricing data have to satisfy before any estimate.
RuleParses(rule) ==
    /\ Priced(rule.level) = (rule.quantityFormula # NoFormula)
    /\ (rule.level = "SURFACE") = (rule.surface # None)
    /\ rule.level = "SURFACE" => rule.categoryId = None
    /\ rule.baseComponent => rule.level = "OBJECT"
    /\ rule.laborFormula # NoFormula => Priced(rule.level)

-----------------------------------------------------------------------------
(* The static check of a rule's formulas.                                  *)

FormulaFields == {"quantityFormula", "costFormula", "laborFormula"}

\* What a rule has for formulas (rule-input.schema.ts).
FormulasWritten(rule) ==
    /\ rule.costFormula \in Trees
    /\ {rule.quantityFormula, rule.laborFormula} \subseteq Trees \cup {NoFormula}

FormulasOf(rule) ==
    {<<"quantity", rule.quantityFormula>>, <<"cost", rule.costFormula>>,
     <<"labor", rule.laborFormula>>}

CheckFormulas(rule, keys) ==
    LET results == {ValidateFormula(f[2], [level |-> rule.level, kind |-> f[1],
                                           keys |-> keys]) :
                      f \in {g \in FormulasOf(rule) : g[2] # NoFormula}}
    IN  [coefficientKeys |-> UNION {r.coefficientKeys : r \in results},
         errors |-> UNION {r.errors : r \in results}]

\* A patch names the fields it changes; the level and the target stay.
PatchOf(rule, patch) == [f \in DOMAIN rule |-> IF f \in DOMAIN patch
                                               THEN patch[f] ELSE rule[f]]

SameTarget(a, b) ==
    /\ a.level # "OBJECT" /\ a.level = b.level
    /\ IF a.level = "SURFACE" THEN a.surface = b.surface
       ELSE a.categoryId = b.categoryId /\ a.materialTypeId = b.materialTypeId

-----------------------------------------------------------------------------
(* The preview.  A sample has an object and, where it is given, a room, a  *)
(* product, a surfaceArea, puttyRequired and puttyArea.                    *)

Has(sample, field) == field \in DOMAIN sample

\* Mutant: the preview takes the total area as it is given.
TotalAreaAsGiven(object) == object.totalArea

SampleTotalArea(object) ==
    TotalAreaOf(object.scope, object.totalArea, object.roomsFloorArea)

ObjectScope(object) ==
    [scope |-> Str(object.scope),
     totalArea |-> Num(SampleTotalArea(object)),
     balconyArea |-> Num(object.balconyArea),
     balconyTiles |-> Bool(object.balconyTiles),
     finishLevel |-> Str(object.finishLevel),
     roomsCount |-> Num(object.roomsCount),
     bathroomsCount |-> Num(object.bathroomsCount),
     roomsFloorArea |-> Num(object.roomsFloorArea),
     roomsWallArea |-> Num(object.roomsWallArea),
     roomsPuttyWallArea |-> Num(IF Has(object, "roomsPuttyWallArea")
                                THEN object.roomsPuttyWallArea
                                ELSE object.roomsWallArea),
     roomsPerimeter |-> Num(object.roomsPerimeter),
     wetRoomsCount |-> Num(object.wetRoomsCount)]

SurfaceScope(sample) ==
    LET putty == ~Has(sample, "puttyRequired") \/ sample.puttyRequired IN
    [surfaceArea |-> Num(sample.surfaceArea), puttyRequired |-> Bool(putty),
     puttyArea |-> Num(CASE Has(sample, "puttyArea") -> sample.puttyArea
                         [] ~Has(sample, "puttyArea") /\ putty -> sample.surfaceArea
                         [] OTHER -> 0)]

SampleComplete(level, sample) ==
    \/ level = "OBJECT"
    \/ level = "SURFACE" /\ Has(sample, "room") /\ Has(sample, "surfaceArea")
    \/ Priced(level) /\ Has(sample, "room") /\ Has(sample, "product")

ScopeOf(level, sample) ==
    CASE level = "OBJECT" -> ObjectScope(sample.object)
      [] level = "SURFACE" ->
            RoomVariables(sample.room) ++ ObjectScope(sample.object)
               ++ SurfaceScope(sample)
      [] OTHER ->
            RoomVariables(sample.room) ++ ObjectScope(sample.object)
               ++ ProductVariables(sample.product.priceCents, sample.product.unit,
                                   sample.product.wastePercent)

Shown(quantity, amount, labor, error) ==
    [quantity |-> quantity, amountCents |-> amount, laborCents |-> labor,
     error |-> error]

\* What the outcomes of the formulas show; raw is the quantity's.
ShownOf(rule, raw, cost, labor) ==
    LET counted == rule.quantityFormula # NoFormula
        quantity == IF counted THEN raw.n ELSE Missing
    IN  CASE counted /\ Failed(raw) -> Shown(Missing, Missing, Missing, raw.code)
          [] ~(counted /\ Failed(raw)) /\ Failed(cost) ->
                Shown(quantity, Missing, Missing, cost.code)
          [] ~(counted /\ Failed(raw)) /\ ~Failed(cost) /\ ~InRange(cost.n) ->
                Shown(quantity, Missing, Missing, "AMOUNT_OUT_OF_RANGE")
          [] OTHER ->
                CASE ~counted \/ rule.laborFormula = NoFormula ->
                        Shown(quantity, ToCents(cost.n), Missing, None)
                  [] counted /\ rule.laborFormula # NoFormula /\ Failed(labor) ->
                        Shown(quantity, ToCents(cost.n), Missing, labor.code)
                  [] OTHER ->
                        IF ~InRange(labor.n)
                        THEN Shown(quantity, ToCents(cost.n), Missing,
                                   "AMOUNT_OUT_OF_RANGE")
                        ELSE Shown(quantity, ToCents(cost.n), ToCents(labor.n), None)

PreviewRule(rule, sample, coefficients) ==
    LET variables == ScopeOf(rule.level, sample)
        run(formula, names) ==
            RunNumericFormula(formula, [variables |-> names,
                                        coefficients |-> coefficients])
        counted == rule.quantityFormula # NoFormula
        priced(raw) ==
            LET names == IF counted THEN [quantity |-> raw] ++ variables
                         ELSE variables
            IN  ShownOf(rule, raw, run(rule.costFormula, names),
                        run(rule.laborFormula, names))
    IN  CASE counted # Priced(rule.level) ->
                Shown(Missing, Missing, Missing, "QUANTITY_FORMULA_MISMATCH")
          [] counted = Priced(rule.level) /\ ~SampleComplete(rule.level, sample) ->
                Shown(Missing, Missing, Missing, "SAMPLE_INCOMPLETE")
          [] OTHER -> priced(run(rule.quantityFormula, variables))
=============================================================================
