--------------------------- MODULE SavedEstimates ---------------------------
(***************************************************************************)
(* Saved estimates over changing prices: a visitor saves a configuration   *)
(* as a snapshot of the estimate, recalculates it from any version, and    *)
(* asks whether its prices still hold, while administrators save rules and *)
(* change the catalog                                                      *)
(* (src/apps/api/src/modules/projects/snapshot, price-status.service.ts,   *)
(* src/apps/api/src/modules/pricing/rules).                                *)
(*                                                                         *)
(* A pricing is what the database holds: a dataset and the rule saved over *)
(* it.  DataOf gives the pricing data that PricingDataService builds from  *)
(* it; the content hash that names a version of the data is taken to be    *)
(* injective, so a pricing names its data.  The estimates are priced with  *)
(* `cached`, which follows the database with a delay (PricingDataCache).   *)
(*                                                                         *)
(* Abstractions: the row lock and the numbering of versions are checked in *)
(* ProjectWrites, the coefficients' locks in Coefficients.  The style, the *)
(* language and the texts of names are left out; a name is there or not.   *)
(***************************************************************************)
EXTENDS RuleEditing

CONSTANTS
    Datasets,        \* names of what the catalog and the prices can be
    Dataset(_),      \* the pricing data of a name, without the saved rule
    Configurations,  \* what visitors ask for
    RuleInputs,      \* the rules administrators submit
    Patches,         \* the changes they submit to a saved rule
    CacheLimit,      \* CACHE_LIMIT of PriceStatusService
    MaxVersions,     \* bound: versions of a calculation
    MaxChanges,      \* bound: changes of the catalog and the rules
    Lasting,         \* bound: configurations saved after a change, or used again
    Home,            \* bound: the dataset over which rules are saved, before
                     \* there are versions
    FollowedRules    \* bound: saved rules (or NoRule) with which versions are used again

ASSUME BoundsAssumption == CacheLimit \in Nat \ {0} /\ MaxChanges \in Nat

\* What reaches an estimate has satisfied its schema.
ASSUME SchemasAssumption ==
    /\ \A c \in Configurations : ConfigurationTyped(c)
    /\ \A name \in Datasets : PricingDataTyped(Dataset(name))

\* Room types are renamed and linked to categories, never created or deleted.
ASSUME RoomTypesAssumption ==
    \A a, b \in Datasets : Dataset(a).roomTypes = Dataset(b).roomTypes

\* The program gives a rule its id and its place; a patch names neither.
ASSUME RulesAssumption ==
    /\ \A name \in Datasets : Distinct(Map(LAMBDA rule : rule.id, Dataset(name).rules))
    /\ \A input \in RuleInputs :
          /\ {"id", "sortOrder"} \cup FormulaFields \subseteq DOMAIN input
          /\ input.sortOrder \in Int /\ FormulasWritten(input)
          /\ \A name \in Datasets : \A rule \in ToSet(Dataset(name).rules) :
                rule.id # input.id
    /\ \A patch \in Patches :
          /\ {"id", "sortOrder"} \cap DOMAIN patch = {}
          /\ \A field \in FormulaFields \cap DOMAIN patch :
                patch[field] \in Trees
                   \cup IF field = "costFormula" THEN {} ELSE {NoFormula}

\* The rules of a dataset were accepted with its coefficients, and what a rule or
\* an option needs of them is not deleted (Coefficients, UsedKeysExist).
ASSUME AcceptanceAssumption ==
    \A name \in Datasets : LET data == Dataset(name) IN
        /\ \A rule \in ToSet(data.rules) :
              /\ FormulasWritten(rule)
              /\ CheckFormulas(rule, DOMAIN data.coefficients).errors = {}
        /\ \A id \in DOMAIN data.options :
              KeysKnown(data.options[id], data.coefficients)

VARIABLES
    catalog,   \* the pricing in the database
    cached,    \* the pricing PricingDataService answers with
    versions,  \* the stored versions, oldest first
    statuses,  \* the cache of price statuses, least recently used first
    asked,     \* the request for a price status that was not in the cache
    answer,    \* the price status given in the last step, or Nothing
    changes    \* how many changes there were

vars == <<catalog, cached, versions, statuses, asked, answer, changes>>

NoRule == [level |-> None]
Nothing == [version |-> 0]

-----------------------------------------------------------------------------
(* The pricing data of a pricing.                                          *)

\* A rule whose target was deleted stays in its table and is not read.
Targeted(rule, data) ==
    /\ rule.categoryId = None \/ rule.categoryId \in DOMAIN data.categories
    /\ rule.materialTypeId = None \/ rule.materialTypeId \in data.materialTypes

\* Mismatched formulas are filtered out too, before the schema would refuse them.
Counted(rule) == Priced(rule.level) = (rule.quantityFormula # NoFormula)

SavedRules(pricing) == IF pricing.rule = NoRule THEN <<>> ELSE <<pricing.rule>>

DataOf(pricing) ==
    LET data == Dataset(pricing.dataset) IN
    [data EXCEPT !.rules = Only(@ \o SavedRules(pricing),
                                LAMBDA rule : Targeted(rule, data) /\ Counted(rule))]

Current == DataOf(cached)

-----------------------------------------------------------------------------
(* Snapshots.                                                              *)

RetiredOptionsOf(lines) ==
    {[id |-> line.optionId, kind |-> line.section] :
       line \in {l \in ToSet(lines) : l.optionId # None}}

\* The estimate of a configuration whose version, if it has one, had these lines.
Recalculated(c, data, lines) ==
    EstimateOf(c, WithRetiredOptions(c, data, RetiredOptionsOf(lines)))

\* What the lines name: <<kind, id>>.
Mentioned(lines) ==
    UNION {{<<"product", l.productId>>, <<"category", l.categoryId>>,
            <<"option", l.optionId>>} : l \in ToSet(lines)}

\* What the catalog has a name for, published or not.
Known(pricing) ==
    LET data == Dataset(pricing.dataset) IN
    ({"product"} \X DOMAIN data.products) \cup ({"category"} \X DOMAIN data.categories)
    \cup ({"option"} \X DOMAIN data.options)

\* Mutant: a name is only taken from the catalog.
NamesNow(lines, previous) == Mentioned(lines) \cap Known(catalog)

Names(lines, previous) == Mentioned(lines) \cap (Known(catalog) \cup previous)

Snapshot(c, estimate, previousNames, base) ==
    [configuration |-> c, pricing |-> cached, estimate |-> estimate,
     names |-> Names(estimate.lines, previousNames), base |-> base]

Init ==
    /\ catalog \in [dataset : Datasets, rule : {NoRule}]
    /\ cached = catalog
    /\ versions = <<>>
    /\ statuses = <<>>
    /\ asked = Nothing
    /\ answer = Nothing
    /\ changes = 0

\* Bound: the versions that are recalculated and asked for.
Followed(version) ==
    version.configuration \in Lasting /\ catalog.rule \in FollowedRules

\* prepareNew and persistNew.
Save(c) ==
    /\ versions = <<>>
    /\ changes = 0 \/ c \in Lasting  \* bound
    /\ ConfigurationValid(c)
    /\ ~UnknownReferences(c, Current, FALSE)
    /\ CheckLimits(c, Current)
    /\ \E estimate \in {EstimateOf(c, Current)} :
          /\ \E line \in ToSet(estimate.lines) : line.amountCents > 0
          /\ versions' = <<Snapshot(c, estimate, {}, 0)>>
    /\ answer' = Nothing
    /\ UNCHANGED <<catalog, cached, statuses, asked, changes>>

Recalculate(base) ==
    LET previous == versions[base]
        c == previous.configuration
        lines == previous.estimate.lines
    IN  /\ Followed(previous) /\ Len(versions) < MaxVersions  \* bounds
        /\ ~UnknownReferences(c, WithRetiredOptions(c, Current,
                                     RetiredOptionsOf(lines)), TRUE)
        /\ versions' = Append(versions,
              Snapshot(c, Recalculated(c, Current, lines), previous.names, base))
        /\ answer' = Nothing
        /\ UNCHANGED <<catalog, cached, statuses, asked, changes>>

-----------------------------------------------------------------------------
(* The price status of a version.                                          *)

Fresh(v) ==
    [changed |-> FALSE, total |-> versions[v].estimate.totals.usdCents,
     unavailable |-> {}, pricing |-> versions[v].pricing]

LineIds(lines, status) ==
    {l.id : l \in {line \in ToSet(lines) : line.status = status}}

\* The status of a version against a pricing; NoStatus when it cannot be priced.
NoStatus == [pricing |-> Nothing]

Difference(version, now, pricing) ==
    LET unavailable == LineIds(now.lines, "UNAVAILABLE")
                          \ LineIds(version.estimate.lines, "UNAVAILABLE")
    IN  [changed |-> \/ now.totals.usdCents # version.estimate.totals.usdCents
                     \/ unavailable # {},
         total |-> now.totals.usdCents, unavailable |-> unavailable,
         pricing |-> pricing]

Evaluate(v, pricing) ==
    LET version == versions[v]
        c == version.configuration
        lines == version.estimate.lines
    IN  IF UnknownReferences(c, WithRetiredOptions(c, DataOf(pricing),
                                    RetiredOptionsOf(lines)), TRUE)
        THEN NoStatus
        ELSE Difference(version, Recalculated(c, DataOf(pricing), lines), pricing)

Answer(v, status) == [version |-> v, status |-> status]
Entry(v, pricing, status) == [key |-> <<v, pricing>>, status |-> status]
KeyIs(key, entry) == entry.key = key
Without(key) == Only(statuses, LAMBDA entry : ~KeyIs(key, entry))

\* Mutant: no entry ever leaves the cache.
RememberedForEver(entry) == Append(Without(entry.key), entry)

\* recall and remember: the entry moves to the end, the oldest leaves a full cache.
Remembered(entry) ==
    LET entries == Append(Without(entry.key), entry) IN
    IF Len(entries) > CacheLimit THEN Tail(entries) ELSE entries

\* Mutant: the status is stored under the pricing that was looked up.
LookupKey(lookedUp, status) == lookedUp

\* The pricing of the key under which an evaluation is stored.
CacheKey(lookedUp, status) ==
    IF status = NoStatus THEN lookedUp ELSE status.pricing

\* current: compare the version with the pricing data, then look into the cache.
AskStatus(v) ==
    LET hits == Only(statuses, LAMBDA entry : KeyIs(<<v, cached>>, entry)) IN
    /\ Followed(versions[v])  \* bound
    /\ asked = Nothing
    /\ CASE versions[v].pricing = cached ->
                /\ answer' = Answer(v, Fresh(v))
                /\ UNCHANGED <<statuses, asked>>
         [] versions[v].pricing # cached /\ hits # <<>> ->
                /\ answer' = Answer(v, Head(hits).status)
                /\ statuses' = Remembered(Head(hits))
                /\ UNCHANGED asked
         [] OTHER ->
                /\ asked' = [version |-> v, lookedUp |-> cached]
                /\ answer' = Nothing
                /\ UNCHANGED statuses
    /\ UNCHANGED <<catalog, cached, versions, changes>>

\* evaluate: the pricing data are asked for again, and may have changed.
AnswerStatus ==
    /\ asked # Nothing
    /\ \E status \in {Evaluate(asked.version, cached)} :
          /\ answer' = Answer(asked.version, status)
          /\ statuses' = Remembered(
                Entry(asked.version, CacheKey(asked.lookedUp, status), status))
    /\ asked' = Nothing
    /\ UNCHANGED <<catalog, cached, versions, changes>>

\* The pricing data cannot be read: no status, and nothing is remembered.
StatusUnavailable ==
    /\ asked # Nothing
    /\ answer' = Answer(asked.version, NoStatus)
    /\ asked' = Nothing
    /\ UNCHANGED <<catalog, cached, versions, statuses, changes>>

-----------------------------------------------------------------------------
(* Administrators.                                                         *)

RuleKeys(rule) ==
    IF rule = NoRule THEN {}
    ELSE CheckFormulas(rule, DOMAIN Dataset(catalog.dataset).coefficients)
            .coefficientKeys

Change ==
    /\ changes < MaxChanges  \* bound
    /\ changes' = changes + 1
    /\ answer' = Nothing

\* The catalog, the prices or the coefficients change; a coefficient that a
\* rule uses is not deleted (Coefficients, UsedKeysExist).
ChangeDataset(name) ==
    /\ Change
    /\ name # catalog.dataset
    /\ RuleKeys(catalog.rule) \subseteq DOMAIN Dataset(name).coefficients
    /\ catalog' = [catalog EXCEPT !.dataset = name]
    /\ UNCHANGED <<cached, versions, statuses, asked>>

\* The formulas, as RulesService.assertFormulasValid sees them.
FormulasValid(rule) ==
    CheckFormulas(rule, DOMAIN Dataset(catalog.dataset).coefficients).errors = {}

CreateRule(input) ==
    LET data == Dataset(catalog.dataset) IN
    /\ catalog.dataset = Home /\ versions = <<>>  \* bounds
    /\ Change
    /\ catalog.rule = NoRule
    /\ ~RuleShapeIssues(input)
    /\ Targeted(input, data)
    /\ FormulasValid(input)
    /\ \A rule \in ToSet(data.rules) : ~SameTarget(rule, input)
    /\ catalog' = [catalog EXCEPT !.rule = input]
    /\ UNCHANGED <<cached, versions, statuses, asked>>

PatchRule(patch) ==
    LET rule == PatchOf(catalog.rule, patch) IN
    /\ catalog.dataset = Home /\ versions = <<>>  \* bounds
    /\ Change
    /\ catalog.rule # NoRule
    /\ ~RuleShapeIssues(rule)
    /\ FormulasValid(rule)
    /\ catalog' = [catalog EXCEPT !.rule = rule]
    /\ UNCHANGED <<cached, versions, statuses, asked>>

\* PricingDataService builds its data again (PricingDataCache), which fails
\* when a rule does not parse.
Refresh ==
    /\ cached # catalog
    /\ \A rule \in ToSet(DataOf(catalog).rules) : RuleParses(rule)
    /\ cached' = catalog
    /\ answer' = Nothing
    /\ UNCHANGED <<catalog, versions, statuses, asked, changes>>

Next ==
    \/ \E c \in Configurations : Save(c)
    \/ \E v \in DOMAIN versions : Recalculate(v) \/ AskStatus(v)
    \/ AnswerStatus \/ StatusUnavailable
    \/ \E name \in Datasets : ChangeDataset(name)
    \/ \E input \in RuleInputs : CreateRule(input)
    \/ \E patch \in Patches : PatchRule(patch)
    \/ Refresh

Spec == Init /\ [][Next]_vars

-----------------------------------------------------------------------------
(* Properties.                                                             *)

\* Every state is well typed: a version descends from an older one, prices are
\* not negative, and the cache of price statuses keeps within its limit with one
\* entry a key.
TypeOK ==
    /\ \A v \in DOMAIN versions :
          /\ versions[v].base \in 0 .. v - 1
          /\ versions[v].names \subseteq Mentioned(versions[v].estimate.lines)
          /\ \A line \in ToSet(versions[v].estimate.lines) :
                line.amountCents \in 0 .. MaxLineCents
    /\ Len(statuses) <= CacheLimit
    /\ Distinct(Map(LAMBDA entry : entry.key, statuses))
    /\ {v \in {asked.version, answer.version} : v # 0} \subseteq DOMAIN versions
    /\ changes \in 0 .. MaxChanges

HasStrayString(rule) ==
    \E f \in FormulasOf(rule) : f[2] # NoFormula /\ StrayString[f[2]]

FormulaErrors == {"TYPE_MISMATCH", "UNKNOWN_VARIABLE", "UNKNOWN_COEFFICIENT",
                  "UNKNOWN_FUNCTION", "FORMULA_SYNTAX", "FORMULA_TOO_COMPLEX"}

\* A rule that was accepted never fails in an estimate for what the check of its
\* formulas is there to find: after any later change of the catalog, lines only
\* fail for their numbers (a division by zero, a negative or infinite result, an
\* amount out of range).  Stray strings are the one exception
\* (formula/validate.ts, inferBinary, against formula/evaluate.ts, walk).
AcceptedRulesEvaluate ==
    \A v \in DOMAIN versions :
        \/ \A line \in ToSet(versions[v].estimate.lines) :
              line.error \notin FormulaErrors
        \/ \E rule \in ToSet(DataOf(versions[v].pricing).rules) : HasStrayString(rule)

\* Whatever is created or patched through the API satisfies the schema of the
\* pricing data: no accepted rule can keep every estimate from being made
\* (rule-input.schema.ts against PricingRuleSchema).
AcceptedRulesParse ==
    \A rule \in ToSet(SavedRules(catalog)) : RuleParses(rule)

PrepOf(line) == Only(line.components, LAMBDA k : k.kind = "PREP")

\* Materials that share a surface of a room pay for its preparation once: one
\* line carries it, the others name the carrier's category and pay nothing for
\* it.  It is missing only from an estimate that says that it is incomplete.
PreparationOnce ==
    \A v \in DOMAIN versions : LET estimate == versions[v].estimate IN
        \A one \in ToSet(estimate.lines) : PrepOf(one) # <<>> =>
            LET categories == DataOf(versions[v].pricing).categories
                beside == {line \in ToSet(estimate.lines) :
                             /\ line.section = "MATERIALS" /\ line.status = "OK"
                             /\ line.roomClientId = one.roomClientId
                             /\ SurfaceOf(categories, line.categoryId)
                                  = SurfaceOf(categories, one.categoryId)}
                carriers == {line \in beside : \E k \in ToSet(PrepOf(line)) :
                                                  k.sharedWith = None}
            IN  /\ \A line \in beside : Len(PrepOf(line)) = 1
                /\ \A line \in beside \ carriers : PrepOf(line)[1].amountCents = 0
                /\ \/ \E carrier \in carriers :
                          /\ carriers = {carrier}
                          /\ \A line \in beside \ carriers :
                                PrepOf(line)[1].sharedWith = carrier.categoryId
                   \/ carriers = {} /\ estimate.incomplete

Distance(a, b) == IF a < b THEN b - a ELSE a - b

\* The sections of an estimate add up to its total in both currencies, a line
\* with components to its components, what failed costs nothing, and the total in
\* hryvnias is within half a kopeck a line of the total in dollars.
TotalsAddUp ==
    \A v \in DOMAIN versions :
        LET estimate == versions[v].estimate
            totals == estimate.totals
            rate == DataOf(versions[v].pricing).rate
        IN  /\ totals.usdCents = Sum(LAMBDA s : totals.sections[s].usdCents, SectionOrder)
            /\ \A line \in ToSet(estimate.lines) :
                  /\ line.status # "OK" => line.amountCents = 0
                  /\ line.components # <<>>
                     => line.amountCents = ComponentsTotal(line.components)
            /\ IF rate = 0 THEN totals.uahKopecks = Missing
               ELSE /\ totals.uahKopecks =
                          Sum(LAMBDA s : totals.sections[s].uahKopecks, SectionOrder)
                    /\ 2 * Distance(RateScale * totals.uahKopecks,
                                    rate * totals.usdCents)
                       <= RateScale * Len(estimate.lines)

-----------------------------------------------------------------------------
(* The preview against the estimate.                                       *)

\* The sample an administrator would enter for a line of an estimate.
SampleOf(c, data, line) ==
    LET room == CHOOSE r \in ToSet(c.rooms) : r.clientId = line.roomClientId
        value(name) == ObjectVariables(c, data.categories)[name].n
        object == [scope |-> c.scope, totalArea |-> c.totalArea,
                   balconyArea |-> c.balconyArea, balconyTiles |-> c.balconyTiles,
                   finishLevel |-> c.finishLevel,
                   roomsCount |-> value("roomsCount"),
                   bathroomsCount |-> value("bathroomsCount"),
                   roomsFloorArea |-> value("roomsFloorArea"),
                   roomsWallArea |-> value("roomsWallArea"),
                   roomsPuttyWallArea |-> value("roomsPuttyWallArea"),
                   roomsPerimeter |-> value("roomsPerimeter"),
                   wetRoomsCount |-> value("wetRoomsCount")]
        product == data.products[line.productId]
    IN  IF line.productId = None THEN [object |-> object]
        ELSE [object |-> object, room |-> room,
              product |-> [priceCents |-> product.priceCents, unit |-> product.unit,
                           wastePercent |-> WasteOf(product,
                                               data.categories[line.categoryId])]]

Shares(c, line) ==
    \E room \in ToSet(c.rooms) : \E selection \in ToSet(room.selections) :
        /\ room.clientId = line.roomClientId
        /\ selection.categoryId = line.categoryId
        /\ selection.areaShare # 0

AmountOf(line, kind) ==
    Sum(LAMBDA k : k.amountCents, Only(line.components, LAMBDA k : k.kind = kind))

ShowsLine(c, line, shown) ==
    IF line.productId = None
    THEN shown = Shown(Missing, line.amountCents, Missing, None)
    ELSE /\ shown.quantity = line.quantity
         /\ shown.amountCents = AmountOf(line, "MATERIAL")
         /\ c.scope = "PARTIAL" =>
               /\ shown.error = None
               /\ Max({shown.laborCents, 0}) = AmountOf(line, "LABOR")

\* The preview tells an administrator what the estimate will do: for the room,
\* the product and the object of a line that covers its surface alone, it shows
\* the quantity, the amount and the labor of that line.
PreviewAgrees ==
    \A v \in DOMAIN versions :
        LET c == versions[v].configuration
            data == DataOf(versions[v].pricing)
        IN  \A line \in ToSet(versions[v].estimate.lines) :
              /\ line.status = "OK" /\ line.ruleId # None /\ ~Shares(c, line)
              => LET rule == CHOOSE r \in ToSet(data.rules) : r.id = line.ruleId
                 IN  ShowsLine(c, line, PreviewRule(rule, SampleOf(c, data, line),
                                                    data.coefficients))

-----------------------------------------------------------------------------
(* Versions and price statuses.                                            *)

Chosen(lines, field) == {line[field] : line \in ToSet(lines)} \ {None}

\* A recalculation keeps what the visitor chose, though it may have been deleted
\* since: every product and option of the version it starts from has a line
\* again, under the name it had.
SelectionsKept ==
    \A v \in DOMAIN versions : versions[v].base # 0 =>
        LET base == versions[versions[v].base] IN
        /\ \A field \in {"productId", "optionId"} :
              Chosen(base.estimate.lines, field)
                 \subseteq Chosen(versions[v].estimate.lines, field)
        /\ \A name \in base.names : name \in Mentioned(versions[v].estimate.lines)
                                     => name \in versions[v].names

\* A price status, given or cached, is what an estimate with the pricing it names
\* gives; the short cut for a version of the current pricing is one of them.
PriceStatusTruthful ==
    /\ \A entry \in ToSet(statuses) :
          entry.status = Evaluate(entry.key[1], entry.key[2])
    /\ answer # Nothing /\ answer.status # NoStatus
       => answer.status = Evaluate(answer.version, answer.status.pricing)
=============================================================================
