-------------------------- MODULE MCSavedEstimates --------------------------
(***************************************************************************)
(* An instance of SavedEstimates: one or two rooms of 2 m x 3 m x 2 m,     *)
(* five coverings, three options, five datasets.  Numbers are thousandths, *)
(* small enough for TLC's integers.                                        *)
(***************************************************************************)
EXTENDS SavedEstimates

N(n) == Literal(Num(n * 1000))
S(s) == Literal(Str(s))
V(name) == Identifier(name)
K(key) == Member(V("coef"), key)
F(fn, args) == Call(V(fn), args)

WithWaste(area) == Binary("*", V(area), Binary("+", N(1), V("waste")))
Price == Binary("*", V("quantity"), V("price"))

Rule(id, level, cost) ==
    [id |-> id, level |-> level, categoryId |-> None, materialTypeId |-> None,
     surface |-> None, baseComponent |-> FALSE, quantityFormula |-> NoFormula,
     costFormula |-> cost, laborFormula |-> NoFormula, sortOrder |-> 0]
CategoryRule(id, category, quantity, labor) ==
    [Rule(id, "CATEGORY", Price) EXCEPT !.categoryId = category,
        !.quantityFormula = quantity, !.laborFormula = labor]

-----------------------------------------------------------------------------
(* Datasets.                                                               *)

Rules ==
    <<[Rule("shell", "OBJECT", Binary("*", V("totalArea"), K("k1")))
          EXCEPT !.baseComponent = TRUE],
      [Rule("balcony", "OBJECT",
            Binary("+", Binary("*", V("balconyArea"), N(2)),
                   Conditional(V("balconyTiles"), N(5), N(0))))
          EXCEPT !.sortOrder = 1],
      CategoryRule("tiles", "tiles", WithWaste("floorArea"),
                   Binary("*", V("quantity"), N(3))),
      CategoryRule("paint", "paint", WithWaste("wallArea"), NoFormula),
      [CategoryRule("panel", "panel", V("wallArea"), V("roomsPuttyWallArea"))
          EXCEPT !.level = "MATERIAL_TYPE", !.materialTypeId = "mv"],
      [Rule("walls", "SURFACE",
            Binary("+", Binary("*", V("puttyArea"), N(4)),
                   Conditional(V("puttyRequired"), N(10), N(1))))
          EXCEPT !.surface = "WALLS"]>>

Category(surface, waste, putty) ==
    [surface |-> surface, wastePercent |-> waste, requiresPutty |-> putty]
Product(category, mt, cents) ==
    [categoryId |-> category, materialTypeId |-> mt, priceCents |-> cents,
     unit |-> "SQM", wasteOverride |-> Missing, heatedFloorCompatible |-> TRUE,
     available |-> TRUE]
Option(kind, cents, unit) ==
    [kind |-> kind, priceCents |-> cents, unit |-> unit, roomTypeCodes |-> {},
     keys |-> <<>>, scopes |-> {"FULL", "PARTIAL"}, minQuantity |-> 0,
     maxQuantity |-> 0, available |-> TRUE]

Plain ==
    [rate |-> 15005,
     limits |-> [totalArea |-> <<5000, 50000>>, rooms |-> <<1, 2>>,
                 side |-> <<1000, 4000>>, height |-> <<2000, 3000>>,
                 missingAreaHint |-> 5000],
     coefficients |-> [k1 |-> 1100, k2 |-> 500],
     rules |-> Rules,
     categories |-> [tiles |-> Category("FLOOR", 10, TRUE),
                     paint |-> Category("WALLS", 5, TRUE),
                     panel |-> Category("WALLS", 0, FALSE),
                     door |-> Category("NONE", 0, TRUE)],
     materialTypes |-> {"mt", "mv"},
     products |-> [tile1 |-> Product("tiles", "mt", 1255),
                   tile2 |-> [Product("tiles", "mv", 999) EXCEPT
                                 !.wasteOverride = 20,
                                 !.heatedFloorCompatible = FALSE],
                   paint1 |-> Product("paint", "mt", 333),
                   panel1 |-> Product("panel", "mv", 500),
                   door1 |-> [Product("door", "mt", 2001) EXCEPT !.unit = "PIECE"]],
     packageItems |->
        <<[id |-> "doors", includedInBase |-> TRUE, priceCents |-> Missing, unit |-> None],
          [id |-> "wires", includedInBase |-> FALSE, priceCents |-> 105,
           unit |-> "ROOM_SQM"],
          [id |-> "pipes", includedInBase |-> FALSE, priceCents |-> Missing,
           unit |-> "ROOM"]>>,
     options |-> [ac |-> [Option("ENGINEERING", 701, "PIECE") EXCEPT
                             !.minQuantity = 2, !.maxQuantity = 3],
                  sauna |-> [Option("ADDITIONAL", 0, "ROOM") EXCEPT
                                !.keys = <<"k1">>, !.roomTypeCodes = {"BATHROOM"},
                                !.scopes = {"PARTIAL"}],
                  smart |-> Option("ADDITIONAL", 50, "ROOM_SQM")],
     roomTypes |-> {"BATHROOM", "BEDROOM"}]

Drop(f, ids) == [id \in DOMAIN f \ ids |-> f[id]]

DatasetNames == {"plain", "prices", "gone", "dear"}
TheDataset(name) ==
    CASE name = "plain" -> Plain
      [] name = "prices" ->
            [Plain EXCEPT !.rate = 0, !.products["tile1"].priceCents = 1300,
                          !.categories["paint"].requiresPutty = FALSE,
                          !.products["paint1"].priceCents = 1800,
                          !.options["ac"].kind = "ADDITIONAL"]
      [] name = "gone" ->
            [Plain EXCEPT !.coefficients = [k1 |-> 1100],
                          !.products = Drop(@, {"paint1"}),
                          !.options = Drop(@, {"smart", "ac"})]
      [] name = "dear" ->
            [Plain EXCEPT !.products["paint1"].priceCents = 3000,
                          !.products["tile1"].available = FALSE]

-----------------------------------------------------------------------------
(* Configurations.                                                         *)

Selection(category, product, share) ==
    [categoryId |-> category, productId |-> product, areaShare |-> share]
Pick(optionId, quantity, rooms) ==
    [optionId |-> optionId, quantity |-> quantity, rooms |-> rooms]
Room(id, code, heated, selections) ==
    [clientId |-> id, roomTypeCode |-> code, length |-> 2000, width |-> 3000,
     height |-> 2000, heatedFloor |-> heated, selections |-> selections]
Configuration(scope, area, rooms, options) ==
    [scope |-> scope, finishLevel |-> "ROUGH", totalArea |-> area,
     balconyArea |-> 1000, balconyTiles |-> TRUE, rooms |-> rooms,
     options |-> options, currency |-> "UAH"]

Tiles(product) == Selection("tiles", product, 0)
Walls(paint, panel) ==
    <<Selection("paint", "paint1", paint), Selection("panel", "panel1", panel)>>
AllSelections ==
    {<<>>, <<Tiles("tile1")>>, <<Tiles("tile2"), Selection("paint", "paint1", 0)>>,
     <<Selection("door", "door1", 50)>>, <<Selection("paint", "paint1", 60)>>,
     <<Selection("door", "door1", 0), Selection("panel", "panel1", 0)>>,
     <<Selection("tiles", "paint1", 0)>>, <<Selection("tiles", None, 0)>>}
    \cup {Walls(s, t) : s \in {0, 60}, t \in {0, 40, 70}}

AllOptions ==
    {<<>>, <<Pick("ac", 0, {}), Pick("smart", 0, {"r1"})>>,
     <<Pick("ac", 3, {}), Pick("sauna", 0, {"r1", "r2"})>>,
     <<Pick("ac", 1, {})>>, <<Pick("smart", 0, {"r3"})>>}

Rooms(heated, selections) ==
    <<Room("r1", "BATHROOM", heated, selections), Room("r2", "BEDROOM", FALSE, <<>>)>>

LastingConfigurations ==
    {Configuration("PARTIAL", 0, Rooms(TRUE, Append(Walls(60, 40), Tiles("tile1"))),
        <<Pick("ac", 0, {}), Pick("smart", 0, {"r1"})>>),
     Configuration("FULL", 20000,
        Rooms(TRUE, <<Tiles("tile1"), Selection("door", "door1", 0)>>),
        <<Pick("ac", 2, {}), Pick("smart", 0, {"r1"})>>),
     Configuration("PARTIAL", 0, Rooms(FALSE,
        <<Selection("door", "door1", 0), Selection("paint", "paint1", 0)>>), <<>>)}

AllConfigurations ==
    LastingConfigurations \cup
    {Configuration(sa[1], sa[2], Rooms(heated, selections), options) :
       sa \in {<<"FULL", 20000>>, <<"FULL", 10000>>, <<"PARTIAL", 0>>},
       heated \in BOOLEAN, selections \in AllSelections, options \in AllOptions}

-----------------------------------------------------------------------------
(* Rules.                                                                  *)

\* The formulas an administrator tries: numbers, names of every level, the
\* coefficient that can go, and what the check has to refuse.
Tests == {V("heatedFloor"), V("balconyTiles"), V("puttyRequired"), V("wallArea"),
          Binary("<", V("totalArea"), N(10)), Unary("!", V("heatedFloor")),
          Binary("==", V("roomType"), S("BATHROOM")),
          Binary("==", S("PARTIAL"), V("scope")),
          Binary("!=", V("finishLevel"), S("FINE")),
          Binary("==", V("roomType"), V("scope")),
          Binary("==", V("roomType"), N(1)),
          Binary("==", V("totalArea"), S("FULL")),
          Binary("&&", V("balconyTiles"), Binary(">", V("balconyArea"), N(1))),
          Binary("||", V("balconyTiles"), V("wetRoomsCount")),
          Binary("==", Conditional(V("balconyTiles"), S("a"), S("b")),
                 Conditional(V("balconyTiles"), S("a"), S("b")))}
Formulas ==
    {Conditional(test, K("k2"), N(1)) : test \in Tests}
    \cup {Conditional(V("balconyTiles"), N(1), K("k2")),
          Conditional(V("balconyTiles"), N(1), S("FULL")),
          Conditional(V("balconyTiles"), N(1), V("scope")),
          Conditional(V("balconyTiles"), N(1), K("k3")),
          N(3), S("FULL"), V("scope"), V("price"), V("quantity"), V("surfaceArea"),
          V("roomsCount"), V("balconyTiles"), V("nothing"), K("k2"),
          Member(V("room"), "area"), Unsupported,
          Unary("-", V("totalArea")), Unary("-", V("balconyTiles")),
          Binary("/", V("totalArea"), Binary("-", V("wetRoomsCount"), N(1))),
          Binary("+", V("totalArea"), V("scope")),
          F("max", <<V("totalArea"), K("k2")>>), F("min", <<V("scope")>>),
          F("round", <<N(1), N(2)>>), F("ceil", <<V("wallArea")>>), F("abs", <<N(1)>>),
          F("max", <<>>),
          Unary("-", Unary("-", Unary("-", Unary("-", N(1))))),
          F("max", [i \in 1 .. 13 |-> N(1)])}

Draft(level, category, mt, surface, quantity, cost, labor) ==
    [Rule("saved", level, cost) EXCEPT
        !.categoryId = category, !.materialTypeId = mt, !.surface = surface,
        !.quantityFormula = quantity, !.laborFormula = labor,
        !.sortOrder = IF level = "OBJECT" THEN 2 ELSE 0]

\* Every formula at every level, and every shape of a rule.
AllRules ==
    {Draft("OBJECT", None, None, None, NoFormula, f, NoFormula) : f \in Formulas}
    \cup {Draft("SURFACE", None, None, "FLOOR", NoFormula, f, NoFormula) :
             f \in Formulas}
    \cup {Draft("CATEGORY", "door", None, None, N(1), f, NoFormula) : f \in Formulas}
    \cup {Draft("MATERIAL_TYPE", "tiles", "mt", None, f, Price, NoFormula) :
             f \in Formulas}
    \cup {[Draft(level, category, mt, surface, quantity, N(1), labor)
             EXCEPT !.baseComponent = base] :
             level \in Levels, category \in {None, "door"}, mt \in {None, "mt"},
             surface \in {None, "FLOOR"}, quantity \in {NoFormula, N(2)},
             labor \in {NoFormula, V("price")}, base \in BOOLEAN}

SomeRules ==
    {NoRule, Draft("OBJECT", None, None, None, NoFormula, K("k2"), NoFormula)}

AllPatches ==
    {[quantityFormula |-> NoFormula], [quantityFormula |-> V("floorArea")],
     [laborFormula |-> V("quantity")], [laborFormula |-> NoFormula],
     [costFormula |-> Binary("*", V("quantity"), K("k2"))],
     [costFormula |-> K("k2"), baseComponent |-> TRUE]}

\* Every formula above, and the nodes of four generations below it.
WithChildren(trees) == trees \cup UNION {ToSet(Children(tree)) : tree \in trees}

Written ==
    (Formulas \cup {Price, N(2)}
       \cup UNION {{f[2] : f \in FormulasOf(rule)} : rule \in ToSet(Rules)}
       \cup UNION {{patch[field] : field \in DOMAIN patch \cap FormulaFields} :
                      patch \in AllPatches}) \ {NoFormula}

TreesAndNodes ==
    WithChildren(WithChildren(WithChildren(WithChildren(Written))))

\* TLC keeps the value of TreesAndNodes; it would compute again what stands
\* for a constant.
AllTrees == TreesAndNodes

\* Different datasets are different versions of the pricing data.
ASSUME DatasetsDiffer ==
    \A a, b \in DatasetNames : TheDataset(a) = TheDataset(b) => a = b
=============================================================================
