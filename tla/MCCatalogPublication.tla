------------------------ MODULE MCCatalogPublication ------------------------
(***************************************************************************)
(* The instance: one category that is drawn on the floor and one that is   *)
(* not, a published product in the first, a draft without surface data in  *)
(* the second, a category that no room type has yet, one room type, one    *)
(* style, one material type; two requests and one writing of the dataset   *)
(* of each kind, at any moment.                                            *)
(***************************************************************************)
EXTENDS CatalogPublication

CONSTANTS q1, q2

c1 == <<"category", 1>>
c2 == <<"category", 2>>
c3 == <<"category", 3>>
p1 == <<"product", 1>>
p2 == <<"product", 2>>
s1 == <<"style", 1>>
m1 == <<"materialType", 1>>
r1 == <<"roomType", 1>>

MCRequests == {q1, q2}

MCSeed ==
    [category |-> {[id |-> c1, texts |-> TRUE, surface |-> "FLOOR",
                    status |-> "PUBLISHED"],
                   [id |-> c2, texts |-> TRUE, surface |-> "NONE",
                    status |-> "PUBLISHED"],
                   [id |-> c3, texts |-> TRUE, surface |-> "NONE",
                    status |-> "DRAFT"]},
     product |-> {[id |-> p1, category |-> c1, texts |-> TRUE,
                   primary |-> TRUE, surfaceData |-> TRUE,
                   status |-> "PUBLISHED"],
                  [id |-> p2, category |-> c2, texts |-> TRUE,
                   primary |-> TRUE, surfaceData |-> FALSE,
                   status |-> "DRAFT"]},
     style |-> {[id |-> s1, texts |-> TRUE, image |-> TRUE,
                 status |-> "PUBLISHED"]},
     materialType |-> {[id |-> m1, code |-> "tile", texts |-> TRUE,
                        status |-> "DRAFT"]},
     roomType |-> {[id |-> r1, texts |-> TRUE, categories |-> <<c1, c2>>]},
     defaults |-> {[style |-> s1, rt |-> r1, cat |-> c2,
                    product |-> p2]}]

Edits(kind, patches) ==
    {[kind |-> kind, verb |-> "patch", patch |-> p] : p \in patches}
Becomes(kind, statuses) ==
    {[kind |-> kind, verb |-> "status", patch |-> [status |-> s]] :
        s \in statuses}
Creates(kind, row) == {[kind |-> kind, verb |-> "create", row |-> row]}
Removes(kind) == {[kind |-> kind, verb |-> "remove"]}
Categories(sequences) ==
    {[kind |-> "roomType", verb |-> "categories", categories |-> s] :
        s \in sequences}
Defaults(items) ==
    {[kind |-> "style", verb |-> "defaults", items |-> i] : i \in items}
Item(cat, product) == [rt |-> r1, cat |-> cat, product |-> product]

First ==
    Edits("product", {[category |-> c2], [texts |-> FALSE],
                      [surfaceData |-> FALSE]})
    \cup Becomes("product", {"PUBLISHED"}) \cup Removes("product")
    \cup Creates("product", [category |-> c2, texts |-> TRUE,
                             primary |-> TRUE, surfaceData |-> FALSE])
    \cup Edits("style", {[image |-> FALSE]})
    \cup Creates("materialType", [code |-> "wood", texts |-> FALSE])
    \cup Edits("materialType", {[status |-> "PUBLISHED"]})
    \cup Categories({<<c1>>})

Second ==
    Edits("category", {[surface |-> "FLOOR"], [surface |-> "NONE"],
                       [texts |-> FALSE]})
    \cup Becomes("category", {"PUBLISHED", "ARCHIVED"}) \cup Removes("category")
    \cup Creates("category", [texts |-> TRUE, surface |-> "NONE"])
    \cup Defaults({{Item(c1, p1)}, {[rt |-> r1, cat |-> c2]}})
    \cup Categories({<<c3, c2, c1>>})
    \cup Edits("roomType", {[texts |-> TRUE]})
    \cup Becomes("product", {"PUBLISHED", "ARCHIVED"})
    \cup Becomes("style", {"PUBLISHED", "DRAFT"}) \cup Removes("style")
    \cup Creates("style", [texts |-> FALSE, image |-> FALSE])
    \cup Creates("materialType", [code |-> "wood", texts |-> TRUE])
    \cup Edits("materialType", {[texts |-> FALSE]})

MCOperations == [q \in MCRequests |-> IF q = q1 THEN First ELSE Second]
MCSeeding == SeedActions
=============================================================================
