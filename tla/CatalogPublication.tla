------------------------- MODULE CatalogPublication -------------------------
(***************************************************************************)
(* Products, categories, styles, material types and room types while       *)
(* administrators edit and publish them (src/apps/api/src/modules/catalog).*)
(*                                                                         *)
(* A request carries the revision its form was opened with.  It reads what *)
(* it has to judge outside of any lock, decides, and then writes under a   *)
(* comparison of the revision (updateWithRevision), or inserts or deletes  *)
(* under the foreign keys.  A write is therefore certain of its own row    *)
(* only; what it read of other rows may have changed.                      *)
(*                                                                         *)
(* The dataset is written over all of this twice: by the seed script       *)
(* (Upsert, which keeps what the administrators added) and by the sandbox  *)
(* reset (Replace).  Both are single transactions, taken here at once; the *)
(* rows that slip through the reset's statements are in Coefficients.      *)
(*                                                                         *)
(* Content is reduced to what publication asks for: the translations, the  *)
(* primary image of a product, the image of a style, and the surface data  *)
(* (texture, tile size, colour) of a product.                              *)
(***************************************************************************)
EXTENDS Naturals, Sequences, FiniteSets, SequencesExt, Rows

CONSTANTS
    Requests,    \* requests of the administrators
    Operations,  \* the operations each request may ask for, see Operation
    Seed,        \* the dataset, see DatasetValid
    Seeding      \* how it may be written again: a subset of SeedActions

VARIABLES
    table,     \* the committed rows of each kind
    defaults,  \* style default materials [style, rt, cat, product]
    req,       \* the requests
    seeded     \* how the dataset has been written again so far

vars == <<table, defaults, req, seeded>>

Kinds == {"product", "category", "style", "materialType", "roomType"}

\* What the forms fill in, on top of the id, the status and the revision, and of
\* the categories of a room type.
Fields == [product |-> {"category", "texts", "primary", "surfaceData"},
           category |-> {"texts", "surface"},
           style |-> {"texts", "image"},
           materialType |-> {"texts", "code"},
           roomType |-> {"texts"}]
Statuses == {"DRAFT", "PUBLISHED", "ARCHIVED"}
SeedActions == {"upsert", "replace"}
None == "none"

\* A room type has its categories with their places in the order, which differ.
Linked(roomTypes, rt, cat) ==
    \E r \in roomTypes : r.id = rt /\ cat \in DOMAIN r.categories

\* The categories of a list with their places, counted from nought.
Placed(list) ==
    [cat \in Range(list) |-> (CHOOSE i \in DOMAIN list : list[i] = cat) - 1]

-----------------------------------------------------------------------------
(* The dataset.                                                            *)

SurfaceIn(categories, cat) ==
    (CHOOSE c \in categories : c.id = cat).surface

\* What the schema of the dataset accepts.  Texts and primary images are complete
\* whatever the status, surface data where it is needed; a style may have no image.
DatasetValid(s) ==
    /\ \A kind \in Kinds : \A row, other \in s[kind] :
          row.id = other.id => row = other
    /\ \A kind \in Kinds \ {"roomType"} : \A row \in s[kind] :
          DOMAIN row = {"id", "status"} \cup Fields[kind] /\ row.status \in Statuses
    /\ \A row \in s.materialType \cup s.category : row.texts
    /\ \A row, other \in s.materialType : row.code = other.code => row = other
    /\ \A rt \in s.roomType :
          /\ DOMAIN rt = {"id", "categories"} \cup Fields["roomType"]
          /\ rt.categories \in Seq(Ids(s.category)) /\ rt.categories # <<>>
          /\ IsInjective(rt.categories)
    /\ \A p \in s.product :
          /\ p.texts /\ p.primary /\ p.category \in Ids(s.category)
          /\ SurfaceIn(s.category, p.category) # "NONE" => p.surfaceData
    /\ \A style \in s.style : style.texts
    /\ \A d \in s.defaults :
          /\ DOMAIN d = {"style", "rt", "cat", "product"} /\ d.style \in Ids(s.style)
          /\ \E rt \in s.roomType : rt.id = d.rt /\ Contains(rt.categories, d.cat)
          /\ \E p \in s.product : p.id = d.product /\ p.category = d.cat
    /\ \A d, e \in s.defaults :
          <<d.style, d.rt, d.cat>> = <<e.style, e.rt, e.cat>> => d = e

ASSUME SeedAssumption == DatasetValid(Seed) /\ Seeding \subseteq SeedActions

\* A row of the dataset as it is stored, with a revision nobody has seen yet.
Stored(kind, row, time) ==
    Over(IF kind = "roomType"
         THEN [rev |-> time, categories |-> Placed(row.categories)]
         ELSE [rev |-> time], row)

SeedRows(kind, time) == {Stored(kind, row, time) : row \in Seed[kind]}

-----------------------------------------------------------------------------
(* Requests.  A patch is a record of the fields it sets.                   *)

\* Patches are partial; a status is changed by itself, but for material types.
IsOperation(op) ==
    \/ /\ op.verb = "create" /\ op.kind \in Kinds \ {"roomType"}
       /\ DOMAIN op.row = Fields[op.kind]
    \/ /\ op.verb = "patch" /\ op.kind \in Kinds \ {"materialType"}
       /\ DOMAIN op.patch \subseteq Fields[op.kind]
    \/ /\ op.verb = "patch" /\ op.kind = "materialType"
       /\ DOMAIN op.patch \subseteq {"texts", "status"}
       /\ "status" \in DOMAIN op.patch => op.patch.status \in Statuses
    \/ /\ op.verb = "status" /\ op.kind \in {"product", "category", "style"}
       /\ DOMAIN op.patch = {"status"} /\ op.patch.status \in Statuses
    \/ op.verb = "remove" /\ op.kind \in {"product", "category", "style"}
    \/ /\ op.verb = "categories" /\ op.kind = "roomType"
       /\ op.categories \in Seq(Range(op.categories)) /\ IsInjective(op.categories)
    \/ /\ op.verb = "defaults" /\ op.kind = "style"
       /\ \A item \in op.items :
             DOMAIN item \in {{"rt", "cat"}, {"rt", "cat", "product"}}
       /\ \A item, other \in op.items :
             item.rt = other.rt /\ item.cat = other.cat => item = other

ASSUME OperationsAssumption ==
    \A q \in Requests : \A op \in Operations[q] : IsOperation(op)

\* What a request makes bears its name, and nothing else does.
ASSUME NamesAssumption ==
    /\ {"first", "upsert", "replace"} \cap Requests = {}
    /\ \A kind \in Kinds : \A row \in Seed[kind] : \A q \in Requests :
          row.id # <<"new", q>>

\* Mutant: the write forgets the new revision.
RevisionKept(row, patch) ==
    Over([field \in {"rev"} \cap DOMAIN row |-> row[field]], Over(patch, row))

Patched(row, patch) == Over(patch, row)

Fresh(op) == [op |-> op, at |-> "form", target |-> None, row |-> None,
              surface |-> "NONE", seen |-> {}]

Op(q) == req[q].op
Is(q, kind, verb) == Op(q).kind = kind /\ Op(q).verb = verb
Rows(q) == table[Op(q).kind]
Answers == {"ok", "invalid", "taken", "inUse", "notFound", "stale", "failed"}

Ends(q, answer) == req' = [req EXCEPT ![q].at = answer]

\* The requests and seedings that have changed the catalog.
Done == {q \in Requests : req[q].at = "ok"} \cup seeded

TypeOK ==
    /\ DOMAIN table = Kinds
    /\ \A kind \in Kinds : \A row, other \in table[kind] :
          /\ row.id = other.id => row = other
          /\ kind # "roomType" => row.status \in Statuses
    /\ \A q \in Requests : /\ Op(q) \in Operations[q]
                           /\ req[q].at \in {"form", "sent", "check", "write"}
                                               \cup Answers
    /\ \A row, other \in table.materialType :
          row.code = other.code => row = other
    /\ \A p \in table.product : p.category \in Ids(table.category)
    /\ \A r \in table.roomType :
          /\ IsInjective(r.categories)
          /\ DOMAIN r.categories \subseteq Ids(table.category)
    /\ \A d \in defaults : /\ d.style \in Ids(table.style)
                           /\ d.product \in Ids(table.product)
                           /\ Linked(table.roomType, d.rt, d.cat)
    /\ \A d, e \in defaults :
          <<d.style, d.rt, d.cat>> = <<e.style, e.rt, e.cat>> => d = e

Init ==
    /\ table = [kind \in Kinds |-> SeedRows(kind, "first")]
    /\ defaults = Seed.defaults
    /\ req \in {[q \in Requests |-> Fresh(op[q])] :
                   op \in {f \in [Requests -> UNION {Operations[q] :
                                                       q \in Requests}] :
                              \A q \in Requests : f[q] \in Operations[q]}}
    /\ seeded = {}

-----------------------------------------------------------------------------
(* Opening the form and reading.                                           *)

\* The form of an edit is opened on a row; its revision travels along.
Submit(q) ==
    /\ req[q].at = "form"
    /\ IF Op(q).verb = "create"
       THEN req' = [req EXCEPT ![q].at = "sent"]
       ELSE \E row \in Rows(q) :
               req' = [req EXCEPT ![q].at = "sent", ![q].target = row]
    /\ UNCHANGED <<table, defaults, seeded>>

\* The requests that read the row they are about to change.
ReadsRow(op) ==
    CASE op.kind = "product" -> op.verb \in {"patch", "status", "remove"}
      [] op.kind = "category" ->
            \/ op.verb = "patch" /\ "surface" \in DOMAIN op.patch
                  /\ op.patch.surface # "NONE"
            \/ op.verb = "status" /\ op.patch.status = "PUBLISHED"
            \/ op.verb = "remove"
      [] op.kind = "style" ->
            \/ op.verb = "patch"
            \/ op.verb = "status" /\ op.patch.status = "PUBLISHED"
      [] op.kind = "materialType" -> op.verb = "patch"
      [] OTHER -> FALSE

ReadRow(q) ==
    /\ req[q].at = "sent"
    /\ IF ~ ReadsRow(Op(q))
       THEN req' = [req EXCEPT ![q].at = "check", ![q].seen = Done]
       ELSE IF req[q].target.id \notin Ids(Rows(q))
       THEN Ends(q, "notFound")
       ELSE \E row \in WithId(Rows(q), req[q].target.id) :
               req' = [req EXCEPT
                  ![q].at = "check", ![q].row = row, ![q].seen = Done,
                  ![q].surface = IF Op(q).kind # "product" THEN "NONE"
                                 ELSE SurfaceIn(table.category, row.category)]
    /\ UNCHANGED <<table, defaults, seeded>>

-----------------------------------------------------------------------------
(* Checking.  Each operator is the answer that refuses the request, or     *)
(* None.                                                                   *)

ProductPublishable(row, surface) ==
    row.texts /\ row.primary /\ (surface # "NONE" => row.surfaceData)

StylePublishable(row) == row.texts /\ row.image

DefaultsOf(product) == {d \in defaults : d.product = product}

ProductPatchObjection(q) ==
    LET row == req[q].row
        patch == Op(q).patch
        moves == "category" \in DOMAIN patch /\ patch.category # row.category
        merged == Patched(row, patch)
    IN  IF moves /\ patch.category \notin Ids(table.category) THEN "invalid"
        ELSE IF moves /\ DefaultsOf(row.id) # {} THEN "inUse"
        ELSE IF row.status = "PUBLISHED"
                /\ ~ ProductPublishable(merged,
                        IF moves THEN SurfaceIn(table.category, patch.category)
                        ELSE req[q].surface)
        THEN "invalid" ELSE None

ProductObjection(q) ==
    CASE Op(q).verb = "create" ->
            IF Op(q).row.category \in Ids(table.category) THEN None ELSE "invalid"
      [] Op(q).verb = "patch" -> ProductPatchObjection(q)
      [] Op(q).verb = "status" ->
            IF Op(q).patch.status = "PUBLISHED"
               /\ ~ ProductPublishable(req[q].row, req[q].surface)
            THEN "invalid" ELSE None
      [] Op(q).verb = "remove" ->
            IF DefaultsOf(req[q].row.id) # {} THEN "inUse" ELSE None

\* The published products of a category that could not be drawn on a surface.
Bare(cat) == {p \in table.product : /\ p.category = cat
                                    /\ p.status = "PUBLISHED"
                                    /\ ~ p.surfaceData}

CategoryInUse(cat) ==
    \/ \E p \in table.product : p.category = cat
    \/ \E r \in table.roomType : cat \in DOMAIN r.categories
    \/ \E d \in defaults : d.cat = cat

CategoryObjection(q) ==
    CASE Op(q).verb = "patch" /\ ReadsRow(Op(q)) ->
            IF /\ Op(q).patch.surface # req[q].row.surface
               /\ Bare(req[q].row.id) # {}
            THEN "invalid" ELSE None
      [] Op(q).verb = "status" /\ ReadsRow(Op(q)) ->
            IF req[q].row.texts THEN None ELSE "invalid"
      [] Op(q).verb = "remove" ->
            IF CategoryInUse(req[q].row.id) THEN "inUse" ELSE None
      [] OTHER -> None

\* The default materials asked for: pairs of the room type, products of the
\* pair's category.  An item without a product only clears its pair.
Given(items) == {item \in items : "product" \in DOMAIN item}

\* Mutant: the category of the product is not compared.
ItemFitsAnyCategory(item) ==
    /\ Linked(table.roomType, item.rt, item.cat)
    /\ item.product \in Ids(table.product)

ItemFits(item) ==
    /\ Linked(table.roomType, item.rt, item.cat)
    /\ \E p \in table.product : p.id = item.product /\ p.category = item.cat

StyleObjection(q) ==
    LET row == req[q].row
    IN  CASE Op(q).verb = "patch" /\ row.status = "PUBLISHED" ->
                IF row.rev # req[q].target.rev THEN "stale"
                ELSE IF StylePublishable(Patched(row, Op(q).patch))
                THEN None ELSE "invalid"
          [] Op(q).verb = "status" /\ ReadsRow(Op(q)) ->
                IF StylePublishable(row) THEN None ELSE "invalid"
          [] Op(q).verb = "defaults" ->
                IF \A item \in Given(Op(q).items) : ItemFits(item)
                THEN None ELSE "invalid"
          [] OTHER -> None

MaterialTypeObjection(q) ==
    IF Op(q).verb = "create"
    THEN IF \E m \in table.materialType : m.code = Op(q).row.code
         THEN "taken" ELSE None
    ELSE LET next == Patched(req[q].row, Op(q).patch)
         IN  IF next.status = "PUBLISHED" /\ ~ next.texts THEN "invalid" ELSE None

\* Only categories that exist and are not archived are linked to a room type.
RoomTypeObjection(q) ==
    IF Op(q).verb = "patch"
       \/ \A cat \in Range(Op(q).categories) :
             \E c \in table.category : c.id = cat /\ c.status # "ARCHIVED"
    THEN None ELSE "invalid"

Objection(q) ==
    CASE Op(q).kind = "product" -> ProductObjection(q)
      [] Op(q).kind = "category" -> CategoryObjection(q)
      [] Op(q).kind = "style" -> StyleObjection(q)
      [] Op(q).kind = "materialType" -> MaterialTypeObjection(q)
      [] Op(q).kind = "roomType" -> RoomTypeObjection(q)

Check(q) ==
    /\ req[q].at = "check"
    /\ Ends(q, IF Objection(q) = None THEN "write" ELSE Objection(q))
    /\ UNCHANGED <<table, defaults, seeded>>

-----------------------------------------------------------------------------
(* Writing.                                                                *)

\* Mutant: the revision is not compared.
AnyRevision(q) == WithId(Rows(q), req[q].target.id)

\* The row the form was opened on, if nobody has changed it since.
Current(q) == {row \in Rows(q) : /\ row.id = req[q].target.id
                                 /\ row.rev = req[q].target.rev}

\* What updateWithRevision answers when no row was updated.
NotCurrent(q) ==
    IF req[q].target.id \in Ids(Rows(q)) THEN "stale" ELSE "notFound"

InTable(kind, rows) == table' = [table EXCEPT ![kind] = rows]

\* A new row is a draft; its foreign key and its unique code are checked again.
Create(q) ==
    /\ req[q].at = "write" /\ Op(q).verb = "create"
    /\ LET row == Op(q).row
       IN  IF Op(q).kind = "product" /\ row.category \notin Ids(table.category)
           THEN Ends(q, "failed") /\ UNCHANGED table
           ELSE IF \E m \in Rows(q) :
                      Op(q).kind = "materialType" /\ m.code = row.code
           THEN Ends(q, "taken") /\ UNCHANGED table
           ELSE /\ InTable(Op(q).kind, Rows(q) \cup
                      {Over([id |-> <<"new", q>>, status |-> "DRAFT", rev |-> q], row)})
                /\ Ends(q, "ok")
    /\ UNCHANGED <<defaults, seeded>>

\* An edit of the row alone: a patch, a status, a name.
Edit(q) ==
    /\ req[q].at = "write" /\ Op(q).verb \in {"patch", "status"}
    /\ LET new == {Patched(row, Over(Op(q).patch, [rev |-> q])) : row \in Current(q)}
           orphan == \E row \in new : /\ Op(q).kind = "product"
                                      /\ row.category \notin Ids(table.category)
       IN  IF new = {} THEN Ends(q, NotCurrent(q)) /\ UNCHANGED table
           ELSE IF orphan THEN Ends(q, "failed") /\ UNCHANGED table
           ELSE /\ InTable(Op(q).kind, (Rows(q) \ Current(q)) \cup new)
                /\ Ends(q, "ok")
    /\ UNCHANGED <<defaults, seeded>>

\* Mutant: no cascade from the pair of a room type to the default materials.
AllDefaults(rt, categories) == defaults

\* The default materials left when a room type gets these categories.
DefaultsLeft(rt, categories) ==
    {d \in defaults : d.rt = rt => Contains(categories, d.cat)}

ReplaceCategories(q) ==
    /\ req[q].at = "write" /\ Op(q).verb = "categories"
    /\ LET categories == Op(q).categories
       IN  IF Current(q) = {}
           THEN Ends(q, NotCurrent(q)) /\ UNCHANGED <<table, defaults>>
           ELSE IF ~ (Range(categories) \subseteq Ids(table.category))
           THEN Ends(q, "failed") /\ UNCHANGED <<table, defaults>>
           ELSE /\ InTable("roomType", (Rows(q) \ Current(q)) \cup
                      {[row EXCEPT !.categories = Placed(categories), !.rev = q] :
                          row \in Current(q)})
                /\ defaults' = DefaultsLeft(req[q].target.id, categories)
                /\ Ends(q, "ok")
    /\ UNCHANGED seeded

\* Items replace the default of their pair.  A foreign key that fails sends the
\* request back to the checks, which name the reason.
UpdateDefaults(q) ==
    /\ req[q].at = "write" /\ Op(q).verb = "defaults"
    /\ LET items == Op(q).items
           style == req[q].target.id
           pairs == {<<style, item.rt, item.cat>> : item \in items}
       IN  IF Current(q) = {}
           THEN Ends(q, NotCurrent(q)) /\ UNCHANGED <<table, defaults>>
           ELSE IF \E item \in Given(items) :
                      \/ ~ Linked(table.roomType, item.rt, item.cat)
                      \/ item.product \notin Ids(table.product)
           THEN Ends(q, IF Objection(q) = None THEN "failed" ELSE Objection(q))
                /\ UNCHANGED <<table, defaults>>
           ELSE /\ InTable("style", (Rows(q) \ Current(q)) \cup
                      {[row EXCEPT !.rev = q] : row \in Current(q)})
                /\ defaults' = {d \in defaults :
                                   <<d.style, d.rt, d.cat>> \notin pairs}
                      \cup {Over([style |-> style], item) : item \in Given(items)}
                /\ Ends(q, "ok")
    /\ UNCHANGED seeded

\* A delete by id.  The foreign keys of default materials and of products and
\* links hold the row; a style takes its default materials along.
Delete(q) ==
    /\ req[q].at = "write" /\ Op(q).verb = "remove"
    /\ LET id == req[q].target.id
           held == \/ Op(q).kind = "product" /\ DefaultsOf(id) # {}
                   \/ Op(q).kind = "category" /\ CategoryInUse(id)
       IN  IF id \notin Ids(Rows(q))
           THEN /\ Ends(q, IF Op(q).kind = "style" THEN "notFound" ELSE "failed")
                /\ UNCHANGED <<table, defaults>>
           ELSE IF held
           THEN /\ Ends(q, IF Op(q).kind = "category" THEN "inUse" ELSE "failed")
                /\ UNCHANGED <<table, defaults>>
           ELSE /\ InTable(Op(q).kind, {row \in Rows(q) : row.id # id})
                /\ defaults' = {d \in defaults : d.style # id}
                /\ Ends(q, "ok")
    /\ UNCHANGED seeded

-----------------------------------------------------------------------------
(* Writing the dataset again.                                              *)

\* The categories of a room type: those of the dataset in its order, then what
\* the administrators have added, in theirs.
MergedCategories(row) ==
    LET own == row.categories
        old == (CHOOSE r \in table.roomType : r.id = row.id).categories
        added == DOMAIN old \ DOMAIN own
        before(cat) == {other \in added : old[other] < old[cat]}
    IN  [cat \in DOMAIN own \cup added |->
            IF cat \in DOMAIN own THEN own[cat]
            ELSE Cardinality(DOMAIN own) + Cardinality(before(cat))]

\* A row of the dataset replaces the row with its id, or with its code.
Upserted(kind) ==
    LET rows == SeedRows(kind, "upsert")
    IN  {row \in table[kind] :
            /\ row.id \notin Ids(rows)
            /\ kind = "materialType" => \A s \in rows : s.code # row.code}
        \cup rows

Upsert ==
    /\ "upsert" \in Seeding \ seeded
    /\ table' = [kind \in Kinds |->
                    IF kind # "roomType" THEN Upserted(kind)
                    ELSE {[row EXCEPT !.categories = MergedCategories(row)] :
                             row \in Upserted(kind)}]
    /\ defaults' = {d \in defaults : d.style \notin Ids(Seed.style)}
                      \cup Seed.defaults
    /\ seeded' = seeded \cup {"upsert"}
    /\ UNCHANGED req

Replace ==
    /\ "replace" \in Seeding \ seeded
    /\ table' = [kind \in Kinds |-> SeedRows(kind, "replace")]
    /\ defaults' = Seed.defaults
    /\ seeded' = seeded \cup {"replace"}
    /\ UNCHANGED req

-----------------------------------------------------------------------------
(* What visitors see (public-catalog.service.ts).                          *)

Published(kind) == {row \in table[kind] : row.status = "PUBLISHED"}

ProductsListed(cat) == {p \in Published("product") : p.category = cat}

\* The categories shown for a room type, with the number of their products.
CategoriesShown(rt) ==
    {[category |-> c.id, count |-> Cardinality(ProductsListed(c.id))] :
        c \in {c \in Published("category") : Linked(table.roomType, rt, c.id)}}

\* A product has a page when it and its category are published.
HasPage(product) ==
    \E p \in Published("product") : /\ p.id = product
                                    /\ p.category \in Ids(Published("category"))

\* Mutant: a default product is offered whatever its category is by now.
AvailableAnywhere(product, cat) == product \in Ids(Published("product"))

DefaultAvailable(product, cat) == product \in Ids(ProductsListed(cat))

\* The default products offered with a published style.
DefaultsOffered(style) ==
    {d \in defaults : /\ d.style = style
                      /\ d.cat \in Ids(Published("category"))
                      /\ Linked(table.roomType, d.rt, d.cat)
                      /\ DefaultAvailable(d.product, d.cat)}

-----------------------------------------------------------------------------
Next ==
    \/ \E q \in Requests :
          \/ Submit(q) \/ ReadRow(q) \/ Check(q)
          \/ Create(q) \/ Edit(q) \/ ReplaceCategories(q) \/ UpdateDefaults(q)
          \/ Delete(q)
    \/ Upsert \/ Replace

Spec == Init /\ [][Next]_vars

-----------------------------------------------------------------------------
(* Properties.                                                             *)

\* What is published stays publishable as far as its own row goes: translations
\* and primary image of a product, translations and image of a style,
\* translations of a material type.  The checks read the row before the write
\* and outside of it (products.service.ts, styles.service.ts,
\* material-types.service.ts); it is the revision that makes them count.
PublishedComplete ==
    /\ \A p \in Published("product") : p.texts /\ p.primary
    /\ \A s \in Published("style") : StylePublishable(s)
    /\ \A m \in Published("materialType") : m.texts

\* Published content has its translations, categories included: README.md names
\* "the check that blocks publishing content missing a translation".
TranslationsPublished ==
    \A kind \in {"product", "category", "style", "materialType"} :
        \A row \in Published(kind) : row.texts

\* Published products without the data their category's surface needs, and
\* default materials whose product is not of the pair's category.
Gaps(tbl) == {p.id : p \in {p \in tbl.product :
                 /\ p.status = "PUBLISHED" /\ ~ p.surfaceData
                 /\ SurfaceIn(tbl.category, p.category) # "NONE"}}
Misfits(tbl, mats) == {d \in mats : \A p \in tbl.product :
                          p.id = d.product => p.category # d.cat}

\* A request that nobody overtakes between its first read and its write leaves
\* no new published product without surface data, and no new default material
\* of another category, whichever of the two sides it changes: the product, the
\* surface of its category, the category of the product, or the defaults.
RulesKept ==
    [][\A q \in Requests :
          /\ req[q].at = "write" /\ req'[q].at = "ok"
          /\ Done = req[q].seen
          => /\ Gaps(table') \subseteq Gaps(table)
             /\ Misfits(table', defaults') \subseteq Misfits(table, defaults)]_vars

\* No change is lost: an edit replaces exactly the row its author was looking
\* at, in spite of edits in between and of the dataset's rows having been written
\* again under the same ids (updateWithRevision, rewrittenBySeed).
NoLostUpdate ==
    [][\A q \in Requests :
          /\ req[q].at = "write" /\ req'[q].at = "ok"
          /\ Op(q).verb \in {"patch", "status", "categories", "defaults"}
          => req[q].target \in Rows(q)]_vars

\* Visitors can follow every link: a default product offered with a style is in
\* the list of the pair's category and has a page, and a category with a product
\* count is one whose products have pages, also while default materials and
\* categories of products are edited against each other.
VisitorsCanFollow ==
    /\ \A s \in Published("style") : \A d \in DefaultsOffered(s.id) :
          d.product \in Ids(ProductsListed(d.cat)) /\ HasPage(d.product)
    /\ \A r \in table.roomType : \A shown \in CategoriesShown(r.id) :
          shown.count = Cardinality({p \in table.product :
                            p.category = shown.category /\ HasPage(p.id)})
=============================================================================
