---------------------------- MODULE OrderedLists ----------------------------
(***************************************************************************)
(* The lists that administrators arrange by hand: the options of each kind *)
(* (catalog/options), the items of the engineering package                 *)
(* (catalog/engineering) and the styles (catalog/styles).                  *)
(*                                                                         *)
(* Options are unique in their kind and sort order.  A new option, or one  *)
(* that changes its kind, goes behind the last: it reads the last order in *)
(* one statement and takes the next in another, and tries once more when   *)
(* somebody was faster.  The other two lists have no such constraint.  A   *)
(* reorder names every item of its list; it is one transaction, and what   *)
(* waits for its rows waits for its end.                                   *)
(*                                                                         *)
(* What an item costs is reduced to what its parts must agree on: whether  *)
(* it has a price or coefficients, its unit, its quantities, and whether   *)
(* it is for some rooms only.                                              *)
(***************************************************************************)
EXTENDS Integers, Sequences, FiniteSets, SequencesExt, FiniteSetsExt, Rows

CONSTANTS
    Editors,     \* requests of the administrators
    Edits,       \* the operations each request may ask for
    ListItems,   \* the items of the dataset
    ListSeeding  \* whether the seed script may run again

VARIABLES
    items,   \* the committed rows
    edit,    \* the requests
    rerun    \* the seed script has run again

listVars == <<items, edit, rerun>>

OptionKinds == {"ENGINEERING", "ADDITIONAL"}
PackageList == "package"
StyleList == "styles"

NoQuantity == 0
NoUnit == "none"

IsOption(row) == row.list \in OptionKinds
InList(rows, list) == {row \in rows : row.list = list}
ItemWithId(id) == WithId(items, id)

\* Mutant: the constraint of the table is missing, as it is for the other lists.
Unconstrained(rows) == TRUE

\* No two options of one kind have one order.
Unique(rows) ==
    \A row, other \in rows :
        IsOption(row) /\ row.list = other.list /\ row.order = other.order
        => row.id = other.id

-----------------------------------------------------------------------------
(* What an item must satisfy, and how an edit is completed.  Each operator *)
(* returns the rows to write: none when the edit is refused.               *)

PerRoom(unit) == unit \in {"ROOM_SQM", "ROOM"}

\* The price is a number or comes from coefficients, not both.
OnePriceSource(row) == row.price # row.keys

\* What is counted in pieces has both bounds; nothing else has any.
Counted(row) == row.unit = "PIECE"
Bounded(row) == NoQuantity < row.min /\ row.min <= row.max
QuantityBounds(row) ==
    IF Counted(row) THEN row ELSE Over([min |-> NoQuantity, max |-> NoQuantity], row)

\* An edit without the field rooms leaves them, unless the unit is not per room.
CompleteOption(row, patch) ==
    LET merged == Over(patch, row)
        rooms == "rooms" \in DOMAIN patch /\ patch.rooms
    IN  IF \/ rooms /\ ~ PerRoom(merged.unit)
           \/ Counted(merged) /\ ~ Bounded(merged)
           \/ ~ OnePriceSource(merged)
        THEN {}
        ELSE {Over([rooms |-> PerRoom(merged.unit) /\ merged.rooms],
                   QuantityBounds(merged))}

\* An item that is included in the base has neither a price nor a unit.
CompletePackageItem(row, patch) ==
    LET merged == Over(patch, row)
        given == \/ "price" \in DOMAIN patch /\ patch.price
                 \/ "unit" \in DOMAIN patch /\ patch.unit # NoUnit
    IN  IF merged.included
        THEN IF given THEN {}
             ELSE {Over([price |-> FALSE, unit |-> NoUnit], merged)}
        ELSE IF ~ merged.price \/ merged.unit = NoUnit THEN {} ELSE {merged}

Complete(row, patch) ==
    CASE IsOption(row) -> CompleteOption(row, patch)
      [] row.list = PackageList -> CompletePackageItem(row, patch)
      [] row.list = StyleList -> {Over(patch, row)}

\* What the calculation can use.
PricedOption(row) ==
    /\ OnePriceSource(row)
    /\ Counted(row) => Bounded(row)
    /\ ~ Counted(row) => row.min = NoQuantity /\ row.max = NoQuantity
    /\ row.rooms => PerRoom(row.unit)
PricedPackageItem(row) == row.included <=> ~ row.price /\ row.unit = NoUnit
Priced(row) ==
    /\ IsOption(row) => PricedOption(row)
    /\ row.list = PackageList => PricedPackageItem(row)

\* The fields on which the cost of an item depends.
CostFields(list) ==
    {"list"} \cup
    IF list \in OptionKinds THEN {"price", "keys", "unit", "min", "max", "rooms"}
    ELSE IF list = PackageList THEN {"included", "price", "unit"} ELSE {}
HasCost(row) ==
    /\ row.list \in OptionKinds \cup {PackageList, StyleList}
    /\ CostFields(row.list) \subseteq DOMAIN row

\* The dataset is checked before it is written, up to the price of an item that
\* is included in the base: there the data has none, and nothing asks for it.
ASSUME ItemsAssumption ==
    /\ IsFiniteSet(ListItems)
    /\ \A row \in ListItems :
          /\ {"id", "order"} \subseteq DOMAIN row /\ row.order \in Nat
          /\ HasCost(row) /\ Priced(row)
    /\ \A row, other \in ListItems : row.id = other.id => row = other

\* The forms have the fields that follow; only options can change their list.
ASSUME EditsAssumption ==
    \A e \in Editors : \A op \in Edits[e] :
        /\ op.verb = "create" => HasCost(op.row)
        /\ op.verb = "patch" =>
              /\ DOMAIN op.patch \subseteq
                    {"code"} \cup CostFields("ENGINEERING") \cup CostFields(PackageList)
              /\ "list" \in DOMAIN op.patch => op.patch.list \in OptionKinds
        /\ op.verb = "status" => DOMAIN op.patch = {"status"}
        /\ op.verb = "reorder" => op.ids \in Seq(Range(op.ids))

\* The names of the dataset's revisions are not those of a request.
ASSUME RevisionsAssumption == {"first", "seed"} \cap Editors = {}

-----------------------------------------------------------------------------
(* Requests.                                                               *)

Ask(e) == edit[e].op
Asks(e, verb) == Ask(e).verb = verb

\* The request ends with an answer: ok, invalid, notFound, stale, protected,
\* conflict or failed.
Closes(e, answer) == edit' = [edit EXCEPT ![e].at = answer]

BlankEdit(op) == [op |-> op, at |-> "form", target |-> {}, new |-> {},
                  order |-> 0, retried |-> FALSE]

\* The items of the dataset as they are stored, with a revision nobody has seen.
SeedItems(time) == {Over([rev |-> time], row) : row \in ListItems}

ListsInit ==
    /\ items = SeedItems("first")
    /\ edit \in {[e \in Editors |-> BlankEdit(op[e])] :
                    op \in {f \in [Editors -> UNION {Edits[e] : e \in Editors}] :
                               \A e \in Editors : f[e] \in Edits[e]}}
    /\ rerun = FALSE

\* Styles and items of the package are removed without being read first.
Unread(e, row) == Asks(e, "remove") /\ ~ IsOption(row)

\* Each list has its own routes: a kind is changed where options are edited.
Fits(row, op) == op.verb = "patch" /\ "list" \in DOMAIN op.patch => IsOption(row)

\* An edit of an item is opened on a row; its revision travels along.  A new
\* item is completed from its own fields.
OpenEdit(e) ==
    /\ edit[e].at = "form"
    /\ CASE Asks(e, "create") ->
              LET new == Complete(Ask(e).row, Ask(e).row)
              IN  edit' = [edit EXCEPT ![e].at = IF new = {} THEN "invalid"
                                                 ELSE "plan", ![e].new = new]
         [] Asks(e, "reorder") -> Closes(e, "sent")
         [] OTHER -> \E row \in items :
              /\ row.id = Ask(e).id /\ Fits(row, Ask(e))
              /\ edit' = [edit EXCEPT ![e].target = {row}, ![e].at =
                                IF Unread(e, row) THEN "write" ELSE "sent"]
    /\ UNCHANGED <<items, rerun>>

Moves(row, patch) == "list" \in DOMAIN patch /\ patch.list # row.list

\* The code of an option protects its kind, its unit, its publication and itself.
Protects(e, row) ==
    /\ IsOption(row) /\ row.code
    /\ CASE Asks(e, "patch") ->
              \/ Moves(row, Ask(e).patch)
              \/ "unit" \in DOMAIN Ask(e).patch /\ Ask(e).patch.unit # row.unit
         [] Asks(e, "status") -> /\ row.status = "PUBLISHED"
                                 /\ Ask(e).patch.status # "PUBLISHED"
         [] Asks(e, "remove") -> TRUE

\* An edit reads the row and completes its fields from what it read.
ReadItem(e) ==
    /\ edit[e].at = "sent" /\ ~ Asks(e, "reorder")
    /\ LET rows == ItemWithId(Ask(e).id)
           row == CHOOSE r \in rows : TRUE
           opened == CHOOSE r \in edit[e].target : TRUE
           new == IF Asks(e, "patch") THEN Complete(row, Ask(e).patch)
                  ELSE IF Asks(e, "status") THEN {Over(Ask(e).patch, row)} ELSE {}
       IN  IF rows = {} THEN Closes(e, "notFound")
           ELSE IF Asks(e, "patch") /\ row.rev # opened.rev
           THEN Closes(e, "stale")
           ELSE IF Protects(e, row) THEN Closes(e, "protected")
           ELSE IF Asks(e, "patch") /\ new = {} THEN Closes(e, "invalid")
           ELSE edit' = [edit EXCEPT
                  ![e].at = IF Asks(e, "patch") /\ Moves(row, Ask(e).patch)
                            THEN "plan" ELSE "write",
                  ![e].new = new]
    /\ UNCHANGED <<items, rerun>>

\* The order behind the last item.
NextOrder(rows) == IF rows = {} THEN 0 ELSE Max({row.order : row \in rows}) + 1

PlanOrder(e) ==
    /\ edit[e].at = "plan"
    /\ \E new \in edit[e].new :
          edit' = [edit EXCEPT ![e].at = "write",
                               ![e].order = NextOrder(InList(items, new.list))]
    /\ UNCHANGED <<items, rerun>>

\* The answer to a unique constraint: once more, from the reading of the order.
TryAgain(e) ==
    IF edit[e].retried THEN Closes(e, "failed")
    ELSE edit' = [edit EXCEPT ![e].at = "plan", ![e].retried = TRUE]

InsertItem(e) ==
    /\ edit[e].at = "write" /\ Asks(e, "create")
    /\ \E new \in edit[e].new :
          LET rows == items \cup
                 {Over([id |-> e, rev |-> e, order |-> edit[e].order,
                        status |-> "DRAFT"], new)}
          IN  IF Unique(rows) THEN items' = rows /\ Closes(e, "ok")
              ELSE TryAgain(e) /\ UNCHANGED items
    /\ UNCHANGED rerun

\* Mutant: the revision is not compared.
AsOpenedOrNot(e) == ItemWithId(Ask(e).id)

\* The row, if it still has the revision the form was opened with.
AsOpened(e) == ItemWithId(Ask(e).id) \cap
    {row \in items : \A opened \in edit[e].target : row.rev = opened.rev}

\* An update writes the fields of the form and those completed.
Written(op, new) ==
    IF op.verb = "status" THEN {"status"}
    ELSE IF new.list = StyleList THEN {}
    ELSE IF new.list = PackageList THEN {"included", "price", "unit"}
    ELSE {"min", "max"} \cup (DOMAIN op.patch \ {"rooms"}) \cup
         IF PerRoom(new.unit) /\ "rooms" \notin DOMAIN op.patch THEN {} ELSE {"rooms"}

\* It leaves the order, unless the option changes its kind.
UpdateItem(e) ==
    /\ edit[e].at = "write" /\ Ask(e).verb \in {"patch", "status"}
    /\ \E new \in edit[e].new :
       \E opened \in edit[e].target :
          LET place == IF Asks(e, "patch") /\ Moves(opened, Ask(e).patch)
                       THEN {"order"} ELSE {}
              set == [f \in Written(Ask(e), new) \cup {"rev"} \cup place |->
                         CASE f = "rev" -> e
                           [] f = "order" -> edit[e].order
                           [] OTHER -> new[f]]
              rows == (items \ AsOpened(e)) \cup {Over(set, row) : row \in AsOpened(e)}
          IN  IF ItemWithId(Ask(e).id) = {} THEN Closes(e, "notFound")
                                                 /\ UNCHANGED items
              ELSE IF AsOpened(e) = {} THEN Closes(e, "stale") /\ UNCHANGED items
              ELSE IF ~ Unique(rows) THEN TryAgain(e) /\ UNCHANGED items
              ELSE items' = rows /\ Closes(e, "ok")
    /\ UNCHANGED rerun

RemoveItem(e) ==
    /\ edit[e].at = "write" /\ Asks(e, "remove")
    /\ items' = items \ ItemWithId(Ask(e).id)
    /\ Closes(e, IF ItemWithId(Ask(e).id) = {} THEN "notFound" ELSE "ok")
    /\ UNCHANGED rerun

-----------------------------------------------------------------------------
(* Reordering.                                                             *)

NamesAll(list, ids) ==
    IsInjective(ids) /\ Range(ids) = Ids(InList(items, list))

CheckReorder(e) ==
    /\ edit[e].at = "sent" /\ Asks(e, "reorder")
    /\ Closes(e, IF NamesAll(Ask(e).list, Ask(e).ids) THEN "write" ELSE "invalid")
    /\ UNCHANGED <<items, rerun>>

\* The rows with the orders asked for, counted from nought.
Reordered(ids) ==
    {IF Contains(ids, row.id)
     THEN [row EXCEPT !.order = (CHOOSE i \in DOMAIN ids : ids[i] = row.id) - 1]
     ELSE row : row \in items}

\* The updates name their rows by id.  The revision stays.  Options get
\* temporary orders below nought first, so that the constraint judges only the
\* result.
Reorder(e) ==
    /\ edit[e].at = "write" /\ Asks(e, "reorder")
    /\ LET rows == Reordered(Ask(e).ids)
       IN  IF ~ (Range(Ask(e).ids) \subseteq Ids(items))
           THEN Closes(e, "invalid") /\ UNCHANGED items
           ELSE IF ~ Unique(rows) THEN Closes(e, "conflict") /\ UNCHANGED items
           ELSE items' = rows /\ Closes(e, "ok")
    /\ UNCHANGED rerun

\* Two reorders that lock their rows in different orders wait for each other;
\* the database ends one of them.
ReorderDeadlock(e) ==
    /\ edit[e].at = "write" /\ Asks(e, "reorder")
    /\ \E other \in Editors \ {e} :
          /\ edit[other].at = "write" /\ Asks(other, "reorder")
          /\ Cardinality(Range(Ask(e).ids) \cap Range(Ask(other).ids)) > 1
    /\ Closes(e, IF Ask(e).list = StyleList THEN "failed" ELSE "conflict")
    /\ UNCHANGED <<items, rerun>>

-----------------------------------------------------------------------------
(* The seed script writes the dataset again and puts the options that      *)
(* administrators have added behind it, in the order they had.             *)

Behind(row) ==
    LET kind == InList(ListItems, row.list)
        before == {other \in InList(items, row.list) :
                      /\ other.id \notin Ids(ListItems)
                      /\ other.order < row.order}
    IN  [row EXCEPT !.order = NextOrder(kind) + Cardinality(before)]

SeedLists ==
    /\ ListSeeding /\ ~ rerun
    /\ items' = SeedItems("seed") \cup
          {IF IsOption(row) /\ InList(ListItems, row.list) # {}
           THEN Behind(row) ELSE row :
              row \in {r \in items : r.id \notin Ids(ListItems)}}
    /\ rerun' = TRUE
    /\ UNCHANGED edit

ListsNext ==
    \/ \E e \in Editors :
          \/ OpenEdit(e) \/ ReadItem(e) \/ PlanOrder(e) \/ InsertItem(e)
          \/ UpdateItem(e) \/ RemoveItem(e)
          \/ CheckReorder(e) \/ Reorder(e) \/ ReorderDeadlock(e)
    \/ SeedLists

ListsSpec == ListsInit /\ [][ListsNext]_listVars

-----------------------------------------------------------------------------
(* Properties.                                                             *)

\* What an item costs is always something the calculation can use: an option has
\* one price source, quantities exactly when it is counted in pieces and in the
\* right order, and rooms only with a unit per room; an item of the package is
\* either included or has a price and a unit.  Each edit completes its fields
\* from a row it read before the write (options.service.ts,
\* engineering.service.ts), so two edits that are each in order could together
\* leave an item that is not.
ItemsPriced == \A row \in items : Priced(row)

\* A reorder that succeeds has put the items it names in the order asked for,
\* and before every other option of the kind: also before one that was created
\* while the reorder was on its way, with an order read long before.
ArrangedAsAsked(list, ids) ==
    LET rows == InList(items', list)
        named == {row \in rows : Contains(ids, row.id)}
    IN  /\ \A row, other \in named :
              row.order < other.order <=>
                 \E i, j \in DOMAIN ids :
                    i < j /\ ids[i] = row.id /\ ids[j] = other.id
        /\ list \in OptionKinds /\ Ids(named) = Range(ids) =>
              \A row \in named : \A other \in rows \ named :
                 row.order < other.order

ReorderKept ==
    [][\A e \in DOMAIN edit :
          Asks(e, "reorder") /\ edit[e].at = "write" /\ edit'[e].at = "ok" =>
             ArrangedAsAsked(Ask(e).list, Ask(e).ids)]_listVars
=============================================================================
