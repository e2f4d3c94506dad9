--------------------- MODULE CatalogPublicationProofs ---------------------
(***************************************************************************)
(* Theorems about CatalogPublication, for any dataset its schema accepts,  *)
(* any number of administrators and any operations of theirs: the foreign  *)
(* keys and unique indexes hold, no edit is lost, what is published stays  *)
(* complete, and a request nobody overtakes keeps the rules that no index  *)
(* of the database states.                                                 *)
(***************************************************************************)
EXTENDS CatalogPublication, Integers, FiniteSetTheorems, TLAPS

-----------------------------------------------------------------------------
(* The tables by themselves: what the indexes and the foreign keys of the   *)
(* database keep, of the tables t and the default materials ds.             *)

RowFields(kind) ==
    {"id", "rev"} \cup Fields[kind]
        \cup {IF kind = "roomType" THEN "categories" ELSE "status"}

RowsTyped(t) ==
    /\ DOMAIN t = Kinds
    /\ \A kind \in Kinds : \A row \in t[kind] :
          /\ DOMAIN row = RowFields(kind)
          /\ kind # "roomType" => row.status \in Statuses

IdsUnique(t) ==
    \A kind \in Kinds : \A row, other \in t[kind] : row.id = other.id => row = other

CodesUnique(t) ==
    \A row, other \in t.materialType : row.code = other.code => row = other

ProductsHeld(t) == \A p \in t.product : p.category \in Ids(t.category)

\* Categories with places that differ.
Ordered(links) ==
    /\ IsFiniteSet(DOMAIN links) /\ IsInjective(links)
    /\ \A cat \in DOMAIN links : links[cat] \in Nat

\* Room types come and go with the dataset only; their links are in order.
LinksHeld(t) ==
    /\ Ids(t.roomType) = Ids(Seed.roomType)
    /\ \A r \in t.roomType : /\ Ordered(r.categories)
                             /\ DOMAIN r.categories \subseteq Ids(t.category)

DefaultsHeld(t, ds) ==
    /\ \A d \in ds : /\ d.style \in Ids(t.style)
                     /\ d.product \in Ids(t.product)
                     /\ Linked(t.roomType, d.rt, d.cat)
    /\ \A d, e \in ds :
          <<d.style, d.rt, d.cat>> = <<e.style, e.rt, e.cat>> => d = e

Sound(t, ds) ==
    /\ RowsTyped(t) /\ IdsUnique(t) /\ CodesUnique(t)
    /\ ProductsHeld(t) /\ LinksHeld(t) /\ DefaultsHeld(t, ds)

-----------------------------------------------------------------------------
(* The requests.                                                           *)

Shapes ==
    /\ DOMAIN req = Requests
    /\ \A q \in Requests :
          /\ DOMAIN req[q] = {"op", "at", "target", "row", "surface", "seen"}
          /\ Op(q) \in Operations[q]
          /\ req[q].at \in {"form", "sent", "check", "write"} \cup Answers

\* The dataset is written again as it may be.
SeedsAllowed == seeded \subseteq SeedActions

\* A revision bears the name of what wrote it, and so does the id of a new row.
Known(rev) == rev = "first" \/ rev \in Done

NamesStand ==
    \A kind \in Kinds : \A row \in table[kind] :
        /\ Known(row.rev)
        /\ \A q \in Requests : row.id = <<"new", q>> => req[q].at = "ok"

\* A row that has the id and the revision of the form is the row of the form, and
\* the one that was read since.
Stands(q) ==
    /\ req[q].at \in {"sent", "check", "write"} /\ Op(q).verb # "create" =>
          Known(req[q].target.rev) /\ Current(q) \subseteq {req[q].target}
    /\ req[q].at \in {"check", "write"} /\ ReadsRow(Op(q)) =>
          /\ Current(q) \subseteq {req[q].row}
          /\ DOMAIN req[q].row = RowFields(Op(q).kind)
          /\ req[q].row.id = req[q].target.id
    /\ req[q].at \in {"check", "write"} => req[q].seen \subseteq Done

ReadInv ==
    /\ Shapes /\ SeedsAllowed /\ Sound(table, defaults) /\ NamesStand
    /\ \A q \in Requests : Stands(q)

\* What the checks found out about the content a request is to publish.
Cleared(q) ==
    req[q].at = "write" =>
        LET row == req[q].row
            merged == Patched(row, Op(q).patch)
        IN  /\ Is(q, "product", "status") /\ Op(q).patch.status = "PUBLISHED" =>
                  row.texts /\ row.primary
            /\ Is(q, "product", "patch") /\ row.status = "PUBLISHED" =>
                  merged.texts /\ merged.primary
            /\ Is(q, "style", "status") /\ Op(q).patch.status = "PUBLISHED" =>
                  StylePublishable(row)
            /\ Is(q, "style", "patch") /\ row.status = "PUBLISHED" =>
                  StylePublishable(merged)
            /\ Is(q, "materialType", "patch") /\ merged.status = "PUBLISHED" =>
                  merged.texts

ContentInv ==
    /\ ReadInv /\ PublishedComplete
    /\ \A q \in Requests : Cleared(q)

\* While nothing has been written since a request read, what it read and what its
\* checks concluded is so.
Undisturbed(q) ==
    req[q].at \in {"check", "write"} /\ Done = req[q].seen =>
        /\ ReadsRow(Op(q)) =>
              /\ req[q].row \in Rows(q)
              /\ Op(q).kind = "product" =>
                    req[q].surface = SurfaceIn(table.category, req[q].row.category)
        /\ req[q].at = "write" => Objection(q) = None

RulesInv == ReadInv /\ \A q \in Requests : Undisturbed(q)

-----------------------------------------------------------------------------
(* Rows and patches.                                                       *)

\* The kinds and their fields.
LEMMA KindsKnown ==
    /\ Kinds = {"product", "category", "style", "materialType", "roomType"}
    /\ RowFields("product") = {"id", "rev", "category", "texts", "primary",
                               "surfaceData", "status"}
    /\ RowFields("category") = {"id", "rev", "texts", "surface", "status"}
    /\ RowFields("style") = {"id", "rev", "texts", "image", "status"}
    /\ RowFields("materialType") = {"id", "rev", "texts", "code", "status"}
    /\ RowFields("roomType") = {"id", "rev", "texts", "categories"}
BY DEF Kinds, RowFields, Fields

\* A row with a patch and a new revision written over it.
LEMMA PatchedRow ==
    ASSUME NEW row, NEW patch, NEW rev, {"id", "rev"} \subseteq DOMAIN row,
           DOMAIN patch \subseteq DOMAIN row \ {"id", "rev"},
           NEW new, new = Patched(row, Over(patch, [rev |-> rev])),
           NEW merged, merged = Patched(row, patch)
    PROVE  /\ DOMAIN new = DOMAIN row /\ new.rev = rev
           /\ \A f \in DOMAIN patch : new[f] = patch[f]
           /\ \A f \in DOMAIN row \ {"rev"} : f \notin DOMAIN patch => new[f] = row[f]
           /\ \A f \in DOMAIN row \ {"rev"} : new[f] = merged[f]
<1> DEFINE over == Over(patch, [rev |-> rev])
<1>1. /\ DOMAIN over = DOMAIN patch \cup {"rev"} /\ over.rev = rev
      /\ \A f \in DOMAIN patch : over[f] = patch[f]
  BY DEF Over
<1> HIDE DEF over
<1>2. new = Over(over, row) /\ merged = Over(patch, row)
  BY DEF Patched, over
<1>3. /\ DOMAIN new = DOMAIN over \cup DOMAIN row
      /\ \A f \in DOMAIN over : new[f] = over[f]
      /\ \A f \in DOMAIN row \ DOMAIN over : new[f] = row[f]
  BY <1>2 DEF Over
<1>4. /\ \A f \in DOMAIN patch : merged[f] = patch[f]
      /\ \A f \in DOMAIN row \ DOMAIN patch : merged[f] = row[f]
  BY <1>2 DEF Over
<1> QED
  BY <1>1, <1>3, <1>4

-----------------------------------------------------------------------------
(* The indexes and foreign keys hold when one table changes.               *)

\* A table by its name and by its field.
LEMMA OneTable ==
    ASSUME NEW t, NEW u, DOMAIN t = Kinds, NEW kind \in Kinds, NEW rows,
           u = [t EXCEPT ![kind] = rows]
    PROVE  /\ DOMAIN u = Kinds /\ u[kind] = rows
           /\ \A k \in Kinds \ {kind} : u[k] = t[k]
           /\ kind # "product" => u.product = t.product
           /\ kind # "category" => u.category = t.category
           /\ kind # "style" => u.style = t.style
           /\ kind # "materialType" => u.materialType = t.materialType
           /\ kind # "roomType" => u.roomType = t.roomType
BY DEF Kinds

LEMMA InsertSound ==
    ASSUME NEW t, NEW ds, Sound(t, ds), NEW kind \in Kinds \ {"roomType"}, NEW new,
           DOMAIN new = RowFields(kind), new.status \in Statuses,
           \A row \in t[kind] : row.id # new.id,
           kind = "product" => new.category \in Ids(t.category),
           kind = "materialType" => \A m \in t.materialType : m.code # new.code,
           NEW u, u = [t EXCEPT ![kind] = t[kind] \cup {new}]
    PROVE  Sound(u, ds)
<1>1. /\ DOMAIN u = Kinds /\ u[kind] = t[kind] \cup {new}
      /\ \A k \in Kinds \ {kind} : u[k] = t[k]
      /\ u.roomType = t.roomType
      /\ kind # "product" => u.product = t.product
      /\ kind = "product" => u.product = t.product \cup {new}
      /\ kind # "materialType" => u.materialType = t.materialType
      /\ kind = "materialType" => u.materialType = t.materialType \cup {new}
  BY OneTable DEF Sound, RowsTyped
<1>2. RowsTyped(u)
  BY <1>1 DEF Sound, RowsTyped
<1>3. IdsUnique(u)
  BY <1>1 DEF Sound, IdsUnique
<1>4. \A k \in Kinds : Ids(t[k]) \subseteq Ids(u[k])
  BY <1>1 DEF Ids
<1>5. /\ Ids(t.category) \subseteq Ids(u.category) /\ Ids(t.style) \subseteq Ids(u.style)
      /\ Ids(t.product) \subseteq Ids(u.product)
  BY <1>4 DEF Kinds
<1>6. CodesUnique(u)
  BY <1>1 DEF Sound, CodesUnique
<1>7. ProductsHeld(u)
  BY <1>1, <1>5 DEF Sound, ProductsHeld
<1>8. LinksHeld(u)
  BY <1>1, <1>5 DEF Sound, LinksHeld
<1>9. DefaultsHeld(u, ds)
  BY <1>1, <1>5 DEF Sound, DefaultsHeld
<1> QED
  BY <1>2, <1>3, <1>6, <1>7, <1>8, <1>9 DEF Sound

\* A row takes the place of one with its id.
LEMMA EditSound ==
    ASSUME NEW t, NEW ds, Sound(t, ds), NEW kind \in Kinds,
           NEW old \in t[kind], NEW new,
           DOMAIN new = RowFields(kind), new.id = old.id,
           kind # "roomType" => new.status \in Statuses,
           kind = "product" => new.category \in Ids(t.category),
           kind = "materialType" => new.code = old.code,
           kind = "roomType" => new.categories = old.categories,
           NEW u, u = [t EXCEPT ![kind] = (t[kind] \ {old}) \cup {new}]
    PROVE  Sound(u, ds)
<1>1. /\ DOMAIN u = Kinds /\ u[kind] = (t[kind] \ {old}) \cup {new}
      /\ \A k \in Kinds \ {kind} : u[k] = t[k]
  BY OneTable DEF Sound, RowsTyped
<1>2. RowsTyped(u)
  BY <1>1 DEF Sound, RowsTyped
<1>3. IdsUnique(u)
  BY <1>1 DEF Sound, IdsUnique
<1>4. \A k \in Kinds : Ids(u[k]) = Ids(t[k])
  <2>1. Ids(u[kind]) = Ids(t[kind])
    BY <1>1 DEF Ids
  <2> QED
    BY <1>1, <2>1
<1>5. /\ Ids(u.category) = Ids(t.category) /\ Ids(u.style) = Ids(t.style)
      /\ Ids(u.product) = Ids(t.product) /\ Ids(u.roomType) = Ids(t.roomType)
  BY <1>4 DEF Kinds
<1>6. CodesUnique(u)
  <2>1. CASE kind = "materialType"
    BY <1>1, <2>1 DEF Sound, CodesUnique
  <2>2. CASE kind # "materialType"
    <3>1. u.materialType = t.materialType
      BY <1>1, <2>2 DEF Kinds
    <3> QED
      BY <3>1 DEF Sound, CodesUnique
  <2> QED
    BY <2>1, <2>2
<1>7. ProductsHeld(u)
  <2>1. CASE kind = "product"
    BY <1>1, <1>5, <2>1 DEF Sound, ProductsHeld
  <2>2. CASE kind # "product"
    <3>1. u.product = t.product
      BY <1>1, <2>2 DEF Kinds
    <3> QED
      BY <1>5, <3>1 DEF Sound, ProductsHeld
  <2> QED
    BY <2>1, <2>2
<1>8. /\ \A r \in u.roomType :
            \E s \in t.roomType : r.id = s.id /\ r.categories = s.categories
      /\ \A s \in t.roomType :
            \E r \in u.roomType : r.id = s.id /\ r.categories = s.categories
  <2>1. CASE kind = "roomType"
    BY <1>1, <2>1
  <2>2. CASE kind # "roomType"
    <3>1. u.roomType = t.roomType
      BY <1>1, <2>2 DEF Kinds
    <3> QED
      BY <3>1
  <2> QED
    BY <2>1, <2>2
<1>9. LinksHeld(u)
  BY <1>5, <1>8 DEF Sound, LinksHeld
<1>10. DefaultsHeld(u, ds)
  BY <1>5, <1>8 DEF Sound, DefaultsHeld, Linked
<1> QED
  BY <1>2, <1>3, <1>6, <1>7, <1>9, <1>10 DEF Sound

\* The default materials es for a room type are of its categories.
LinkedIn(es, rt, categories) ==
    \A d \in es : d.rt = rt => d.cat \in categories

\* A room type gets other links; the default materials of those it had are gone.
LEMMA LinksSound ==
    ASSUME NEW t, NEW ds, Sound(t, ds), NEW old \in t.roomType, NEW new,
           DOMAIN new = RowFields("roomType"), new.id = old.id,
           Ordered(new.categories), DOMAIN new.categories \subseteq Ids(t.category),
           NEW u, u = [t EXCEPT !["roomType"] = (t.roomType \ {old}) \cup {new}],
           NEW es, es \subseteq ds, LinkedIn(es, old.id, DOMAIN new.categories)
    PROVE  Sound(u, es)
<1>1. /\ DOMAIN u = Kinds /\ u.roomType = (t.roomType \ {old}) \cup {new}
      /\ \A k \in Kinds \ {"roomType"} : u[k] = t[k]
      /\ u.product = t.product /\ u.category = t.category /\ u.style = t.style
      /\ u.materialType = t.materialType
  BY OneTable DEF Sound, RowsTyped, Kinds
<1>2. RowsTyped(u)
  BY <1>1 DEF Sound, RowsTyped, Kinds
<1>3. IdsUnique(u)
  BY <1>1 DEF Sound, IdsUnique, Kinds
<1>4. CodesUnique(u) /\ ProductsHeld(u)
  BY <1>1 DEF Sound, CodesUnique, ProductsHeld
<1>5. Ids(u.roomType) = Ids(t.roomType)
  BY <1>1 DEF Ids
<1>6. LinksHeld(u)
  BY <1>1, <1>5 DEF Sound, LinksHeld
<1>7. ASSUME NEW d \in es PROVE Linked(u.roomType, d.rt, d.cat)
  BY <1>1, <1>7 DEF Sound, DefaultsHeld, Linked, LinkedIn
<1>8. DefaultsHeld(u, es)
  BY <1>1, <1>7 DEF Sound, DefaultsHeld
<1> QED
  BY <1>2, <1>3, <1>4, <1>6, <1>8 DEF Sound

\* Nothing refers to the row of this kind and id, once the default materials are es.
Unreferred(t, es, kind, id) ==
    /\ kind = "product" => \A d \in es : d.product # id
    /\ kind = "category" => /\ \A p \in t.product : p.category # id
                            /\ \A r \in t.roomType : id \notin DOMAIN r.categories
    /\ kind = "style" => \A d \in es : d.style # id

Without(rows, id) == {row \in rows : row.id # id}

\* Rows that nothing refers to are removed.
LEMMA RemoveSound ==
    ASSUME NEW t, NEW ds, Sound(t, ds), NEW kind \in {"product", "category", "style"},
           NEW id, NEW es, es \subseteq ds,
           Unreferred(t, es, kind, id),
           NEW u, u = [t EXCEPT ![kind] = Without(t[kind], id)]
    PROVE  Sound(u, es)
<1>1. /\ DOMAIN u = Kinds /\ u[kind] = {row \in t[kind] : row.id # id}
      /\ \A k \in Kinds \ {kind} : u[k] = t[k]
      /\ u.roomType = t.roomType /\ u.materialType = t.materialType
  BY OneTable DEF Sound, RowsTyped, Kinds, Without
<1>2. RowsTyped(u)
  BY <1>1 DEF Sound, RowsTyped
<1>3. IdsUnique(u)
  BY <1>1 DEF Sound, IdsUnique
<1>4. CodesUnique(u)
  BY <1>1 DEF Sound, CodesUnique
<1>5. /\ \A x \in Ids(t.product) : x \in Ids(u.product) \/ (kind = "product" /\ x = id)
      /\ \A x \in Ids(t.category) : x \in Ids(u.category) \/ (kind = "category" /\ x = id)
      /\ \A x \in Ids(t.style) : x \in Ids(u.style) \/ (kind = "style" /\ x = id)
  <2>1. \A k \in Kinds : \A x \in Ids(t[k]) : x \in Ids(u[k]) \/ (kind = k /\ x = id)
    BY <1>1 DEF Ids
  <2> QED
    BY <2>1 DEF Kinds
<1>6. u.product \subseteq t.product
  BY <1>1 DEF Kinds
<1>7. ProductsHeld(u)
  BY <1>5, <1>6 DEF Sound, ProductsHeld, Unreferred
<1>8. LinksHeld(u)
  BY <1>1, <1>5 DEF Sound, LinksHeld, Unreferred
<1>9. DefaultsHeld(u, es)
  BY <1>1, <1>5 DEF Sound, DefaultsHeld, Unreferred
<1> QED
  BY <1>2, <1>3, <1>4, <1>7, <1>8, <1>9 DEF Sound

-----------------------------------------------------------------------------
(* The order of the categories of a room type.                             *)

\* The places of a list are those of a list: from nought, below its length.
LEMMA PlacedOrdered ==
    ASSUME NEW S, NEW list \in Seq(S), IsInjective(list)
    PROVE  LET links == Placed(list)
           IN  /\ Ordered(links) /\ DOMAIN links = Range(list) /\ Range(list) \subseteq S
               /\ \A cat \in DOMAIN links : links[cat] < Cardinality(DOMAIN links)
<1> DEFINE n == Len(list)
           links == Placed(list)
<1>1. /\ n \in Nat /\ DOMAIN list = 1..n /\ \A i \in 1..n : list[i] \in S
      /\ \A i, j \in 1..n : list[i] = list[j] => i = j
  BY DEF IsInjective
<1>2. DOMAIN links = Range(list) /\ Range(list) = {list[i] : i \in 1..n}
  BY <1>1 DEF Placed, Range
<1>3. ASSUME NEW cat \in Range(list)
      PROVE  \E i \in 1..n : list[i] = cat /\ links[cat] = i - 1
  <2>1. \E i \in DOMAIN list : list[i] = cat
    BY <1>1, <1>2
  <2>2. PICK i : i = CHOOSE k \in DOMAIN list : list[k] = cat
    OBVIOUS
  <2>3. i \in DOMAIN list /\ list[i] = cat
    BY <2>1, <2>2
  <2>4. links[cat] = i - 1
    BY <2>2 DEF Placed
  <2> QED
    BY <1>1, <2>3, <2>4
<1> HIDE DEF links
<1>4. ExistsBijection(1..n, Range(list))
  <2>1. list \in [1..n -> Range(list)]
    BY <1>1, <1>2
  <2>2. list \in Bijection(1..n, Range(list))
    BY <1>1, <1>2, <2>1 DEF Bijection, Injection, Surjection, IsInjective, Range
  <2> QED
    BY <2>2 DEF ExistsBijection
<1>5. IsFiniteSet(Range(list)) /\ Cardinality(Range(list)) = n
  <2> HIDE DEF n
  <2>1. 1 \in Int /\ n \in Int /\ (IF 1 > n THEN 0 ELSE n - 1 + 1) = n
    BY <1>1
  <2>2. IsFiniteSet(1..n) /\ Cardinality(1..n) = n
    BY <2>1, FS_Interval
  <2> QED
    BY <1>4, <2>2, FS_Bijection
<1>6. IsInjective(links)
  BY <1>2, <1>3 DEF IsInjective
<1>7. \A cat \in DOMAIN links : links[cat] \in Nat /\ links[cat] < n
  BY <1>1, <1>2, <1>3
<1> QED
  BY <1>1, <1>2, <1>5, <1>6, <1>7 DEF Ordered, links

\* What the administrators have added goes behind, in its order.
LEMMA MergedOrdered ==
    ASSUME NEW row, Ordered(row.categories),
           \A cat \in DOMAIN row.categories :
              row.categories[cat] < Cardinality(DOMAIN row.categories),
           NEW r \in table.roomType, r.id = row.id, Ordered(r.categories),
           \A s \in table.roomType : s.id = row.id => s = r
    PROVE  /\ Ordered(MergedCategories(row))
           /\ DOMAIN MergedCategories(row) =
                 DOMAIN row.categories \cup DOMAIN r.categories
<1> DEFINE own == row.categories
           old == r.categories
           added == DOMAIN old \ DOMAIN own
           before(cat) == {other \in added : old[other] < old[cat]}
           n == Cardinality(DOMAIN own)
           merged == MergedCategories(row)
<1>1. r = CHOOSE s \in table.roomType : s.id = row.id
  OBVIOUS
<1>2. /\ DOMAIN merged = DOMAIN own \cup added
      /\ \A cat \in DOMAIN own : merged[cat] = own[cat]
      /\ \A cat \in added : merged[cat] = n + Cardinality(before(cat))
  BY <1>1 DEF MergedCategories
<1>3. /\ IsFiniteSet(DOMAIN own) /\ IsFiniteSet(DOMAIN old) /\ n \in Nat
      /\ \A cat \in DOMAIN own : own[cat] \in Nat /\ own[cat] < n
      /\ \A cat \in DOMAIN old : old[cat] \in Nat
      /\ \A cat, other \in DOMAIN own : own[cat] = own[other] => cat = other
      /\ \A cat, other \in DOMAIN old : old[cat] = old[other] => cat = other
  BY FS_CardinalityType DEF Ordered, IsInjective
<1>4. IsFiniteSet(added)
  BY <1>3, FS_Difference
<1>5. ASSUME NEW cat \in added
      PROVE  IsFiniteSet(before(cat)) /\ Cardinality(before(cat)) \in Nat
  BY <1>4, FS_Subset, FS_CardinalityType
<1>6. ASSUME NEW cat \in added, NEW other \in added, old[cat] < old[other]
      PROVE  Cardinality(before(cat)) # Cardinality(before(other))
  <2>1. before(cat) \subseteq before(other)
    BY <1>3, <1>6
  <2>2. cat \in before(other) /\ cat \notin before(cat)
    BY <1>3, <1>6
  <2> QED
    BY <1>5, <2>1, <2>2, FS_Subset
<1> DEFINE rank == [cat \in added |-> Cardinality(before(cat))]
<1>7. /\ \A cat \in added : merged[cat] = n + rank[cat] /\ rank[cat] \in Nat
      /\ \A cat, other \in added : old[cat] < old[other] => rank[cat] # rank[other]
  BY <1>2, <1>5, <1>6
<1>8. \A cat \in added : cat \in DOMAIN old /\ cat \notin DOMAIN own
  OBVIOUS
<1> DEFINE goal == /\ Ordered(MergedCategories(row))
                   /\ DOMAIN MergedCategories(row) = DOMAIN own \cup DOMAIN old
<1>9. goal <=> Ordered(merged)
  BY <1>2
<1> HIDE DEF merged, n, before, rank, added, own, old
<1>10. ASSUME NEW cat \in DOMAIN merged, NEW other \in DOMAIN merged,
              merged[cat] = merged[other]
       PROVE  cat = other
  <2>1. CASE cat \in DOMAIN own /\ other \in DOMAIN own
    BY <1>2, <1>3, <1>10, <2>1
  <2>2. CASE cat \in DOMAIN own /\ other \in added
    BY <1>2, <1>3, <1>7, <1>10, <2>2
  <2>3. CASE cat \in added /\ other \in DOMAIN own
    BY <1>2, <1>3, <1>7, <1>10, <2>3
  <2>4. CASE cat \in added /\ other \in added
    <3>1. rank[cat] = rank[other]
      BY <1>3, <1>7, <1>10, <2>4
    <3>2. ~ (old[cat] < old[other]) /\ ~ (old[other] < old[cat])
      BY <1>7, <2>4, <3>1
    <3>3. old[cat] = old[other]
      BY <1>3, <1>8, <2>4, <3>2
    <3> QED
      BY <1>3, <1>8, <2>4, <3>3
  <2> QED
    BY <1>2, <2>1, <2>2, <2>3, <2>4
<1>11. IsInjective(merged)
  BY <1>10 DEF IsInjective
<1>12. IsFiniteSet(DOMAIN merged)
  <2>1. IsFiniteSet(DOMAIN own \cup added)
    BY <1>3, <1>4, FS_Union
  <2> QED
    BY <1>2, <2>1
<1>13. \A cat \in DOMAIN merged : merged[cat] \in Nat
  BY <1>2, <1>3, <1>7
<1>14. Ordered(merged)
  BY <1>11, <1>12, <1>13 DEF Ordered
<1> QED
  BY <1>9, <1>14 DEF goal, own, old

-----------------------------------------------------------------------------
(* The dataset, stored.                                                    *)

LEMMA StoredRow ==
    ASSUME NEW kind \in Kinds, NEW row \in Seed[kind], NEW time
    PROVE  LET s == Stored(kind, row, time)
           IN  /\ DOMAIN s = RowFields(kind) /\ s.rev = time /\ s.id = row.id
               /\ kind = "roomType" =>
                     s.categories = Placed(row.categories) /\ s.texts = row.texts
               /\ kind # "roomType" =>
                     /\ s.status = row.status /\ s.status \in Statuses
                     /\ \A field \in Fields[kind] : s[field] = row[field]
<1> DEFINE base == IF kind = "roomType"
                   THEN [rev |-> time, categories |-> Placed(row.categories)]
                   ELSE [rev |-> time]
           s == Stored(kind, row, time)
<1>0. s = Over(base, row)
  BY DEF Stored
<1> HIDE DEF s, base
<1>1. /\ DOMAIN s = DOMAIN base \cup DOMAIN row
      /\ \A f \in DOMAIN base : s[f] = base[f]
      /\ \A f \in DOMAIN row \ DOMAIN base : s[f] = row[f]
  BY <1>0 DEF Over
<1>2. CASE kind = "roomType"
  <2>1. DOMAIN row = {"id", "categories", "texts"}
    BY <1>2, SeedAssumption DEF DatasetValid, Fields
  <2>2. /\ DOMAIN base = {"rev", "categories"}
        /\ base.rev = time /\ base.categories = Placed(row.categories)
    BY <1>2 DEF base
  <2>3. s.rev = time /\ s.categories = Placed(row.categories)
    BY <1>1, <2>2
  <2>4. s.id = row.id /\ s.texts = row.texts
    BY <1>1, <2>1, <2>2
  <2>5. DOMAIN s = RowFields(kind)
    BY <1>1, <1>2, <2>1, <2>2, KindsKnown
  <2> QED
    BY <1>2, <2>3, <2>4, <2>5 DEF s
<1>3. CASE kind # "roomType"
  <2>1. DOMAIN row = {"id", "status"} \cup Fields[kind] /\ row.status \in Statuses
    BY <1>3, SeedAssumption DEF DatasetValid
  <2>2. DOMAIN base = {"rev"} /\ base.rev = time
    BY <1>3 DEF base
  <2>3. "rev" \notin Fields[kind]
    BY DEF Fields, Kinds
  <2>4. /\ s.rev = time /\ s.id = row.id /\ s.status = row.status
        /\ \A field \in Fields[kind] : s[field] = row[field]
    BY <1>1, <2>1, <2>2, <2>3
  <2>5. DOMAIN s = RowFields(kind)
    BY <1>1, <1>3, <2>1, <2>2 DEF RowFields
  <2> QED
    BY <1>3, <2>1, <2>4, <2>5 DEF s
<1> QED
  BY <1>2, <1>3

LEMMA SeedIds ==
    ASSUME NEW kind \in Kinds, NEW time
    PROVE  /\ Ids(SeedRows(kind, time)) = Ids(Seed[kind])
           /\ \A s \in SeedRows(kind, time) : s.rev = time /\ DOMAIN s = RowFields(kind)
           /\ \A r, s \in SeedRows(kind, time) : r.id = s.id => r = s
<1>1. \A row \in Seed[kind] :
         LET s == Stored(kind, row, time)
         IN  s.id = row.id /\ s.rev = time /\ DOMAIN s = RowFields(kind)
  BY StoredRow
<1>2. \A row, other \in Seed[kind] : row.id = other.id => row = other
  BY SeedAssumption DEF DatasetValid
<1> QED
  BY <1>1, <1>2 DEF SeedRows, Ids

\* The links of a room type of the dataset.
LEMMA SeedLinks ==
    ASSUME NEW rt \in Seed.roomType
    PROVE  LET links == Placed(rt.categories)
           IN  /\ Ordered(links) /\ DOMAIN links \subseteq Ids(Seed.category)
               /\ \A cat : Contains(rt.categories, cat) => cat \in DOMAIN links
               /\ \A cat \in DOMAIN links : links[cat] < Cardinality(DOMAIN links)
<1>1. rt.categories \in Seq(Ids(Seed.category)) /\ IsInjective(rt.categories)
  BY SeedAssumption DEF DatasetValid
<1>2. \A cat : Contains(rt.categories, cat) => cat \in Range(rt.categories)
  BY <1>1 DEF Contains, Range
<1> QED
  BY <1>1, <1>2, PlacedOrdered

\* What a seed row refers to.
LEMMA SeedRefers ==
    /\ \A p \in Seed.product : p.category \in Ids(Seed.category)
    /\ \A m, n \in Seed.materialType : m.code = n.code => m = n
    /\ \A d \in Seed.defaults :
          /\ d.style \in Ids(Seed.style) /\ d.product \in Ids(Seed.product)
          /\ \E rt \in Seed.roomType : rt.id = d.rt /\ d.cat \in DOMAIN Placed(rt.categories)
    /\ \A d, e \in Seed.defaults :
          <<d.style, d.rt, d.cat>> = <<e.style, e.rt, e.cat>> => d = e
<1>1. DatasetValid(Seed)
  BY SeedAssumption
<1>2. ASSUME NEW d \in Seed.defaults
      PROVE  /\ d.style \in Ids(Seed.style) /\ d.product \in Ids(Seed.product)
             /\ \E rt \in Seed.roomType :
                   rt.id = d.rt /\ d.cat \in DOMAIN Placed(rt.categories)
  <2>1. PICK rt \in Seed.roomType : rt.id = d.rt /\ Contains(rt.categories, d.cat)
    BY <1>1 DEF DatasetValid
  <2>2. d.cat \in DOMAIN Placed(rt.categories)
    BY <2>1, SeedLinks
  <2>3. d.style \in Ids(Seed.style) /\ d.product \in Ids(Seed.product)
    BY <1>1 DEF DatasetValid, Ids
  <2> QED
    BY <2>1, <2>2, <2>3
<1>3. \A p \in Seed.product : p.category \in Ids(Seed.category)
  BY <1>1 DEF DatasetValid
<1>4. \A m, n \in Seed.materialType : m.code = n.code => m = n
  BY <1>1 DEF DatasetValid
<1>5. \A d, e \in Seed.defaults :
          <<d.style, d.rt, d.cat>> = <<e.style, e.rt, e.cat>> => d = e
  BY <1>1 DEF DatasetValid
<1> QED
  BY <1>2, <1>3, <1>4, <1>5

LEMMA SeedSound ==
    ASSUME NEW time, NEW t, t = [kind \in Kinds |-> SeedRows(kind, time)]
    PROVE  Sound(t, Seed.defaults)
<1>1. /\ DOMAIN t = Kinds /\ \A kind \in Kinds : t[kind] = SeedRows(kind, time)
      /\ t.product = SeedRows("product", time) /\ t.category = SeedRows("category", time)
      /\ t.style = SeedRows("style", time) /\ t.roomType = SeedRows("roomType", time)
      /\ t.materialType = SeedRows("materialType", time)
  BY DEF Kinds
<1>2. /\ Ids(t.product) = Ids(Seed.product) /\ Ids(t.category) = Ids(Seed.category)
      /\ Ids(t.style) = Ids(Seed.style) /\ Ids(t.roomType) = Ids(Seed.roomType)
  <2>1. \A kind \in Kinds : Ids(SeedRows(kind, time)) = Ids(Seed[kind])
    BY SeedIds
  <2> QED
    BY <1>1, <2>1 DEF Kinds
<1>3. RowsTyped(t)
  BY <1>1, StoredRow DEF RowsTyped, SeedRows
<1>4. IdsUnique(t)
  BY <1>1, SeedIds DEF IdsUnique
<1>5. CodesUnique(t)
  <2>1. \A m \in Seed.materialType : Stored("materialType", m, time).code = m.code
    BY StoredRow DEF Kinds, Fields
  <2> QED
    BY <1>1, <2>1, SeedRefers DEF CodesUnique, SeedRows
<1>6. ProductsHeld(t)
  <2>1. \A p \in Seed.product : Stored("product", p, time).category = p.category
    BY StoredRow DEF Kinds, Fields
  <2> QED
    BY <1>1, <1>2, <2>1, SeedRefers DEF ProductsHeld, SeedRows
<1>7. \A r \in t.roomType : \E rt \in Seed.roomType :
         r.id = rt.id /\ r.categories = Placed(rt.categories)
  BY <1>1, StoredRow DEF SeedRows, Kinds
<1>8. LinksHeld(t)
  BY <1>2, <1>7, SeedLinks DEF LinksHeld
<1>9. \A rt \in Seed.roomType : \E r \in t.roomType :
         r.id = rt.id /\ r.categories = Placed(rt.categories)
  BY <1>1, StoredRow DEF SeedRows, Kinds
<1>10. DefaultsHeld(t, Seed.defaults)
  BY <1>2, <1>9, SeedRefers DEF DefaultsHeld, Linked
<1> QED
  BY <1>3, <1>4, <1>5, <1>6, <1>8, <1>10 DEF Sound

\* The seed script writes over every room type there is.
LEMMA RoomTypesUpserted ==
    ASSUME Sound(table, defaults)
    PROVE  Upserted("roomType") = SeedRows("roomType", "upsert")
<1> DEFINE rows == SeedRows("roomType", "upsert")
<1>1. Ids(rows) = Ids(Seed.roomType)
  BY SeedIds DEF Kinds
<1>2. Ids(table.roomType) = Ids(Seed.roomType)
  BY DEF Sound, LinksHeld
<1> HIDE DEF rows
<1>3. \A row \in table.roomType : row.id \in Ids(rows)
  BY <1>1, <1>2 DEF Ids
<1> QED
  BY <1>3 DEF Upserted, rows

LEMMA UpsertSound ==
    ASSUME Sound(table, defaults), NEW u,
           u = [kind \in Kinds |->
                    IF kind # "roomType" THEN Upserted(kind)
                    ELSE {[row EXCEPT !.categories = MergedCategories(row)] :
                             row \in Upserted(kind)}]
    PROVE  Sound(u, {d \in defaults : d.style \notin Ids(Seed.style)} \cup Seed.defaults)
<1> DEFINE rows(kind) == SeedRows(kind, "upsert")
           kept(kind) == {row \in table[kind] :
                /\ row.id \notin Ids(rows(kind))
                /\ kind = "materialType" => \A s \in rows(kind) : s.code # row.code}
           es == {d \in defaults : d.style \notin Ids(Seed.style)} \cup Seed.defaults
<1>1. /\ DOMAIN u = Kinds
      /\ \A kind \in Kinds \ {"roomType"} : u[kind] = kept(kind) \cup rows(kind)
      /\ u.product = kept("product") \cup rows("product")
      /\ u.category = kept("category") \cup rows("category")
      /\ u.style = kept("style") \cup rows("style")
      /\ u.materialType = kept("materialType") \cup rows("materialType")
  BY DEF Kinds, Upserted
<1>01. /\ Ids(rows("roomType")) = Ids(Seed.roomType)
      /\ \A r, s \in rows("roomType") : r.id = s.id => r = s
  BY SeedIds DEF Kinds
<1>02. Ids(table.roomType) = Ids(Seed.roomType)
  BY DEF Sound, LinksHeld
<1>2. Upserted("roomType") = rows("roomType")
  BY RoomTypesUpserted
<1>3. u.roomType = {[row EXCEPT !.categories = MergedCategories(row)] :
                        row \in rows("roomType")}
  BY <1>2 DEF Kinds
<1>4. \A row \in rows("roomType") :
         /\ DOMAIN row = RowFields("roomType") /\ row.id \in Ids(Seed.roomType)
         /\ \E rt \in Seed.roomType : row.id = rt.id /\ row.categories = Placed(rt.categories)
  BY StoredRow DEF SeedRows, Kinds, Ids
<1>5. ASSUME NEW row \in rows("roomType"), NEW r \in table.roomType, r.id = row.id
      PROVE  /\ Ordered(MergedCategories(row))
             /\ DOMAIN MergedCategories(row) = DOMAIN row.categories \cup DOMAIN r.categories
             /\ DOMAIN row.categories \subseteq Ids(Seed.category)
  <2>1. PICK rt \in Seed.roomType : row.id = rt.id /\ row.categories = Placed(rt.categories)
    BY <1>4
  <2>2. /\ Ordered(row.categories) /\ DOMAIN row.categories \subseteq Ids(Seed.category)
        /\ \A cat \in DOMAIN row.categories :
              row.categories[cat] < Cardinality(DOMAIN row.categories)
    BY <2>1, SeedLinks
  <2>3. Ordered(r.categories) /\ \A s \in table.roomType : s.id = row.id => s = r
    BY <1>5 DEF Sound, LinksHeld, IdsUnique, Kinds
  <2> QED
    BY <1>5, <2>2, <2>3, MergedOrdered
<1>6. \A row \in rows("roomType") : \E r \in table.roomType : r.id = row.id
  BY <1>4 DEF Sound, LinksHeld, Ids
<1>7. ASSUME NEW r \in u.roomType
      PROVE  \E row \in rows("roomType"), old \in table.roomType :
                /\ DOMAIN r = RowFields("roomType")
                /\ r.id = row.id /\ old.id = row.id /\ r.categories = MergedCategories(row)
  <2>1. PICK row \in rows("roomType") :
            r = [row EXCEPT !.categories = MergedCategories(row)]
    BY <1>3
  <2>2. DOMAIN r = RowFields("roomType") /\ r.id = row.id
        /\ r.categories = MergedCategories(row)
    BY <1>4, <2>1, KindsKnown
  <2> QED
    BY <1>6, <2>2
<1>8. ASSUME NEW row \in rows("roomType")
      PROVE  \E r \in u.roomType : r.id = row.id /\ r.categories = MergedCategories(row)
  <2>1. [row EXCEPT !.categories = MergedCategories(row)] \in u.roomType
    BY <1>3
  <2> QED
    BY <1>4, <2>1, KindsKnown
<1>9. \A kind \in Kinds : \A row \in rows(kind) :
         /\ DOMAIN row = RowFields(kind)
         /\ kind # "roomType" => row.status \in Statuses
  BY StoredRow DEF SeedRows
<1>10. RowsTyped(u)
  <2>1. \A kind \in Kinds \ {"roomType"} : \A row \in u[kind] :
            DOMAIN row = RowFields(kind) /\ row.status \in Statuses
    BY <1>1, <1>9 DEF Sound, RowsTyped
  <2> QED
    BY <1>1, <1>7, <2>1 DEF RowsTyped
<1>11. IdsUnique(u)
  <2>1. \A kind \in Kinds \ {"roomType"} : \A row, other \in u[kind] :
            row.id = other.id => row = other
    BY <1>1, SeedIds DEF Sound, IdsUnique, Ids
  <2>2. \A row, other \in u.roomType : row.id = other.id => row = other
    <3> SUFFICES ASSUME NEW r \in u.roomType, NEW s \in u.roomType, r.id = s.id
                 PROVE  r = s
      OBVIOUS
    <3> HIDE DEF rows
    <3>1. PICK row \in rows("roomType") :
              r = [row EXCEPT !.categories = MergedCategories(row)]
      BY <1>3
    <3>2. PICK other \in rows("roomType") :
              s = [other EXCEPT !.categories = MergedCategories(other)]
      BY <1>3
    <3>3. r.id = row.id /\ s.id = other.id
      BY <1>4, <3>1, <3>2, KindsKnown
    <3>4. row = other
      BY <1>01, <3>3
    <3> QED
      BY <3>1, <3>2, <3>4
  <2> QED
    BY <2>1, <2>2 DEF IdsUnique, Kinds
<1>12. CodesUnique(u)
  <2>1. \A m \in Seed.materialType : Stored("materialType", m, "upsert").code = m.code
    BY StoredRow DEF Kinds, Fields
  <2>2. \A m, n \in rows("materialType") : m.code = n.code => m = n
    BY <2>1, SeedRefers DEF SeedRows
  <2> QED
    BY <1>1, <2>2 DEF Sound, CodesUnique
<1>13. /\ Ids(table.product) \cup Ids(Seed.product) \subseteq Ids(u.product)
       /\ Ids(table.category) \cup Ids(Seed.category) \subseteq Ids(u.category)
       /\ Ids(table.style) \cup Ids(Seed.style) \subseteq Ids(u.style)
  <2>1. \A kind \in {"product", "category", "style"} :
            Ids(table[kind]) \cup Ids(rows(kind)) \subseteq Ids(u[kind])
    <3>1. ASSUME NEW kind \in {"product", "category", "style"}, NEW row \in table[kind]
          PROVE  row.id \in Ids(u[kind])
      <4>1. u[kind] = kept(kind) \cup rows(kind)
        BY <1>1 DEF Kinds
      <4> HIDE DEF rows
      <4>2. CASE row.id \in Ids(rows(kind))
        BY <4>1, <4>2 DEF Ids
      <4>3. CASE row.id \notin Ids(rows(kind))
        BY <4>1, <4>3 DEF Ids
      <4> QED
        BY <4>2, <4>3
    <3>2. \A kind \in {"product", "category", "style"} : rows(kind) \subseteq u[kind]
      BY <1>1 DEF Kinds
    <3> HIDE DEF rows
    <3>3. ASSUME NEW kind \in {"product", "category", "style"},
                 NEW x \in Ids(table[kind]) \cup Ids(rows(kind))
          PROVE  x \in Ids(u[kind])
      <4>1. CASE x \in Ids(table[kind])
        <5>1. PICK row \in table[kind] : x = row.id
          BY <4>1 DEF Ids
        <5> QED
          BY <3>1, <5>1
      <4>2. CASE x \in Ids(rows(kind))
        <5>1. rows(kind) \subseteq u[kind]
          BY <3>2
        <5> HIDE DEF rows
        <5> QED
          BY <5>1, <4>2 DEF Ids
      <4> QED
        BY <4>1, <4>2
    <3> QED
      BY <3>3
  <2>2. \A kind \in {"product", "category", "style"} : Ids(rows(kind)) = Ids(Seed[kind])
    BY SeedIds DEF Kinds
  <2> QED
    BY <2>1, <2>2
<1>14. ProductsHeld(u)
  <2>1. \A p \in rows("product") : p.category \in Ids(Seed.category)
    BY StoredRow, SeedRefers DEF SeedRows, Kinds, Fields
  <2> QED
    BY <1>1, <1>13, <2>1 DEF Sound, ProductsHeld
<1>15. Ids(u.roomType) = Ids(Seed.roomType)
  <2> HIDE DEF rows
  <2>1. Ids(u.roomType) = Ids(rows("roomType"))
    <3>1. \A r \in u.roomType : \E row \in rows("roomType") : r.id = row.id
      BY <1>7
    <3>2. \A row \in rows("roomType") : \E r \in u.roomType : r.id = row.id
      BY <1>8
    <3>3. \A x \in Ids(u.roomType) : x \in Ids(rows("roomType"))
      BY <3>1 DEF Ids
    <3>4. \A x \in Ids(rows("roomType")) : x \in Ids(u.roomType)
      BY <3>2 DEF Ids
    <3> QED
      BY <3>3, <3>4
  <2> QED
    BY <1>01, <2>1
<1>16. LinksHeld(u)
  <2>1. ASSUME NEW r \in u.roomType
        PROVE  Ordered(r.categories) /\ DOMAIN r.categories \subseteq Ids(u.category)
    <3>1. PICK row \in rows("roomType"), old \in table.roomType :
              r.id = row.id /\ old.id = row.id /\ r.categories = MergedCategories(row)
      BY <1>7
    <3>2. DOMAIN old.categories \subseteq Ids(table.category)
      BY DEF Sound, LinksHeld
    <3> QED
      BY <1>5, <1>13, <3>1, <3>2
  <2> QED
    BY <1>15, <2>1 DEF LinksHeld
<1>17. ASSUME NEW rt, NEW cat, Linked(table.roomType, rt, cat)
       PROVE  Linked(u.roomType, rt, cat)
  <2>1. PICK old \in table.roomType : old.id = rt /\ cat \in DOMAIN old.categories
    BY <1>17 DEF Linked
  <2>2. PICK row \in rows("roomType") : row.id = rt
    <3> HIDE DEF rows
    <3> QED
      BY <1>01, <1>02, <2>1 DEF Ids
  <2>3. PICK r \in u.roomType : r.id = row.id /\ r.categories = MergedCategories(row)
    BY <1>8
  <2> QED
    BY <1>5, <2>1, <2>2, <2>3 DEF Linked
<1>18. ASSUME NEW d \in Seed.defaults
       PROVE  Linked(u.roomType, d.rt, d.cat)
  <2>1. PICK rt \in Seed.roomType : rt.id = d.rt /\ d.cat \in DOMAIN Placed(rt.categories)
    BY SeedRefers
  <2>2. PICK row \in rows("roomType") : row.id = d.rt /\ d.cat \in DOMAIN row.categories
    <3>1. Stored("roomType", rt, "upsert") \in rows("roomType")
      BY DEF SeedRows
    <3> QED
      BY <2>1, <3>1, StoredRow DEF Kinds
  <2>3. PICK old \in table.roomType : old.id = row.id
    BY <1>6
  <2>4. PICK r \in u.roomType : r.id = row.id /\ r.categories = MergedCategories(row)
    BY <1>8
  <2> QED
    BY <1>5, <2>2, <2>3, <2>4 DEF Linked
<1>19. DefaultsHeld(u, es)
  <2>1. ASSUME NEW d \in es
        PROVE  /\ d.style \in Ids(u.style) /\ d.product \in Ids(u.product)
               /\ Linked(u.roomType, d.rt, d.cat)
    <3>1. CASE d \in Seed.defaults
      BY <1>13, <1>18, <3>1, SeedRefers
    <3>2. CASE d \in defaults
      BY <1>13, <1>17, <3>2 DEF Sound, DefaultsHeld
    <3> QED
      BY <3>1, <3>2
  <2>2. ASSUME NEW d \in es, NEW e \in es,
               <<d.style, d.rt, d.cat>> = <<e.style, e.rt, e.cat>>
        PROVE  d = e
    <3>1. d.style = e.style
      BY <2>2
    <3>2. CASE d \in Seed.defaults /\ e \in Seed.defaults
      BY <2>2, <3>2, SeedRefers
    <3>3. CASE d \notin Seed.defaults /\ e \notin Seed.defaults
      BY <2>2, <3>3 DEF Sound, DefaultsHeld
    <3>4. CASE d \in Seed.defaults /\ e \notin Seed.defaults
      BY <3>1, <3>4, SeedRefers
    <3>5. CASE d \notin Seed.defaults /\ e \in Seed.defaults
      BY <3>1, <3>5, SeedRefers
    <3> QED
      BY <3>2, <3>3, <3>4, <3>5
  <2> QED
    BY <2>1, <2>2 DEF DefaultsHeld
<1> QED
  BY <1>10, <1>11, <1>12, <1>14, <1>16, <1>19 DEF Sound

-----------------------------------------------------------------------------
(* What the operations are, and what the checks may answer.                *)

LEMMA OpKnown ==
    ASSUME Shapes, NEW q \in Requests
    PROVE  /\ IsOperation(Op(q)) /\ Op(q).kind \in Kinds
           /\ Op(q).kind = "product" =>
                 Op(q).verb \in {"create", "patch", "status", "remove"}
           /\ Op(q).verb = "create" => Op(q).kind # "roomType"
           /\ Op(q).verb = "categories" => Op(q).kind = "roomType"
           /\ Op(q).verb = "defaults" => Op(q).kind = "style"
           /\ Op(q).verb = "remove" => Op(q).kind \in {"product", "category", "style"}
<1>1. IsOperation(Op(q))
  BY OperationsAssumption DEF Shapes
<1> QED
  BY <1>1 DEF IsOperation, Kinds

\* The fields an edit may set.
LEMMA OpEdits ==
    ASSUME Shapes, NEW q \in Requests, Op(q).verb \in {"patch", "status"}
    PROVE  LET op == Op(q)
           IN  /\ DOMAIN op.patch \subseteq RowFields(op.kind) \ {"id", "rev", "code"}
               /\ "categories" \notin DOMAIN op.patch
               /\ op.verb = "patch" /\ op.kind # "materialType" =>
                     "status" \notin DOMAIN op.patch
               /\ op.verb = "status" =>
                     /\ DOMAIN op.patch = {"status"}
                     /\ op.kind \in {"product", "category", "style"}
               /\ "status" \in DOMAIN op.patch => op.patch.status \in Statuses
<1>1. IsOperation(Op(q)) /\ Op(q).kind \in Kinds
  BY OpKnown
<1>2. CASE Op(q).verb = "patch" /\ Op(q).kind # "materialType"
  <2>1. DOMAIN Op(q).patch \subseteq Fields[Op(q).kind]
    BY <1>1, <1>2 DEF IsOperation
  <2>2. /\ Fields[Op(q).kind] \subseteq RowFields(Op(q).kind)
        /\ {"status", "id", "rev", "categories"} \cap Fields[Op(q).kind] = {}
        /\ "code" \in Fields[Op(q).kind] => Op(q).kind = "materialType"
    BY <1>1 DEF Fields, RowFields, Kinds
  <2> QED
    BY <1>2, <2>1, <2>2
<1>3. CASE Op(q).verb = "patch" /\ Op(q).kind = "materialType"
  <2>1. /\ DOMAIN Op(q).patch \subseteq {"texts", "status"}
        /\ "status" \in DOMAIN Op(q).patch => Op(q).patch.status \in Statuses
    BY <1>1, <1>3 DEF IsOperation
  <2> QED
    BY <1>3, <2>1, KindsKnown
<1>4. CASE Op(q).verb = "status"
  <2>1. /\ Op(q).kind \in {"product", "category", "style"}
        /\ DOMAIN Op(q).patch = {"status"} /\ Op(q).patch.status \in Statuses
    BY <1>1, <1>4 DEF IsOperation
  <2> QED
    BY <1>4, <2>1, KindsKnown
<1> QED
  BY <1>2, <1>3, <1>4

Refusals == {"invalid", "inUse", "stale", "taken"}

LEMMA ObjectionKnown ==
    ASSUME Shapes, NEW q \in Requests
    PROVE  Objection(q) \in {None} \cup Refusals
<1> USE DEF Refusals
<1>1. CASE Op(q).kind = "product"
  <2>1. ProductPatchObjection(q) \in {None} \cup Refusals
    BY DEF ProductPatchObjection
  <2>2. ProductObjection(q) \in {None} \cup Refusals
    BY <1>1, <2>1, OpKnown DEF ProductObjection
  <2> QED
    BY <1>1, <2>2 DEF Objection
<1>2. CASE Op(q).kind = "category"
  <2>1. CategoryObjection(q) \in {None} \cup Refusals
    BY DEF CategoryObjection
  <2> QED
    BY <1>2, <2>1 DEF Objection
<1>3. CASE Op(q).kind = "style"
  <2>1. StyleObjection(q) \in {None} \cup Refusals
    BY DEF StyleObjection
  <2> QED
    BY <1>3, <2>1 DEF Objection
<1>4. CASE Op(q).kind = "materialType"
  <2>1. MaterialTypeObjection(q) \in {None} \cup Refusals
    BY DEF MaterialTypeObjection
  <2> QED
    BY <1>4, <2>1 DEF Objection
<1>5. CASE Op(q).kind = "roomType"
  <2>1. RoomTypeObjection(q) \in {None} \cup Refusals
    BY DEF RoomTypeObjection
  <2> QED
    BY <1>5, <2>1 DEF Objection
<1> QED
  BY <1>1, <1>2, <1>3, <1>4, <1>5, OpKnown DEF Kinds

-----------------------------------------------------------------------------
(* Steps by what they do to the requests: nothing is written, a request     *)
(* writes, the dataset is written.                                         *)

\* Only request q moves, and it does not write.
Moves(q, e) ==
    /\ req' = [req EXCEPT ![q] = e]
    /\ DOMAIN e = DOMAIN req[q] /\ e.op = Op(q)
    /\ req[q].at # "ok" /\ e.at # "ok"
    /\ e.at \in {"sent", "check", "write"} \cup Answers
    /\ UNCHANGED <<table, defaults, seeded>>

LEMMA MovesFrame ==
    ASSUME Shapes, NEW q \in Requests, NEW e, Moves(q, e)
    PROVE  /\ Shapes' /\ Done' = Done
           /\ req'[q] = e
           /\ \A p \in Requests : Op(p)' = Op(p)
           /\ \A p \in Requests \ {q} : req'[p] = req[p]
<1>1. /\ DOMAIN req' = Requests /\ req'[q] = e
      /\ \A p \in Requests \ {q} : req'[p] = req[p]
  BY DEF Moves, Shapes
<1>2. \A p \in Requests : Op(p)' = Op(p)
  BY <1>1 DEF Moves, Op
<1>3. Done' = Done
  BY <1>1 DEF Moves, Done
<1>4. Shapes'
  BY <1>1, <1>2 DEF Moves, Shapes
<1> QED
  BY <1>1, <1>2, <1>3, <1>4

LEMMA MovesRead ==
    ASSUME ReadInv, NEW q \in Requests, NEW e, Moves(q, e), Stands(q)'
    PROVE  ReadInv'
<1> USE DEF ReadInv
<1>1. /\ Shapes' /\ Done' = Done /\ req'[q] = e
      /\ \A p \in Requests : Op(p)' = Op(p)
      /\ \A p \in Requests \ {q} : req'[p] = req[p]
  BY MovesFrame
<1>2. table' = table /\ defaults' = defaults /\ seeded' = seeded
  BY DEF Moves
<1>3. SeedsAllowed' /\ Sound(table', defaults')
  BY <1>2 DEF SeedsAllowed
<1>4. NamesStand'
  <2>1. \A p \in Requests : req'[p].at = "ok" <=> req[p].at = "ok"
    BY <1>1 DEF Moves
  <2> QED
    BY <1>1, <1>2, <2>1 DEF NamesStand, Known
<1>5. ASSUME NEW p \in Requests \ {q} PROVE Stands(p)'
  <2>1. req'[p] = req[p] /\ Op(p)' = Op(p) /\ Current(p)' = Current(p)
    BY <1>1, <1>2 DEF Current, Rows
  <2>2. Stands(p)
    OBVIOUS
  <2> QED
    BY <1>1, <2>1, <2>2 DEF Stands, Known
<1> QED
  BY <1>1, <1>3, <1>4, <1>5

\* A request that is answered stands for nothing any more.
LEMMA EndsRead ==
    ASSUME ReadInv, NEW q \in Requests, req[q].at \in {"sent", "check", "write"},
           NEW answer \in Answers \ {"ok"}, Ends(q, answer),
           UNCHANGED <<table, defaults, seeded>>
    PROVE  Moves(q, [req[q] EXCEPT !.at = answer]) /\ ReadInv'
<1> DEFINE e == [req[q] EXCEPT !.at = answer]
<1>1. /\ DOMAIN req = Requests
      /\ DOMAIN req[q] = {"op", "at", "target", "row", "surface", "seen"}
  BY DEF ReadInv, Shapes
<1>2. DOMAIN e = DOMAIN req[q] /\ e.op = Op(q) /\ e.at = answer
  BY <1>1 DEF Op
<1>3. req' = [req EXCEPT ![q] = e]
  BY DEF Ends
<1> HIDE DEF e
<1>4. Moves(q, e)
  BY <1>2, <1>3 DEF Moves
<1>5. req'[q].at = answer
  BY <1>1, <1>2, <1>3
<1>6. Stands(q)'
  BY <1>5 DEF Stands, Answers
<1> QED
  BY <1>4, <1>6, MovesRead DEF e

\* Request q writes: every row that was not there bears its name.
Writes(q) ==
    /\ req[q].at = "write" /\ Ends(q, "ok") /\ seeded' = seeded
    /\ \A kind \in Kinds : \A row \in table'[kind] :
          \/ row \in table[kind]
          \/ row.rev = q /\ (row.id \in Ids(table[kind]) \/ row.id = <<"new", q>>)

LEMMA WritesFrame ==
    ASSUME Shapes, NEW q \in Requests, req[q].at = "write", Ends(q, "ok"),
           seeded' = seeded
    PROVE  /\ Shapes' /\ Done' = Done \cup {q}
           /\ req'[q].at = "ok"
           /\ \A p \in Requests : Op(p)' = Op(p)
           /\ \A p \in Requests \ {q} : req'[p] = req[p]
<1>1. /\ DOMAIN req' = Requests /\ DOMAIN req'[q] = DOMAIN req[q]
      /\ req'[q].at = "ok" /\ Op(q)' = Op(q)
      /\ \A p \in Requests \ {q} : req'[p] = req[p]
  BY DEF Ends, Shapes, Op
<1>2. \A p \in Requests : Op(p)' = Op(p)
  BY <1>1 DEF Op
<1>3. Done' = Done \cup {q}
  BY <1>1 DEF Done
<1>4. Shapes'
  BY <1>1, <1>2 DEF Shapes, Answers
<1> QED
  BY <1>1, <1>2, <1>3, <1>4

LEMMA NotDone ==
    ASSUME SeedsAllowed, NEW q \in Requests, req[q].at # "ok"
    PROVE  ~ Known(q) /\ q \notin Done
BY NamesAssumption DEF SeedsAllowed, SeedActions, Known, Done

\* Rows written since under a name nobody has seen are no request's row.
LEMMA StandsKept ==
    ASSUME SeedsAllowed, NEW p \in Requests, Stands(p),
           req'[p] = req[p], Op(p)' = Op(p), Done \subseteq Done',
           NEW rev, ~ Known(rev),
           \A row \in Rows(p)' : row \in Rows(p) \/ row.rev = rev
    PROVE  Stands(p)'
<1>1. /\ \A x : Known(x) => Known(x)'
      /\ req[p].seen \subseteq Done => req'[p].seen \subseteq Done'
  BY DEF Known
<1>2. Known(req[p].target.rev) => Current(p)' \subseteq Current(p)
  BY DEF Current
<1>3. ReadsRow(Op(p)) => Op(p).verb # "create"
  BY DEF ReadsRow
<1> QED
  BY <1>1, <1>2, <1>3 DEF Stands

LEMMA WritesRead ==
    ASSUME ReadInv, NEW q \in Requests, Writes(q), Sound(table', defaults')
    PROVE  ReadInv'
<1> USE DEF ReadInv
<1>1. /\ Shapes' /\ Done' = Done \cup {q} /\ req'[q].at = "ok"
      /\ \A p \in Requests : Op(p)' = Op(p)
      /\ \A p \in Requests \ {q} : req'[p] = req[p]
  BY WritesFrame DEF Writes
<1>2. ~ Known(q)
  BY NotDone DEF Writes
<1>3. SeedsAllowed'
  BY DEF SeedsAllowed, Writes
<1>4. NamesStand'
  <2> SUFFICES ASSUME NEW kind \in Kinds, NEW row \in table'[kind]
               PROVE  /\ Known(row.rev)'
                      /\ \A p \in Requests : row.id = <<"new", p>> => req'[p].at = "ok"
    BY DEF NamesStand
  <2>1. \/ row \in table[kind]
        \/ row.rev = q /\ (row.id \in Ids(table[kind]) \/ row.id = <<"new", q>>)
    BY DEF Writes
  <2>2. Known(row.rev)'
    BY <1>1, <2>1 DEF NamesStand, Known
  <2>3. ASSUME NEW p \in Requests, row.id = <<"new", p>> PROVE req'[p].at = "ok"
    <3>1. CASE row.id = <<"new", q>>
      BY <1>1, <2>3, <3>1
    <3>2. CASE row.id \in Ids(table[kind])
      <4>1. PICK old \in table[kind] : old.id = row.id
        BY <3>2 DEF Ids
      <4>2. req[p].at = "ok"
        BY <2>3, <4>1 DEF NamesStand
      <4> QED
        BY <1>1, <4>2
    <3> QED
      BY <2>1, <3>1, <3>2 DEF Ids
  <2> QED
    BY <2>2, <2>3
<1>5. ASSUME NEW p \in Requests PROVE Stands(p)'
  <2>1. CASE p = q
    BY <1>1, <2>1 DEF Stands
  <2>2. CASE p # q
    <3>1. \A row \in Rows(p)' : row \in Rows(p) \/ row.rev = q
      BY <1>1, OpKnown DEF Writes, Rows
    <3> QED
      BY <1>1, <1>2, <2>2, <3>1, StandsKept
  <2> QED
    BY <2>1, <2>2
<1> QED
  BY <1>1, <1>3, <1>4, <1>5

\* The dataset is written: every row that was not there bears the time's name.
Seeds(time) ==
    /\ time \in SeedActions \ seeded /\ seeded' = seeded \cup {time} /\ req' = req
    /\ \A kind \in Kinds : \A row \in table'[kind] :
          row \in table[kind] \/ (row.rev = time /\ row.id \in Ids(Seed[kind]))

LEMMA SeedsRead ==
    ASSUME ReadInv, NEW time, Seeds(time), Sound(table', defaults')
    PROVE  ReadInv'
<1> USE DEF ReadInv
<1>1. /\ Done' = Done \cup {time} /\ \A p \in Requests : Op(p)' = Op(p)
      /\ Shapes' /\ SeedsAllowed'
  <2>1. /\ Shapes' /\ SeedsAllowed' /\ \A p \in Requests : Op(p)' = Op(p)
    BY DEF Seeds, Shapes, SeedsAllowed, Op
  <2>2. Done' = Done \cup {time}
    BY DEF Seeds, Done
  <2> QED
    BY <2>1, <2>2
<1>2. ~ Known(time)
  BY NamesAssumption DEF Seeds, Known, Done, SeedActions
<1>3. NamesStand'
  <2> SUFFICES ASSUME NEW kind \in Kinds, NEW row \in table'[kind]
               PROVE  /\ Known(row.rev)'
                      /\ \A p \in Requests : row.id = <<"new", p>> => req'[p].at = "ok"
    BY DEF NamesStand
  <2>1. row \in table[kind] \/ (row.rev = time /\ row.id \in Ids(Seed[kind]))
    BY DEF Seeds
  <2>2. Known(row.rev)'
    BY <1>1, <2>1 DEF NamesStand, Known
  <2>3. row.id \in Ids(Seed[kind]) => \A p \in Requests : row.id # <<"new", p>>
    BY NamesAssumption DEF Ids
  <2> QED
    BY <2>1, <2>2, <2>3 DEF NamesStand, Seeds
<1>4. ASSUME NEW p \in Requests PROVE Stands(p)'
  <2>1. \A row \in Rows(p)' : row \in Rows(p) \/ row.rev = time
    BY <1>1, OpKnown DEF Seeds, Rows
  <2>2. req'[p] = req[p]
    BY DEF Seeds
  <2> QED
    BY <1>1, <1>2, <2>1, <2>2, StandsKept
<1> QED
  BY <1>1, <1>3, <1>4

-----------------------------------------------------------------------------
(* The actions.                                                            *)

LEMMA SubmitRead ==
    ASSUME ReadInv, NEW q \in Requests, Submit(q)
    PROVE  ReadInv' /\ \E e : Moves(q, e) /\ e.at = "sent"
<1>0. /\ Shapes /\ Sound(table, defaults) /\ NamesStand
      /\ DOMAIN req[q] = {"op", "at", "target", "row", "surface", "seen"}
      /\ Op(q) = req[q].op
  BY DEF ReadInv, Shapes, Op
<1>1. CASE Op(q).verb = "create"
  <2> DEFINE e == [req[q] EXCEPT !.at = "sent"]
  <2>1. req' = [req EXCEPT ![q] = e]
    BY <1>1 DEF Submit
  <2>2. DOMAIN e = DOMAIN req[q] /\ e.op = Op(q) /\ e.at = "sent"
    BY <1>0
  <2> HIDE DEF e
  <2>3. Moves(q, e)
    BY <2>1, <2>2 DEF Submit, Moves
  <2>4. req'[q] = e /\ Op(q)' = Op(q)
    BY <1>0, <2>3, MovesFrame
  <2>5. Stands(q)'
    BY <1>1, <2>2, <2>4 DEF Stands
  <2> QED
    BY <2>2, <2>3, <2>5, MovesRead
<1>2. CASE Op(q).verb # "create"
  <2>1. PICK row \in Rows(q) :
            req' = [req EXCEPT ![q].at = "sent", ![q].target = row]
    BY <1>2 DEF Submit
  <2> DEFINE e == [req[q] EXCEPT !.at = "sent", !.target = row]
  <2>2. req' = [req EXCEPT ![q] = e]
    BY <2>1
  <2>3. /\ DOMAIN e = DOMAIN req[q] /\ e.op = Op(q) /\ e.at = "sent"
        /\ e.target = row
    BY <1>0
  <2> HIDE DEF e
  <2>4. Moves(q, e)
    BY <2>2, <2>3 DEF Submit, Moves
  <2>5. req'[q] = e /\ Op(q)' = Op(q) /\ Done' = Done /\ table' = table
    BY <1>0, <2>4, MovesFrame DEF Moves
  <2>6. Op(q).kind \in Kinds
    BY <1>0, OpKnown
  <2>7. Known(row.rev)'
    BY <1>0, <2>5, <2>6 DEF NamesStand, Rows, Known
  <2>8. Current(q)' \subseteq {row}
    BY <1>0, <2>3, <2>5, <2>6 DEF Current, Rows, Sound, IdsUnique
  <2>9. Stands(q)'
    BY <2>3, <2>5, <2>7, <2>8 DEF Stands
  <2> QED
    BY <2>3, <2>4, <2>9, MovesRead
<1> QED
  BY <1>1, <1>2

\* What a request knows after it has read.
HasRead(q, e) ==
    /\ e.at = "check" /\ e.seen = Done /\ e.target = req[q].target
    /\ ReadsRow(Op(q)) =>
          /\ e.row \in Rows(q) /\ e.row.id = req[q].target.id
          /\ Op(q).kind = "product" => e.surface = SurfaceIn(table.category, e.row.category)

LEMMA ReadRowRead ==
    ASSUME ReadInv, NEW q \in Requests, ReadRow(q)
    PROVE  ReadInv' /\ \E e : Moves(q, e) /\ (e.at \in Answers \/ HasRead(q, e))
<1>0. /\ Shapes /\ Sound(table, defaults) /\ Stands(q) /\ Op(q).kind \in Kinds
      /\ DOMAIN req[q] = {"op", "at", "target", "row", "surface", "seen"}
      /\ Op(q) = req[q].op /\ req[q].at = "sent"
  BY OpKnown DEF ReadInv, Shapes, Op, ReadRow
<1>1. ASSUME NEW e, req' = [req EXCEPT ![q] = e], HasRead(q, e),
             DOMAIN e = DOMAIN req[q], e.op = Op(q)
      PROVE  ReadInv' /\ Moves(q, e)
  <2>1. Moves(q, e)
    BY <1>0, <1>1 DEF ReadRow, Moves, HasRead
  <2>2. req'[q] = e /\ Op(q)' = Op(q) /\ Done' = Done /\ table' = table
    BY <1>0, <2>1, MovesFrame DEF Moves
  <2>3. /\ Rows(q)' = Rows(q) /\ e.target = req[q].target /\ e.at = "check"
        /\ e.seen = Done
    BY <1>1, <2>2 DEF Rows, HasRead
  <2>4. Current(q)' = Current(q)
    BY <2>2, <2>3 DEF Current
  <2>5. ReadsRow(Op(q)) =>
            /\ Current(q) \subseteq {e.row} /\ DOMAIN e.row = RowFields(Op(q).kind)
            /\ e.row.id = e.target.id
    BY <1>0, <1>1 DEF HasRead, Current, Rows, Sound, IdsUnique, RowsTyped
  <2>6. Op(q).verb # "create" =>
            Known(req[q].target.rev) /\ Current(q) \subseteq {req[q].target}
    BY <1>0 DEF Stands
  <2>7. Stands(q)'
    BY <2>2, <2>3, <2>4, <2>5, <2>6 DEF Stands, Known
  <2> QED
    BY <2>1, <2>7, MovesRead
<1>2. CASE ~ ReadsRow(Op(q))
  <2> DEFINE e == [req[q] EXCEPT !.at = "check", !.seen = Done]
  <2>1. req' = [req EXCEPT ![q] = e]
    BY <1>2 DEF ReadRow
  <2>2. DOMAIN e = DOMAIN req[q] /\ e.op = Op(q) /\ HasRead(q, e)
    BY <1>0, <1>2 DEF HasRead
  <2> HIDE DEF e
  <2> QED
    BY <1>1, <2>1, <2>2
<1>3. CASE ReadsRow(Op(q)) /\ req[q].target.id \notin Ids(Rows(q))
  <2>1. Ends(q, "notFound") /\ UNCHANGED <<table, defaults, seeded>>
    BY <1>3 DEF ReadRow
  <2> DEFINE e == [req[q] EXCEPT !.at = "notFound"]
  <2>2. Moves(q, e) /\ ReadInv' /\ e.at \in Answers
    BY <1>0, <2>1, EndsRead DEF Answers
  <2> QED
    BY <2>2
<1>4. CASE ReadsRow(Op(q)) /\ req[q].target.id \in Ids(Rows(q))
  <2>1. PICK row \in WithId(Rows(q), req[q].target.id) :
            req' = [req EXCEPT
                  ![q].at = "check", ![q].row = row, ![q].seen = Done,
                  ![q].surface = IF Op(q).kind # "product" THEN "NONE"
                                 ELSE SurfaceIn(table.category, row.category)]
    BY <1>4 DEF ReadRow
  <2> DEFINE surface == IF Op(q).kind # "product" THEN "NONE"
                        ELSE SurfaceIn(table.category, row.category)
             e == [req[q] EXCEPT !.at = "check", !.row = row, !.seen = Done,
                                 !.surface = surface]
  <2>2. req' = [req EXCEPT ![q] = e]
    BY <2>1
  <2>3. /\ DOMAIN e = DOMAIN req[q] /\ e.op = Op(q) /\ e.at = "check" /\ e.row = row
        /\ e.seen = Done /\ e.surface = surface /\ e.target = req[q].target
    BY <1>0
  <2>4. row \in Rows(q) /\ row.id = req[q].target.id
    BY DEF WithId
  <2>5. Op(q).kind = "product" => surface = SurfaceIn(table.category, row.category)
    OBVIOUS
  <2> HIDE DEF e, surface
  <2>6. HasRead(q, e)
    BY <2>3, <2>4, <2>5 DEF HasRead
  <2> QED
    BY <1>1, <2>2, <2>3, <2>6
<1> QED
  BY <1>2, <1>3, <1>4

LEMMA CheckRead ==
    ASSUME ReadInv, NEW q \in Requests, Check(q)
    PROVE  /\ ReadInv'
           /\ \E e : /\ Moves(q, e) /\ e.row = req[q].row /\ e.surface = req[q].surface
                     /\ e.target = req[q].target /\ e.seen = req[q].seen
                     /\ (e.at = "write" /\ Objection(q) = None) \/ e.at \in Answers
<1>0. /\ Shapes /\ Stands(q) /\ req[q].at = "check"
      /\ DOMAIN req[q] = {"op", "at", "target", "row", "surface", "seen"}
      /\ Op(q) = req[q].op
  BY DEF ReadInv, Shapes, Op, Check
<1> DEFINE at == IF Objection(q) = None THEN "write" ELSE Objection(q)
           e == [req[q] EXCEPT !.at = at]
<1>1. req' = [req EXCEPT ![q] = e]
  BY DEF Check, Ends
<1>2. /\ DOMAIN e = DOMAIN req[q] /\ e.op = Op(q) /\ e.row = req[q].row
      /\ e.surface = req[q].surface /\ e.seen = req[q].seen
      /\ e.target = req[q].target /\ e.at = at
  BY <1>0
<1>3. (at = "write" /\ Objection(q) = None) \/ at \in Answers \ {"ok"}
  BY <1>0, ObjectionKnown DEF Refusals, Answers
<1> HIDE DEF e, at
<1>4. Moves(q, e)
  BY <1>0, <1>1, <1>2, <1>3 DEF Check, Moves, Answers
<1>5. req'[q] = e /\ Op(q)' = Op(q) /\ Done' = Done /\ table' = table
  BY <1>0, <1>4, MovesFrame DEF Moves
<1>6. Current(q)' = Current(q)
  BY <1>2, <1>5 DEF Current, Rows
<1>7. Stands(q)'
  BY <1>0, <1>2, <1>5, <1>6 DEF Stands, Known
<1> QED
  BY <1>2, <1>3, <1>4, <1>7, MovesRead

-----------------------------------------------------------------------------
(* What the writing actions write.                                         *)

\* Nothing, and the request is answered.
Refused(q) ==
    /\ \E answer \in Answers \ {"ok"} : Ends(q, answer)
    /\ UNCHANGED <<table, defaults, seeded>>

LEMMA RefusedRead ==
    ASSUME ReadInv, NEW q \in Requests, req[q].at = "write", Refused(q)
    PROVE  ReadInv' /\ \E e : Moves(q, e) /\ e.at \in Answers
<1>1. PICK answer \in Answers \ {"ok"} : Ends(q, answer)
  BY DEF Refused
<1>2. UNCHANGED <<table, defaults, seeded>>
  BY DEF Refused
<1> DEFINE e == [req[q] EXCEPT !.at = answer]
<1>3. ReadInv' /\ Moves(q, e)
  BY <1>1, <1>2, EndsRead
<1>4. e.at = answer
  BY DEF ReadInv, Shapes
<1> HIDE DEF e
<1> QED
  BY <1>1, <1>3, <1>4

\* The row of the form, while nobody has changed it.
LEMMA CurrentRow ==
    ASSUME ReadInv, NEW q \in Requests, req[q].at = "write",
           Op(q).verb # "create", Current(q) # {}
    PROVE  /\ Current(q) = {req[q].target} /\ req[q].target \in Rows(q)
           /\ DOMAIN req[q].target = RowFields(Op(q).kind)
           /\ req[q].target.id \in Ids(Rows(q))
           /\ ReadsRow(Op(q)) => req[q].row = req[q].target
<1>1. Stands(q) /\ Op(q).kind \in Kinds
  BY OpKnown DEF ReadInv
<1>2. Current(q) = {req[q].target} /\ req[q].target \in Rows(q)
  BY <1>1 DEF Stands, Current
<1>3. ReadsRow(Op(q)) => req[q].row = req[q].target
  BY <1>1, <1>2 DEF Stands
<1> QED
  BY <1>1, <1>2, <1>3 DEF ReadInv, Sound, RowsTyped, Rows, Ids

\* A row takes the place of the row of the form.
Replaces(q, new) ==
    table' = [table EXCEPT ![Op(q).kind] = (Rows(q) \ {req[q].target}) \cup {new}]

LEMMA ReplacesWrites ==
    ASSUME ReadInv, NEW q \in Requests, req[q].at = "write", Ends(q, "ok"),
           seeded' = seeded, req[q].target \in Rows(q),
           NEW new, Replaces(q, new), new.rev = q, new.id = req[q].target.id
    PROVE  Writes(q)
<1>1. Op(q).kind \in Kinds /\ DOMAIN table = Kinds
  BY OpKnown DEF ReadInv, Sound, RowsTyped
<1>2. /\ table'[Op(q).kind] = (Rows(q) \ {req[q].target}) \cup {new}
      /\ \A kind \in Kinds \ {Op(q).kind} : table'[kind] = table[kind]
  BY <1>1, OneTable DEF Replaces
<1>3. new.id \in Ids(table[Op(q).kind])
  BY DEF Ids, Rows
<1> QED
  BY <1>2, <1>3 DEF Writes, Rows

Created(q) == Over([id |-> <<"new", q>>, status |-> "DRAFT", rev |-> q], Op(q).row)

Inserts(q) ==
    /\ Writes(q) /\ defaults' = defaults
    /\ table' = [table EXCEPT ![Op(q).kind] = Rows(q) \cup {Created(q)}]
    /\ Op(q).kind = "product" => Op(q).row.category \in Ids(table.category)
    /\ Op(q).kind = "materialType" =>
          \A m \in table.materialType : m.code # Op(q).row.code

LEMMA CreatedRow ==
    ASSUME Shapes, NEW q \in Requests, Op(q).verb = "create"
    PROVE  /\ DOMAIN Created(q) = RowFields(Op(q).kind)
           /\ Created(q).id = <<"new", q>> /\ Created(q).rev = q
           /\ Created(q).status = "DRAFT"
           /\ \A field \in Fields[Op(q).kind] : Created(q)[field] = Op(q).row[field]
<1>1. /\ Op(q).kind \in Kinds \ {"roomType"} /\ DOMAIN Op(q).row = Fields[Op(q).kind]
  BY OpKnown DEF IsOperation
<1>2. /\ {"id", "rev", "status"} \cap Fields[Op(q).kind] = {}
      /\ RowFields(Op(q).kind) = {"id", "rev", "status"} \cup Fields[Op(q).kind]
  BY <1>1 DEF Fields, Kinds, RowFields
<1> DEFINE base == [id |-> <<"new", q>>, status |-> "DRAFT", rev |-> q]
<1>3. /\ DOMAIN base = {"id", "rev", "status"} /\ base.id = <<"new", q>>
      /\ base.rev = q /\ base.status = "DRAFT"
  OBVIOUS
<1>4. Created(q) = Over(base, Op(q).row)
  BY DEF Created
<1> HIDE DEF base
<1>5. /\ DOMAIN Created(q) = DOMAIN base \cup DOMAIN Op(q).row
      /\ \A f \in DOMAIN base : Created(q)[f] = base[f]
      /\ \A f \in DOMAIN Op(q).row \ DOMAIN base : Created(q)[f] = Op(q).row[f]
  BY <1>4 DEF Over
<1> QED
  BY <1>1, <1>2, <1>3, <1>5

LEMMA CreateWrites ==
    ASSUME ReadInv, NEW q \in Requests, Create(q)
    PROVE  (Refused(q) \/ Inserts(q)) /\ ReadInv'
<1>0. /\ Shapes /\ Op(q).kind \in Kinds \ {"roomType"} /\ Sound(table, defaults)
      /\ DOMAIN table = Kinds /\ NamesStand
  BY OpKnown DEF ReadInv, Create, Sound, RowsTyped
<1>1. req[q].at = "write" /\ Op(q).verb = "create"
      /\ defaults' = defaults /\ seeded' = seeded
  BY DEF Create
<1>2. CASE Op(q).kind = "product" /\ Op(q).row.category \notin Ids(table.category)
  <2>1. Refused(q)
    BY <1>1, <1>2 DEF Create, Refused, Answers
  <2> QED
    BY <1>1, <2>1, RefusedRead
<1>3. CASE /\ ~ (Op(q).kind = "product" /\ Op(q).row.category \notin Ids(table.category))
           /\ \E m \in Rows(q) : Op(q).kind = "materialType" /\ m.code = Op(q).row.code
  <2>1. Refused(q)
    BY <1>1, <1>3 DEF Create, Refused, Answers
  <2> QED
    BY <1>1, <2>1, RefusedRead
<1>4. CASE /\ ~ (Op(q).kind = "product" /\ Op(q).row.category \notin Ids(table.category))
           /\ ~ \E m \in Rows(q) : Op(q).kind = "materialType" /\ m.code = Op(q).row.code
  <2>1. /\ table' = [table EXCEPT ![Op(q).kind] = Rows(q) \cup {Created(q)}]
        /\ Ends(q, "ok")
    BY <1>1, <1>4 DEF Create, InTable, Created
  <2>2. /\ DOMAIN Created(q) = RowFields(Op(q).kind)
        /\ Created(q).id = <<"new", q>> /\ Created(q).rev = q
        /\ Created(q).status = "DRAFT"
        /\ \A field \in Fields[Op(q).kind] : Created(q)[field] = Op(q).row[field]
    BY <1>0, <1>1, CreatedRow
  <2>3. /\ Op(q).kind = "product" => Created(q).category \in Ids(table.category)
        /\ Op(q).kind = "materialType" =>
              \A m \in table.materialType : m.code # Created(q).code
    BY <1>4, <2>2 DEF Fields, Rows
  <2>4. \A row \in table[Op(q).kind] : row.id # Created(q).id
    BY <1>0, <1>1, <2>2 DEF NamesStand
  <2>5. Sound(table', defaults)
    BY <1>0, <2>1, <2>2, <2>3, <2>4, InsertSound DEF Rows, Statuses
  <2>6. Writes(q)
    <3>1. /\ table'[Op(q).kind] = Rows(q) \cup {Created(q)}
          /\ \A kind \in Kinds \ {Op(q).kind} : table'[kind] = table[kind]
      BY <1>0, <2>1, OneTable
    <3> QED
      BY <1>1, <2>1, <2>2, <3>1 DEF Writes, Rows
  <2>7. /\ Op(q).kind = "product" => Op(q).row.category \in Ids(table.category)
        /\ Op(q).kind = "materialType" =>
              \A m \in table.materialType : m.code # Op(q).row.code
    BY <1>4 DEF Rows
  <2>8. Inserts(q)
    BY <1>1, <2>1, <2>6, <2>7 DEF Inserts
  <2>9. ReadInv'
    BY <1>1, <2>5, <2>6, WritesRead
  <2> QED
    BY <2>8, <2>9
<1> QED
  BY <1>2, <1>3, <1>4

\* The row of the form, edited.
Edited(q) == Patched(req[q].target, Over(Op(q).patch, [rev |-> q]))

Edits(q) ==
    /\ Writes(q) /\ defaults' = defaults /\ Replaces(q, Edited(q))
    /\ Current(q) = {req[q].target}
    /\ Op(q).kind = "product" => Edited(q).category \in Ids(table.category)

LEMMA EditedRow ==
    ASSUME ReadInv, NEW q \in Requests, req[q].at = "write",
           Op(q).verb \in {"patch", "status"}, Current(q) # {}
    PROVE  LET old == req[q].target
               merged == Patched(old, Op(q).patch)
           IN  /\ DOMAIN Edited(q) = RowFields(Op(q).kind) /\ Edited(q).rev = q
               /\ Edited(q).id = old.id
               /\ \A f \in DOMAIN Op(q).patch : Edited(q)[f] = Op(q).patch[f]
               /\ \A f \in RowFields(Op(q).kind) \ {"rev"} :
                     /\ f \notin DOMAIN Op(q).patch => Edited(q)[f] = old[f]
                     /\ Edited(q)[f] = merged[f]
<1>1. DOMAIN req[q].target = RowFields(Op(q).kind)
  BY CurrentRow
<1>2. DOMAIN Op(q).patch \subseteq RowFields(Op(q).kind) \ {"id", "rev"}
  BY OpEdits DEF ReadInv
<1>3. {"id", "rev"} \subseteq RowFields(Op(q).kind)
  BY DEF RowFields
<1> QED
  BY <1>1, <1>2, <1>3, PatchedRow DEF Edited

LEMMA EditWrites ==
    ASSUME ReadInv, NEW q \in Requests, Edit(q)
    PROVE  (Refused(q) \/ Edits(q)) /\ ReadInv'
<1>0. /\ Shapes /\ Op(q).kind \in Kinds /\ Sound(table, defaults) /\ DOMAIN table = Kinds
  BY OpKnown DEF ReadInv, Sound, RowsTyped
<1>1. /\ req[q].at = "write" /\ Op(q).verb \in {"patch", "status"}
      /\ defaults' = defaults /\ seeded' = seeded
  BY DEF Edit
<1> DEFINE new == {Patched(row, Over(Op(q).patch, [rev |-> q])) : row \in Current(q)}
           orphan == \E row \in new : /\ Op(q).kind = "product"
                                      /\ row.category \notin Ids(table.category)
<1>2. CASE Current(q) = {}
  <2>1. Ends(q, NotCurrent(q)) /\ table' = table
    BY <1>2 DEF Edit
  <2>2. Refused(q)
    BY <1>1, <2>1 DEF Refused, NotCurrent, Answers
  <2> QED
    BY <1>1, <2>2, RefusedRead
<1>3. CASE Current(q) # {} /\ orphan
  <2>1. Ends(q, "failed") /\ table' = table
    BY <1>3 DEF Edit
  <2>2. Refused(q)
    BY <1>1, <2>1 DEF Refused, Answers
  <2> QED
    BY <1>1, <2>2, RefusedRead
<1>4. CASE Current(q) # {} /\ ~ orphan
  <2>1. /\ Current(q) = {req[q].target} /\ req[q].target \in Rows(q)
    BY <1>1, <1>4, CurrentRow
  <2>2. new = {Edited(q)}
    BY <2>1 DEF Edited
  <2>3. Replaces(q, Edited(q)) /\ Ends(q, "ok")
    <3>1. InTable(Op(q).kind, (Rows(q) \ Current(q)) \cup new) /\ Ends(q, "ok")
      BY <1>4 DEF Edit
    <3> HIDE DEF new
    <3> QED
      BY <2>1, <2>2, <3>1 DEF Replaces, InTable
  <2>4. Op(q).kind = "product" => Edited(q).category \in Ids(table.category)
    BY <1>4, <2>2
  <2> HIDE DEF new, orphan
  <2>5. /\ DOMAIN Edited(q) = RowFields(Op(q).kind) /\ Edited(q).rev = q
        /\ Edited(q).id = req[q].target.id
        /\ \A f \in DOMAIN Op(q).patch : Edited(q)[f] = Op(q).patch[f]
        /\ \A f \in RowFields(Op(q).kind) \ {"rev"} :
              f \notin DOMAIN Op(q).patch => Edited(q)[f] = req[q].target[f]
    BY <1>1, <1>4, EditedRow
  <2>6. /\ "code" \notin DOMAIN Op(q).patch /\ "categories" \notin DOMAIN Op(q).patch
        /\ "status" \in DOMAIN Op(q).patch => Op(q).patch.status \in Statuses
    BY <1>0, <1>1, OpEdits
  <2>7. Op(q).kind # "roomType" => Edited(q).status \in Statuses
    <3>1. Op(q).kind # "roomType" =>
              "status" \in RowFields(Op(q).kind) /\ req[q].target.status \in Statuses
      BY <1>0, <2>1 DEF RowFields, Sound, RowsTyped, Rows
    <3> QED
      BY <2>5, <2>6, <3>1
  <2>8. /\ Op(q).kind = "materialType" => Edited(q).code = req[q].target.code
        /\ Op(q).kind = "roomType" => Edited(q).categories = req[q].target.categories
    BY <2>5, <2>6, KindsKnown
  <2>9. Sound(table', defaults)
    BY <1>0, <2>1, <2>3, <2>4, <2>5, <2>7, <2>8, EditSound DEF Replaces, Rows
  <2>10. Writes(q)
    BY <1>1, <2>1, <2>3, <2>5, ReplacesWrites
  <2>11. Edits(q)
    BY <1>1, <2>1, <2>3, <2>4, <2>10 DEF Edits
  <2>12. ReadInv'
    BY <1>1, <2>9, <2>10, WritesRead
  <2> QED
    BY <2>11, <2>12
<1> QED
  BY <1>2, <1>3, <1>4

\* The row of the form, with other categories.
Relinked(q) == [req[q].target EXCEPT !.categories = Placed(Op(q).categories), !.rev = q]

Relinks(q) ==
    /\ Writes(q) /\ Replaces(q, Relinked(q))
    /\ Current(q) = {req[q].target}
    /\ defaults' = DefaultsLeft(req[q].target.id, Op(q).categories)

LEMMA CategoriesWrites ==
    ASSUME ReadInv, NEW q \in Requests, ReplaceCategories(q)
    PROVE  (Refused(q) \/ Relinks(q)) /\ ReadInv'
<1> DEFINE categories == Op(q).categories
<1>0. /\ Shapes /\ IsOperation(Op(q)) /\ Sound(table, defaults) /\ DOMAIN table = Kinds
      /\ Op(q).kind = "roomType"
  BY OpKnown DEF ReadInv, Sound, RowsTyped, ReplaceCategories
<1>1. req[q].at = "write" /\ Op(q).verb = "categories" /\ seeded' = seeded
  BY DEF ReplaceCategories
<1>2. CASE Current(q) = {}
  <2>1. Ends(q, NotCurrent(q)) /\ table' = table /\ defaults' = defaults
    BY <1>2 DEF ReplaceCategories
  <2>2. Refused(q)
    BY <1>1, <2>1 DEF Refused, NotCurrent, Answers
  <2> QED
    BY <1>1, <2>2, RefusedRead
<1>3. CASE Current(q) # {} /\ ~ (Range(categories) \subseteq Ids(table.category))
  <2>1. Ends(q, "failed") /\ table' = table /\ defaults' = defaults
    BY <1>3 DEF ReplaceCategories
  <2>2. Refused(q)
    BY <1>1, <2>1 DEF Refused, Answers
  <2> QED
    BY <1>1, <2>2, RefusedRead
<1>4. CASE Current(q) # {} /\ Range(categories) \subseteq Ids(table.category)
  <2>1. /\ Current(q) = {req[q].target} /\ req[q].target \in Rows(q)
        /\ DOMAIN req[q].target = RowFields("roomType")
    BY <1>0, <1>1, <1>4, CurrentRow
  <2>2. /\ InTable("roomType", (Rows(q) \ Current(q)) \cup
                      {[row EXCEPT !.categories = Placed(categories), !.rev = q] :
                          row \in Current(q)})
        /\ defaults' = DefaultsLeft(req[q].target.id, categories)
        /\ Ends(q, "ok")
    BY <1>4 DEF ReplaceCategories
  <2>3. Replaces(q, Relinked(q))
    BY <1>0, <2>1, <2>2 DEF Replaces, InTable, Relinked
  <2>4. /\ DOMAIN Relinked(q) = RowFields("roomType") /\ Relinked(q).rev = q
        /\ Relinked(q).id = req[q].target.id
        /\ Relinked(q).categories = Placed(categories)
    BY <2>1, KindsKnown DEF Relinked
  <2>5. categories \in Seq(Range(categories)) /\ IsInjective(categories)
    BY <1>0, <1>1 DEF IsOperation
  <2>6. /\ Ordered(Placed(categories)) /\ DOMAIN Placed(categories) = Range(categories)
    BY <2>5, PlacedOrdered
  <2>7. \A d \in defaults' : d.rt = req[q].target.id => d.cat \in Range(categories)
    <3> HIDE DEF categories
    <3>1. \A x : Contains(categories, x) => x \in Range(categories)
      BY <2>5 DEF Contains, Range
    <3>2. \A d \in defaults' : d.rt = req[q].target.id => Contains(categories, d.cat)
      BY <2>2 DEF DefaultsLeft
    <3> QED
      BY <3>1, <3>2
  <2>8. defaults' \subseteq defaults
    BY <2>2 DEF DefaultsLeft
  <2>9. Sound(table', defaults')
    <3> HIDE DEF categories
    <3>1. /\ req[q].target \in table.roomType
          /\ table' = [table EXCEPT !["roomType"] =
                          (table.roomType \ {req[q].target}) \cup {Relinked(q)}]
      BY <1>0, <2>1, <2>3 DEF Replaces, Rows
    <3>2. /\ Ordered(Relinked(q).categories)
          /\ DOMAIN Relinked(q).categories \subseteq Ids(table.category)
          /\ LinkedIn(defaults', req[q].target.id, DOMAIN Relinked(q).categories)
      BY <1>4, <2>4, <2>6, <2>7 DEF LinkedIn
    <3> QED
      BY <1>0, <2>4, <2>8, <3>1, <3>2, LinksSound
  <2>10. Writes(q)
    BY <1>1, <2>1, <2>2, <2>3, <2>4, ReplacesWrites
  <2>11. Relinks(q)
    BY <2>1, <2>2, <2>3, <2>10 DEF Relinks
  <2>12. ReadInv'
    BY <2>9, <2>10, WritesRead
  <2> QED
    BY <2>11, <2>12
<1> QED
  BY <1>2, <1>3, <1>4

\* The default materials of a style, written over the old ones of their pairs.
Rewritten(q) == [req[q].target EXCEPT !.rev = q]

Pairs(q) == {<<req[q].target.id, item.rt, item.cat>> : item \in Op(q).items}

Placements(q) ==
    {Over([style |-> req[q].target.id], item) : item \in Given(Op(q).items)}

Redefaults(q) ==
    /\ Writes(q) /\ Replaces(q, Rewritten(q))
    /\ Current(q) = {req[q].target}
    /\ defaults' = {d \in defaults : <<d.style, d.rt, d.cat>> \notin Pairs(q)}
                      \cup Placements(q)
    /\ \A item \in Given(Op(q).items) : /\ Linked(table.roomType, item.rt, item.cat)
                                        /\ item.product \in Ids(table.product)

LEMMA PlacementFields ==
    ASSUME Shapes, NEW q \in Requests, Op(q).verb = "defaults"
    PROVE  /\ \A d \in Placements(q) : \E item \in Given(Op(q).items) :
                 /\ d.style = req[q].target.id /\ d.rt = item.rt /\ d.cat = item.cat
                 /\ d.product = item.product
           /\ \A d, e \in Placements(q) : d.rt = e.rt /\ d.cat = e.cat => d = e
<1>1. IsOperation(Op(q))
  BY OpKnown
<1>2. ASSUME NEW item \in Given(Op(q).items)
      PROVE  DOMAIN item = {"rt", "cat", "product"} /\ item \in Op(q).items
  BY <1>1, <1>2 DEF IsOperation, Given
<1>3. \A item, other \in Op(q).items :
         item.rt = other.rt /\ item.cat = other.cat => item = other
  BY <1>1 DEF IsOperation
<1>4. ASSUME NEW item \in Given(Op(q).items), NEW d,
             d = Over([style |-> req[q].target.id], item)
      PROVE  /\ d.style = req[q].target.id /\ d.rt = item.rt /\ d.cat = item.cat
             /\ d.product = item.product
  BY <1>2, <1>4 DEF Over
<1>5. ASSUME NEW d \in Placements(q)
      PROVE  \E item \in Given(Op(q).items) :
                 /\ d = Over([style |-> req[q].target.id], item)
                 /\ d.style = req[q].target.id /\ d.rt = item.rt /\ d.cat = item.cat
                 /\ d.product = item.product
  BY <1>4 DEF Placements
<1>6. ASSUME NEW d \in Placements(q), NEW e \in Placements(q),
             d.rt = e.rt, d.cat = e.cat
      PROVE  d = e
  <2>1. PICK item \in Given(Op(q).items) :
            /\ d = Over([style |-> req[q].target.id], item)
            /\ d.rt = item.rt /\ d.cat = item.cat
    BY <1>5
  <2>2. PICK other \in Given(Op(q).items) :
            /\ e = Over([style |-> req[q].target.id], other)
            /\ e.rt = other.rt /\ e.cat = other.cat
    BY <1>5
  <2>3. item = other
    BY <1>2, <1>3, <1>6, <2>1, <2>2
  <2> QED
    BY <2>1, <2>2, <2>3
<1> QED
  BY <1>5, <1>6

LEMMA DefaultsWrites ==
    ASSUME ReadInv, NEW q \in Requests, UpdateDefaults(q)
    PROVE  (Refused(q) \/ Redefaults(q)) /\ ReadInv'
<1>0. /\ Shapes /\ Sound(table, defaults) /\ DOMAIN table = Kinds
      /\ Op(q).kind = "style"
  BY OpKnown DEF ReadInv, Sound, RowsTyped, UpdateDefaults
<1>1. req[q].at = "write" /\ Op(q).verb = "defaults" /\ seeded' = seeded
  BY DEF UpdateDefaults
<1> DEFINE broken == \E item \in Given(Op(q).items) :
                        \/ ~ Linked(table.roomType, item.rt, item.cat)
                        \/ item.product \notin Ids(table.product)
<1>2. CASE Current(q) = {}
  <2>1. Ends(q, NotCurrent(q)) /\ table' = table /\ defaults' = defaults
    BY <1>2 DEF UpdateDefaults
  <2>2. Refused(q)
    BY <1>1, <2>1 DEF Refused, NotCurrent, Answers
  <2> QED
    BY <1>1, <2>2, RefusedRead
<1>3. CASE Current(q) # {} /\ broken
  <2>1. /\ Ends(q, IF Objection(q) = None THEN "failed" ELSE Objection(q))
        /\ table' = table /\ defaults' = defaults
    BY <1>3 DEF UpdateDefaults
  <2>2. (IF Objection(q) = None THEN "failed" ELSE Objection(q)) \in Answers \ {"ok"}
    BY <1>0, ObjectionKnown DEF Refusals, Answers
  <2>3. Refused(q)
    BY <1>1, <2>1, <2>2 DEF Refused
  <2> QED
    BY <1>1, <2>3, RefusedRead
<1>4. CASE Current(q) # {} /\ ~ broken
  <2>1. /\ Current(q) = {req[q].target} /\ req[q].target \in Rows(q)
        /\ DOMAIN req[q].target = RowFields("style")
    BY <1>0, <1>1, <1>4, CurrentRow
  <2>2. /\ InTable("style", (Rows(q) \ Current(q)) \cup
                      {[row EXCEPT !.rev = q] : row \in Current(q)})
        /\ defaults' = {d \in defaults : <<d.style, d.rt, d.cat>> \notin Pairs(q)}
                      \cup Placements(q)
        /\ Ends(q, "ok")
    BY <1>4 DEF UpdateDefaults, Pairs, Placements
  <2>3. Replaces(q, Rewritten(q))
    BY <1>0, <2>1, <2>2 DEF Replaces, InTable, Rewritten
  <2>4. /\ DOMAIN Rewritten(q) = RowFields("style") /\ Rewritten(q).rev = q
        /\ Rewritten(q).id = req[q].target.id
        /\ Rewritten(q).status = req[q].target.status
    BY <2>1, KindsKnown DEF Rewritten
  <2>5. \A item \in Given(Op(q).items) : /\ Linked(table.roomType, item.rt, item.cat)
                                         /\ item.product \in Ids(table.product)
    BY <1>4
  <2> HIDE DEF broken
  <2>6. req[q].target.status \in Statuses
    BY <1>0, <2>1 DEF Sound, RowsTyped, Rows, Kinds
  <2>7. Sound(table', defaults)
    BY <1>0, <2>1, <2>3, <2>4, <2>6, EditSound DEF Replaces, Rows, Kinds
  <2>8. /\ table'.roomType = table.roomType /\ table'.product = table.product
        /\ table'.style = (table.style \ {req[q].target}) \cup {Rewritten(q)}
    BY <1>0, <2>3, OneTable DEF Replaces, Kinds, Rows
  <2>9. req[q].target.id \in Ids(table'.style)
    BY <2>4, <2>8 DEF Ids
  <2>10. ASSUME NEW d \in defaults'
         PROVE  /\ d.style \in Ids(table'.style) /\ d.product \in Ids(table'.product)
                /\ Linked(table'.roomType, d.rt, d.cat)
    <3>1. CASE d \in defaults
      BY <2>7, <3>1 DEF Sound, DefaultsHeld
    <3>2. CASE d \in Placements(q)
      BY <1>0, <1>1, <2>5, <2>8, <2>9, <3>2, PlacementFields
    <3> QED
      BY <2>2, <3>1, <3>2
  <2>11. ASSUME NEW d \in defaults', NEW e \in defaults',
                <<d.style, d.rt, d.cat>> = <<e.style, e.rt, e.cat>>
         PROVE  d = e
    <3>1. d.style = e.style /\ d.rt = e.rt /\ d.cat = e.cat
      BY <2>11
    <3>2. \A x \in Placements(q) : <<x.style, x.rt, x.cat>> \in Pairs(q)
      BY <1>0, <1>1, PlacementFields DEF Pairs, Given
    <3>3. CASE d \in Placements(q) /\ e \in Placements(q)
      BY <1>0, <1>1, <3>1, <3>3, PlacementFields
    <3>4. CASE d \notin Placements(q) /\ e \notin Placements(q)
      BY <1>0, <2>2, <2>11, <3>4 DEF Sound, DefaultsHeld
    <3>5. CASE d \in Placements(q) /\ e \notin Placements(q)
      BY <2>2, <2>11, <3>2, <3>5
    <3>6. CASE d \notin Placements(q) /\ e \in Placements(q)
      BY <2>2, <2>11, <3>2, <3>6
    <3> QED
      BY <3>3, <3>4, <3>5, <3>6
  <2>12. DefaultsHeld(table', defaults')
    BY <2>10, <2>11 DEF DefaultsHeld
  <2>13. Sound(table', defaults')
    BY <2>7, <2>12 DEF Sound
  <2>14. Writes(q)
    BY <1>1, <2>1, <2>2, <2>3, <2>4, ReplacesWrites
  <2>15. Redefaults(q)
    BY <2>1, <2>2, <2>3, <2>5, <2>14 DEF Redefaults
  <2>16. ReadInv'
    BY <2>13, <2>14, WritesRead
  <2> QED
    BY <2>15, <2>16
<1> QED
  BY <1>2, <1>3, <1>4

Removes(q) ==
    /\ Writes(q)
    /\ table' = [table EXCEPT ![Op(q).kind] =
                    {row \in Rows(q) : row.id # req[q].target.id}]
    /\ defaults' = {d \in defaults : d.style # req[q].target.id}
    /\ Op(q).kind = "product" => DefaultsOf(req[q].target.id) = {}
    /\ Op(q).kind = "category" => ~ CategoryInUse(req[q].target.id)

LEMMA DeleteWrites ==
    ASSUME ReadInv, NEW q \in Requests, Delete(q)
    PROVE  (Refused(q) \/ Removes(q)) /\ ReadInv'
<1>0. /\ Shapes /\ Sound(table, defaults) /\ DOMAIN table = Kinds
      /\ Op(q).kind \in {"product", "category", "style"} /\ Op(q).kind \in Kinds
  BY OpKnown DEF ReadInv, Sound, RowsTyped, Delete
<1>1. req[q].at = "write" /\ Op(q).verb = "remove" /\ seeded' = seeded
  BY DEF Delete
<1> DEFINE id == req[q].target.id
           held == \/ Op(q).kind = "product" /\ DefaultsOf(id) # {}
                   \/ Op(q).kind = "category" /\ CategoryInUse(id)
<1>2. CASE id \notin Ids(Rows(q))
  <2>1. /\ Ends(q, IF Op(q).kind = "style" THEN "notFound" ELSE "failed")
        /\ table' = table /\ defaults' = defaults
    BY <1>2 DEF Delete
  <2>2. Refused(q)
    BY <1>1, <2>1 DEF Refused, Answers
  <2> QED
    BY <1>1, <2>2, RefusedRead
<1>3. CASE id \in Ids(Rows(q)) /\ held
  <2>1. /\ Ends(q, IF Op(q).kind = "category" THEN "inUse" ELSE "failed")
        /\ table' = table /\ defaults' = defaults
    BY <1>3 DEF Delete
  <2>2. Refused(q)
    BY <1>1, <2>1 DEF Refused, Answers
  <2> QED
    BY <1>1, <2>2, RefusedRead
<1>4. CASE id \in Ids(Rows(q)) /\ ~ held
  <2>1. /\ table' = [table EXCEPT ![Op(q).kind] = {row \in Rows(q) : row.id # id}]
        /\ defaults' = {d \in defaults : d.style # id}
        /\ Ends(q, "ok")
    BY <1>4 DEF Delete, InTable
  <2>2. /\ Op(q).kind = "product" => DefaultsOf(id) = {}
        /\ Op(q).kind = "category" => ~ CategoryInUse(id)
    BY <1>4
  <2> HIDE DEF held
  <2>3. /\ Op(q).kind = "product" => \A d \in defaults : d.product # id
        /\ Op(q).kind = "category" =>
              /\ \A p \in table.product : p.category # id
              /\ \A r \in table.roomType : id \notin DOMAIN r.categories
    BY <2>2 DEF DefaultsOf, CategoryInUse
  <2>4. Sound(table', defaults')
    <3> HIDE DEF id
    <3>1. defaults' \subseteq defaults /\ Unreferred(table, defaults', Op(q).kind, id)
      BY <2>1, <2>3 DEF Unreferred
    <3>2. table' = [table EXCEPT ![Op(q).kind] = Without(table[Op(q).kind], id)]
      BY <2>1 DEF Rows, Without
    <3> QED
      BY <1>0, <3>1, <3>2, RemoveSound
  <2>5. Writes(q)
    <3>1. /\ table'[Op(q).kind] = {row \in Rows(q) : row.id # id}
          /\ \A kind \in Kinds \ {Op(q).kind} : table'[kind] = table[kind]
      BY <1>0, <2>1, OneTable
    <3> QED
      BY <1>1, <2>1, <3>1 DEF Writes, Rows
  <2>6. Removes(q)
    BY <2>1, <2>2, <2>5 DEF Removes
  <2>7. ReadInv'
    BY <2>4, <2>5, WritesRead
  <2> QED
    BY <2>6, <2>7
<1> QED
  BY <1>2, <1>3, <1>4

LEMMA UpsertWrites ==
    ASSUME ReadInv, Upsert
    PROVE  Seeds("upsert") /\ ReadInv'
<1>0. Sound(table, defaults)
  BY DEF ReadInv
<1>1. "upsert" \in SeedActions \ seeded /\ seeded' = seeded \cup {"upsert"} /\ req' = req
  BY SeedAssumption DEF Upsert, SeedActions
<1>2. table' = [kind \in Kinds |->
                    IF kind # "roomType" THEN Upserted(kind)
                    ELSE {[row EXCEPT !.categories = MergedCategories(row)] :
                             row \in Upserted(kind)}]
  BY DEF Upsert
<1>3. defaults' = {d \in defaults : d.style \notin Ids(Seed.style)} \cup Seed.defaults
  BY DEF Upsert
<1>4. Sound(table', defaults')
  BY <1>0, <1>2, <1>3, UpsertSound
<1>5. ASSUME NEW kind \in Kinds, NEW row \in table'[kind]
      PROVE  row \in table[kind] \/ (row.rev = "upsert" /\ row.id \in Ids(Seed[kind]))
  <2> DEFINE rows == SeedRows(kind, "upsert")
  <2>1. /\ Ids(rows) = Ids(Seed[kind])
        /\ \A s \in rows : s.rev = "upsert" /\ DOMAIN s = RowFields(kind)
    BY SeedIds
  <2>2. CASE kind # "roomType"
    <3>1. row \in table[kind] \/ row \in rows
      BY <1>2, <1>5, <2>2 DEF Upserted
    <3> HIDE DEF rows
    <3> QED
      BY <2>1, <3>1 DEF Ids
  <2>3. CASE kind = "roomType"
    <3>1. PICK old \in rows : row = [old EXCEPT !.categories = MergedCategories(old)]
      BY <1>0, <1>2, <1>5, <2>3, RoomTypesUpserted
    <3> HIDE DEF rows
    <3>2. row.rev = old.rev /\ row.id = old.id
      BY <2>1, <2>3, <3>1, KindsKnown
    <3> QED
      BY <2>1, <3>2 DEF Ids
  <2> QED
    BY <2>2, <2>3
<1>6. Seeds("upsert")
  BY <1>1, <1>5 DEF Seeds
<1> QED
  BY <1>4, <1>6, SeedsRead

LEMMA ReplaceWrites ==
    ASSUME ReadInv, Replace
    PROVE  Seeds("replace") /\ ReadInv'
<1>1. "replace" \in SeedActions \ seeded /\ seeded' = seeded \cup {"replace"} /\ req' = req
  BY SeedAssumption DEF Replace, SeedActions
<1>2. /\ table' = [kind \in Kinds |-> SeedRows(kind, "replace")]
      /\ defaults' = Seed.defaults
  BY DEF Replace
<1>3. Sound(table', defaults')
  BY <1>2, SeedSound
<1>4. ASSUME NEW kind \in Kinds, NEW row \in table'[kind]
      PROVE  row.rev = "replace" /\ row.id \in Ids(Seed[kind])
  <2>1. row \in SeedRows(kind, "replace")
    BY <1>2, <1>4
  <2> QED
    BY <2>1, SeedIds DEF Ids
<1>5. Seeds("replace")
  BY <1>1, <1>4 DEF Seeds
<1> QED
  BY <1>3, <1>5, SeedsRead

-----------------------------------------------------------------------------
(* Every step by what it does.                                             *)

Idles(q, e) == Moves(q, e) /\ e.at \in {"sent"} \cup Answers

Reads(q, e) == Moves(q, e) /\ HasRead(q, e)

Passes(q, e) ==
    /\ Moves(q, e) /\ req[q].at = "check" /\ e.at = "write" /\ Objection(q) = None
    /\ e.row = req[q].row /\ e.surface = req[q].surface /\ e.target = req[q].target
    /\ e.seen = req[q].seen

Lands(q) ==
    \/ Op(q).verb = "create" /\ Inserts(q)
    \/ Op(q).verb \in {"patch", "status"} /\ Edits(q)
    \/ Op(q).verb = "categories" /\ Relinks(q)
    \/ Op(q).verb = "defaults" /\ Redefaults(q)
    \/ Op(q).verb = "remove" /\ Removes(q)

LEMMA Steps ==
    ASSUME ReadInv, Next
    PROVE  /\ ReadInv'
           /\ \/ \E q \in Requests :
                    (\E e : Idles(q, e) \/ Reads(q, e) \/ Passes(q, e)) \/ Lands(q)
              \/ Upsert /\ Seeds("upsert")
              \/ Replace /\ Seeds("replace")
<1>1. ASSUME NEW q \in Requests, Submit(q) \/ ReadRow(q) \/ Check(q)
      PROVE  ReadInv' /\ \E e : Idles(q, e) \/ Reads(q, e) \/ Passes(q, e)
  <2>1. CASE Submit(q)
    BY <2>1, SubmitRead DEF Idles
  <2>2. CASE ReadRow(q)
    BY <2>2, ReadRowRead DEF Idles, Reads
  <2>3. CASE Check(q)
    <3>1. req[q].at = "check"
      BY <2>3 DEF Check
    <3> QED
      BY <2>3, <3>1, CheckRead DEF Idles, Passes
  <2> QED
    BY <1>1, <2>1, <2>2, <2>3
<1>2. ASSUME NEW q \in Requests, req[q].at = "write", Refused(q)
      PROVE  \E e : Idles(q, e)
  BY <1>2, RefusedRead DEF Idles
<1>3. ASSUME NEW q \in Requests,
             \/ Create(q) \/ Edit(q) \/ ReplaceCategories(q) \/ UpdateDefaults(q)
             \/ Delete(q)
      PROVE  ReadInv' /\ ((\E e : Idles(q, e)) \/ Lands(q))
  <2>1. CASE Create(q)
    <3>1. req[q].at = "write" /\ Op(q).verb = "create"
      BY <2>1 DEF Create
    <3> QED
      BY <1>2, <2>1, <3>1, CreateWrites DEF Lands
  <2>2. CASE Edit(q)
    <3>1. req[q].at = "write" /\ Op(q).verb \in {"patch", "status"}
      BY <2>2 DEF Edit
    <3> QED
      BY <1>2, <2>2, <3>1, EditWrites DEF Lands
  <2>3. CASE ReplaceCategories(q)
    <3>1. req[q].at = "write" /\ Op(q).verb = "categories"
      BY <2>3 DEF ReplaceCategories
    <3> QED
      BY <1>2, <2>3, <3>1, CategoriesWrites DEF Lands
  <2>4. CASE UpdateDefaults(q)
    <3>1. req[q].at = "write" /\ Op(q).verb = "defaults"
      BY <2>4 DEF UpdateDefaults
    <3> QED
      BY <1>2, <2>4, <3>1, DefaultsWrites DEF Lands
  <2>5. CASE Delete(q)
    <3>1. req[q].at = "write" /\ Op(q).verb = "remove"
      BY <2>5 DEF Delete
    <3> QED
      BY <1>2, <2>5, <3>1, DeleteWrites DEF Lands
  <2> QED
    BY <1>3, <2>1, <2>2, <2>3, <2>4, <2>5
<1>4. CASE \E q \in Requests :
              \/ Submit(q) \/ ReadRow(q) \/ Check(q)
              \/ Create(q) \/ Edit(q) \/ ReplaceCategories(q) \/ UpdateDefaults(q)
              \/ Delete(q)
  <2>1. PICK q \in Requests :
              \/ Submit(q) \/ ReadRow(q) \/ Check(q)
              \/ Create(q) \/ Edit(q) \/ ReplaceCategories(q) \/ UpdateDefaults(q)
              \/ Delete(q)
    BY <1>4
  <2> QED
    BY <1>1, <1>3, <2>1
<1>5. CASE Upsert
  BY <1>5, UpsertWrites
<1>6. CASE Replace
  BY <1>6, ReplaceWrites
<1> QED
  BY <1>4, <1>5, <1>6 DEF Next

LEMMA ReadInit ==
    ASSUME Init
    PROVE  ReadInv /\ \A q \in Requests : req[q].at = "form"
<1>1. /\ table = [kind \in Kinds |-> SeedRows(kind, "first")]
      /\ defaults = Seed.defaults /\ seeded = {}
  BY DEF Init
<1>2. PICK op : /\ req = [q \in Requests |-> Fresh(op[q])]
                /\ \A q \in Requests : op[q] \in Operations[q]
  BY DEF Init
<1>3. ASSUME NEW q \in Requests
      PROVE  /\ DOMAIN req[q] = {"op", "at", "target", "row", "surface", "seen"}
             /\ req[q].op = op[q] /\ req[q].at = "form"
  BY <1>2 DEF Fresh
<1>4. Shapes
  BY <1>2, <1>3 DEF Shapes, Op
<1>5. SeedsAllowed
  BY <1>1 DEF SeedsAllowed
<1>6. Sound(table, defaults)
  BY <1>1, SeedSound
<1>7. NamesStand
  <2> SUFFICES ASSUME NEW kind \in Kinds, NEW row \in table[kind]
               PROVE  /\ Known(row.rev)
                      /\ \A q \in Requests : row.id # <<"new", q>>
    BY DEF NamesStand
  <2>1. row \in SeedRows(kind, "first")
    BY <1>1
  <2>2. row.rev = "first" /\ row.id \in Ids(Seed[kind])
    BY <2>1, SeedIds DEF Ids
  <2> QED
    BY <2>2, NamesAssumption DEF Known, Ids
<1>8. \A q \in Requests : Stands(q)
  BY <1>3 DEF Stands
<1> QED
  BY <1>3, <1>4, <1>5, <1>6, <1>7, <1>8 DEF ReadInv

LEMMA ReadAlways == Spec => []ReadInv
<1>1. Init => ReadInv
  BY ReadInit
<1>2. ReadInv /\ [Next]_vars => ReadInv'
  <2> SUFFICES ASSUME ReadInv, [Next]_vars PROVE ReadInv'
    OBVIOUS
  <2>1. CASE Next
    BY <2>1, Steps
  <2>2. CASE UNCHANGED vars
    BY <2>2 DEF vars, ReadInv, Shapes, SeedsAllowed, NamesStand, Known, Done, Stands,
                Current, Rows, Op
  <2> QED
    BY <2>1, <2>2
<1> QED
  BY <1>1, <1>2, PTL DEF Spec

-----------------------------------------------------------------------------
\* The database's promises: ids and codes are unique, products are of categories
\* that exist, room types have categories that exist at places that differ, default
\* materials are of styles, products and pairs that exist, one for each style and
\* pair (schema.prisma, and the writes of the catalog's services).
THEOREM IndexesHold == Spec => []TypeOK
<1>1. ReadInv => TypeOK
  BY DEF ReadInv, Sound, Shapes, RowsTyped, IdsUnique, CodesUnique, ProductsHeld, LinksHeld,
         Ordered, DefaultsHeld, TypeOK, Kinds
<1> QED
  BY <1>1, ReadAlways, PTL

\* No change is lost: an edit replaces exactly the row its author was looking at, in
\* spite of edits in between and of the dataset written again under the same ids
\* (revision.ts, updateWithRevision).
THEOREM NoChangeLost == Spec => NoLostUpdate
<1> DEFINE Kept == \A q \in Requests :
                      /\ req[q].at = "write" /\ req'[q].at = "ok"
                      /\ Op(q).verb \in {"patch", "status", "categories", "defaults"}
                      => req[q].target \in Rows(q)
<1>1. ASSUME ReadInv, [Next]_vars PROVE [Kept]_vars
  <2>1. CASE UNCHANGED vars
    BY <2>1
  <2>2. CASE Next
    <3> SUFFICES ASSUME NEW q \in Requests, req[q].at = "write", req'[q].at = "ok",
                        Op(q).verb \in {"patch", "status", "categories", "defaults"}
                 PROVE  req[q].target \in Rows(q)
      OBVIOUS
    <3>1. /\ Shapes
          /\ \/ \E p \in Requests :
                    (\E e : Idles(p, e) \/ Reads(p, e) \/ Passes(p, e)) \/ Lands(p)
             \/ Seeds("upsert") \/ Seeds("replace")
      BY <1>1, <2>2, Steps DEF ReadInv
    <3>2. ASSUME NEW p \in Requests, NEW e, Moves(p, e) PROVE FALSE
      BY <3>1, <3>2, MovesFrame DEF Moves
    <3>3. ASSUME NEW p \in Requests, Lands(p) PROVE p = q
      <4>1. Writes(p)
        BY <3>3 DEF Lands, Inserts, Edits, Relinks, Redefaults, Removes
      <4>2. \A r \in Requests \ {p} : req'[r] = req[r]
        BY <3>1, <4>1, WritesFrame DEF Writes
      <4> QED
        BY <4>2
    <3>4. ~ Seeds("upsert") /\ ~ Seeds("replace")
      BY DEF Seeds
    <3>5. Lands(q)
      BY <3>1, <3>2, <3>3, <3>4 DEF Idles, Reads, Passes
    <3>6. Current(q) = {req[q].target}
      BY <3>5 DEF Lands, Edits, Relinks, Redefaults
    <3> QED
      BY <3>6 DEF Current
  <2> QED
    BY <1>1, <2>1, <2>2
<1> QED
  BY <1>1, ReadAlways, PTL DEF Spec, NoLostUpdate

\* Visitors can follow every link, whatever the administrators have done to default
\* materials, categories and products since (public-catalog.service.ts).
THEOREM LinksLead == Spec => []VisitorsCanFollow
<1>1. ASSUME ReadInv PROVE VisitorsCanFollow
  <2>1. \A p, other \in table.product : p.id = other.id => p = other
    BY <1>1 DEF ReadInv, Sound, IdsUnique, Kinds
  <2>2. ASSUME NEW s, NEW d \in DefaultsOffered(s)
        PROVE  d.product \in Ids(ProductsListed(d.cat)) /\ HasPage(d.product)
    BY DEF DefaultsOffered, DefaultAvailable, ProductsListed, HasPage, Ids
  <2>3. ASSUME NEW c \in Published("category")
        PROVE  ProductsListed(c.id) =
                  {p \in table.product : p.category = c.id /\ HasPage(p.id)}
    BY <2>1 DEF ProductsListed, HasPage, Published, Ids
  <2>4. ASSUME NEW r, NEW shown \in CategoriesShown(r)
        PROVE  shown.count = Cardinality({p \in table.product :
                            p.category = shown.category /\ HasPage(p.id)})
    <3>1. PICK c \in Published("category") :
              shown = [category |-> c.id, count |-> Cardinality(ProductsListed(c.id))]
      BY DEF CategoriesShown
    <3>2. shown.category = c.id /\ shown.count = Cardinality(ProductsListed(c.id))
      BY <3>1
    <3> QED
      BY <2>3, <3>2
  <2> QED
    BY <2>2, <2>4 DEF VisitorsCanFollow
<1> QED
  BY <1>1, ReadAlways, PTL

-----------------------------------------------------------------------------
(* What is published is complete.                                          *)

\* The styles the dataset publishes have their image: its schema does not ask for
\* it, but the styles of the repository have one (data/styles.ts).
StylesPictured == \A style \in Seed.style : style.status = "PUBLISHED" => style.image

\* The content of a row, should it be published.
Complete(kind, row) ==
    /\ kind = "product" /\ row.status = "PUBLISHED" => row.texts /\ row.primary
    /\ kind = "style" /\ row.status = "PUBLISHED" => StylePublishable(row)
    /\ kind = "materialType" /\ row.status = "PUBLISHED" => row.texts

AllComplete(t) == \A kind \in Kinds : \A row \in t[kind] : Complete(kind, row)

LEMMA CompleteRows == PublishedComplete <=> AllComplete(table)
<1>1. PublishedComplete => AllComplete(table)
  BY DEF PublishedComplete, AllComplete, Complete, Published
<1>2. AllComplete(table) => PublishedComplete
  BY DEF PublishedComplete, AllComplete, Complete, Published, Kinds
<1> QED
  BY <1>1, <1>2

LEMMA SeedComplete ==
    ASSUME StylesPictured, NEW kind \in Kinds, NEW time, NEW row \in SeedRows(kind, time)
    PROVE  Complete(kind, row)
<1>1. PICK s \in Seed[kind] : row = Stored(kind, s, time)
  BY DEF SeedRows
<1>2. kind # "roomType" =>
         row.status = s.status /\ \A field \in Fields[kind] : row[field] = s[field]
  BY <1>1, StoredRow
<1>3. /\ kind = "product" => s.texts /\ s.primary
      /\ kind = "style" => s.texts /\ (s.status = "PUBLISHED" => s.image)
      /\ kind = "materialType" => s.texts
  BY SeedAssumption DEF DatasetValid, StylesPictured
<1>4. /\ kind = "product" => row.texts = s.texts /\ row.primary = s.primary
      /\ kind = "style" => row.texts = s.texts /\ row.image = s.image
      /\ kind = "materialType" => row.texts = s.texts
  BY <1>2 DEF Fields
<1> QED
  BY <1>2, <1>3, <1>4 DEF Complete, StylePublishable

\* What the checks let pass is clear.
LEMMA PassesCleared ==
    ASSUME Shapes, NEW q \in Requests, NEW e, Passes(q, e)
    PROVE  Cleared(q)'
<1>1. req'[q] = e /\ Op(q)' = Op(q) /\ e.row = req[q].row
  BY MovesFrame DEF Passes
<1> DEFINE row == req[q].row
           merged == Patched(row, Op(q).patch)
<1>2. Objection(q) = None
  BY DEF Passes
<1>3. Is(q, "product", "status") /\ Op(q).patch.status = "PUBLISHED" =>
         row.texts /\ row.primary
  <2> SUFFICES ASSUME Is(q, "product", "status"), Op(q).patch.status = "PUBLISHED"
               PROVE  row.texts /\ row.primary
    OBVIOUS
  <2>1. ProductObjection(q) = None
    BY <1>2 DEF Objection, Is
  <2>2. ProductPublishable(row, req[q].surface)
    BY <2>1 DEF ProductObjection, Is, None
  <2> QED
    BY <2>2 DEF ProductPublishable
<1>4. Is(q, "product", "patch") /\ row.status = "PUBLISHED" =>
         merged.texts /\ merged.primary
  <2> SUFFICES ASSUME Is(q, "product", "patch"), row.status = "PUBLISHED"
               PROVE  merged.texts /\ merged.primary
    OBVIOUS
  <2>1. ProductPatchObjection(q) = None
    BY <1>2 DEF Objection, ProductObjection, Is
  <2>2. \E surface : ProductPublishable(merged, surface)
    BY <2>1 DEF ProductPatchObjection, None
  <2> QED
    BY <2>2 DEF ProductPublishable
<1>5. Is(q, "style", "status") /\ Op(q).patch.status = "PUBLISHED" => StylePublishable(row)
  <2> SUFFICES ASSUME Is(q, "style", "status"), Op(q).patch.status = "PUBLISHED"
               PROVE  StylePublishable(row)
    OBVIOUS
  <2>1. StyleObjection(q) = None /\ ReadsRow(Op(q))
    BY <1>2 DEF Objection, Is, ReadsRow
  <2> QED
    BY <2>1 DEF StyleObjection, Is, None
<1>6. Is(q, "style", "patch") /\ row.status = "PUBLISHED" => StylePublishable(merged)
  <2> SUFFICES ASSUME Is(q, "style", "patch"), row.status = "PUBLISHED"
               PROVE  StylePublishable(merged)
    OBVIOUS
  <2>1. StyleObjection(q) = None
    BY <1>2 DEF Objection, Is
  <2> QED
    BY <2>1 DEF StyleObjection, Is, None
<1>7. Is(q, "materialType", "patch") /\ merged.status = "PUBLISHED" => merged.texts
  <2> SUFFICES ASSUME Is(q, "materialType", "patch"), merged.status = "PUBLISHED"
               PROVE  merged.texts
    OBVIOUS
  <2>1. MaterialTypeObjection(q) = None
    BY <1>2 DEF Objection, Is
  <2> QED
    BY <2>1 DEF MaterialTypeObjection, Is, None
<1> QED
  BY <1>1, <1>3, <1>4, <1>5, <1>6, <1>7 DEF Cleared, Is

\* The row an edit leaves is complete: the one it replaces is the one it was
\* checked on.
LEMMA EditComplete ==
    ASSUME ReadInv, AllComplete(table), NEW q \in Requests, Cleared(q),
           Op(q).verb \in {"patch", "status"}, Edits(q)
    PROVE  Complete(Op(q).kind, Edited(q))
<1> DEFINE row == req[q].row
           old == req[q].target
           merged == Patched(old, Op(q).patch)
           new == Edited(q)
           fields == RowFields(Op(q).kind) \ {"rev"}
<1>1. req[q].at = "write" /\ Current(q) # {}
  BY DEF Edits, Writes
<1>2. /\ \A f \in DOMAIN Op(q).patch : new[f] = Op(q).patch[f]
      /\ \A f \in fields : f \notin DOMAIN Op(q).patch => new[f] = old[f]
      /\ \A f \in fields : new[f] = merged[f]
  BY <1>1, EditedRow
<1>3. ReadsRow(Op(q)) => row = old
  BY <1>1, CurrentRow
<1>4. /\ Op(q).verb = "patch" /\ Op(q).kind # "materialType" =>
            "status" \notin DOMAIN Op(q).patch
      /\ Op(q).verb = "status" =>
            /\ DOMAIN Op(q).patch = {"status"}
            /\ Op(q).kind \in {"product", "category", "style"}
  BY OpEdits DEF ReadInv
<1>5. /\ Op(q).kind = "product" => {"status", "texts", "primary"} \subseteq fields
      /\ Op(q).kind = "style" => {"status", "texts", "image"} \subseteq fields
      /\ Op(q).kind = "materialType" => {"status", "texts"} \subseteq fields
  BY KindsKnown
<1> HIDE DEF new, fields, old, row, merged
<1>6. CASE Op(q).kind = "product"
  <2>1. ReadsRow(Op(q))
    BY <1>6 DEF ReadsRow
  <2>2. CASE Op(q).verb = "patch"
    <3>1. new.status = row.status /\ new.texts = merged.texts /\ new.primary = merged.primary
      BY <1>2, <1>3, <1>4, <1>5, <1>6, <2>1, <2>2
    <3>2. row.status = "PUBLISHED" => merged.texts /\ merged.primary
      BY <1>1, <1>3, <1>6, <2>1, <2>2 DEF Cleared, Is, row, merged, old
    <3> QED
      BY <1>6, <3>1, <3>2 DEF Complete, new
  <2>3. CASE Op(q).verb = "status"
    <3>1. new.status = Op(q).patch.status /\ new.texts = row.texts /\ new.primary = row.primary
      BY <1>2, <1>3, <1>4, <1>5, <1>6, <2>1, <2>3
    <3>2. Op(q).patch.status = "PUBLISHED" => row.texts /\ row.primary
      BY <1>1, <1>6, <2>3 DEF Cleared, Is, row
    <3> QED
      BY <1>6, <3>1, <3>2 DEF Complete, new
  <2> QED
    BY <2>2, <2>3
<1>7. CASE Op(q).kind = "style"
  <2>1. CASE Op(q).verb = "patch"
    <3>1. ReadsRow(Op(q))
      BY <1>7, <2>1 DEF ReadsRow
    <3>2. new.status = row.status /\ new.texts = merged.texts /\ new.image = merged.image
      BY <1>2, <1>3, <1>4, <1>5, <1>7, <2>1, <3>1
    <3>3. row.status = "PUBLISHED" => merged.texts /\ merged.image
      BY <1>1, <1>3, <1>7, <2>1, <3>1 DEF Cleared, Is, row, merged, old, StylePublishable
    <3> QED
      BY <1>7, <3>2, <3>3 DEF Complete, new, StylePublishable
  <2>2. CASE Op(q).verb = "status"
    <3>1. new.status = Op(q).patch.status /\ new.texts = old.texts /\ new.image = old.image
      BY <1>2, <1>4, <1>5, <1>7, <2>2
    <3>2. CASE Op(q).patch.status = "PUBLISHED"
      <4>1. ReadsRow(Op(q))
        BY <1>7, <2>2, <3>2 DEF ReadsRow
      <4>2. row.texts /\ row.image
        BY <1>1, <1>7, <2>2, <3>2 DEF Cleared, Is, row, StylePublishable
      <4> QED
        BY <1>3, <1>7, <3>1, <4>1, <4>2 DEF Complete, new, StylePublishable
    <3>3. CASE Op(q).patch.status # "PUBLISHED"
      BY <1>7, <3>1, <3>3 DEF Complete, new
    <3> QED
      BY <3>2, <3>3
  <2> QED
    BY <2>1, <2>2
<1>8. CASE Op(q).kind = "materialType"
  <2>1. Op(q).verb = "patch"
    BY <1>4, <1>8
  <2>2. ReadsRow(Op(q))
    BY <1>8, <2>1 DEF ReadsRow
  <2>3. new.status = merged.status /\ new.texts = merged.texts
    BY <1>2, <1>5, <1>8
  <2>4. merged.status = "PUBLISHED" => merged.texts
    BY <1>1, <1>3, <1>8, <2>1, <2>2 DEF Cleared, Is, row, merged, old
  <2> QED
    BY <1>8, <2>3, <2>4 DEF Complete, new
<1>9. CASE Op(q).kind \notin {"product", "style", "materialType"}
  BY <1>9 DEF Complete
<1> QED
  BY <1>6, <1>7, <1>8, <1>9

\* Content while one table changes.
LEMMA CompleteReplaced ==
    ASSUME NEW t, DOMAIN t = Kinds, AllComplete(t), NEW kind \in Kinds, NEW rows,
           \A row \in rows : row \in t[kind] \/ Complete(kind, row),
           NEW u, u = [t EXCEPT ![kind] = rows]
    PROVE  AllComplete(u)
<1>1. u[kind] = rows /\ \A k \in Kinds \ {kind} : u[k] = t[k]
  BY OneTable
<1> QED
  BY <1>1 DEF AllComplete

LEMMA LandsComplete ==
    ASSUME ReadInv, AllComplete(table), NEW q \in Requests, Cleared(q), Lands(q)
    PROVE  AllComplete(table')
<1>1. Op(q).kind \in Kinds /\ DOMAIN table = Kinds
  BY OpKnown DEF ReadInv, Sound, RowsTyped
<1>2. CASE Op(q).verb = "create" /\ Inserts(q)
  <2>1. table' = [table EXCEPT ![Op(q).kind] = Rows(q) \cup {Created(q)}]
    BY <1>2 DEF Inserts
  <2>2. Created(q).status = "DRAFT"
    BY <1>2, CreatedRow DEF ReadInv
  <2>3. Complete(Op(q).kind, Created(q))
    BY <2>2 DEF Complete
  <2>4. \A row \in Rows(q) \cup {Created(q)} :
            row \in table[Op(q).kind] \/ Complete(Op(q).kind, row)
    BY <2>3 DEF Rows
  <2> QED
    BY <1>1, <2>1, <2>4, CompleteReplaced
<1>3. ASSUME NEW new, Replaces(q, new), Complete(Op(q).kind, new)
      PROVE  AllComplete(table')
  <2> DEFINE rows == (Rows(q) \ {req[q].target}) \cup {new}
  <2>1. table' = [table EXCEPT ![Op(q).kind] = rows]
    BY <1>3 DEF Replaces
  <2>2. \A row \in rows : row \in table[Op(q).kind] \/ Complete(Op(q).kind, row)
    BY <1>3 DEF Rows
  <2> HIDE DEF rows
  <2> QED
    BY <1>1, <2>1, <2>2, CompleteReplaced
<1>4. CASE Op(q).verb \in {"patch", "status"} /\ Edits(q)
  <2>1. Replaces(q, Edited(q))
    BY <1>4 DEF Edits
  <2>2. Complete(Op(q).kind, Edited(q))
    BY <1>4, EditComplete
  <2> QED
    BY <1>3, <2>1, <2>2
<1>5. CASE Op(q).verb = "categories" /\ Relinks(q)
  <2>1. Replaces(q, Relinked(q))
    BY <1>5 DEF Relinks
  <2>2. Complete(Op(q).kind, Relinked(q))
    BY <1>5, OpKnown DEF Complete, ReadInv
  <2> QED
    BY <1>3, <2>1, <2>2
<1>6. CASE Op(q).verb = "defaults" /\ Redefaults(q)
  <2>1. Replaces(q, Rewritten(q))
    BY <1>6 DEF Redefaults
  <2>2. /\ Op(q).kind = "style" /\ req[q].target \in table.style
        /\ DOMAIN req[q].target = RowFields("style")
    <3>1. Current(q) # {} /\ req[q].at = "write" /\ Op(q).kind = "style"
      BY <1>6, OpKnown DEF Redefaults, Writes, ReadInv
    <3> QED
      BY <1>6, <3>1, CurrentRow DEF Rows
  <2>3. /\ Rewritten(q).status = req[q].target.status
        /\ Rewritten(q).texts = req[q].target.texts
        /\ Rewritten(q).image = req[q].target.image
    BY <2>2, KindsKnown DEF Rewritten
  <2>4. Complete("style", req[q].target)
    BY <2>2 DEF AllComplete, Kinds
  <2>5. Complete("style", Rewritten(q))
    BY <2>3, <2>4 DEF Complete, StylePublishable
  <2> QED
    BY <1>3, <2>1, <2>2, <2>5
<1>7. CASE Op(q).verb = "remove" /\ Removes(q)
  <2> DEFINE rows == {row \in Rows(q) : row.id # req[q].target.id}
  <2>1. table' = [table EXCEPT ![Op(q).kind] = rows]
    BY <1>7 DEF Removes
  <2>2. \A row \in rows : row \in table[Op(q).kind] \/ Complete(Op(q).kind, row)
    BY DEF Rows
  <2> HIDE DEF rows
  <2> QED
    BY <1>1, <2>1, <2>2, CompleteReplaced
<1> QED
  BY <1>2, <1>4, <1>5, <1>6, <1>7 DEF Lands

LEMMA UpsertComplete ==
    ASSUME StylesPictured, AllComplete(table), Upsert
    PROVE  AllComplete(table')
<1> SUFFICES ASSUME NEW kind \in Kinds, NEW row \in table'[kind]
             PROVE  Complete(kind, row)
  BY DEF AllComplete
<1>1. table' = [k \in Kinds |->
                    IF k # "roomType" THEN Upserted(k)
                    ELSE {[r EXCEPT !.categories = MergedCategories(r)] :
                             r \in Upserted(k)}]
  BY DEF Upsert
<1>2. CASE kind = "roomType"
  BY <1>2 DEF Complete
<1>3. CASE kind # "roomType"
  <2>1. row \in table[kind] \/ row \in SeedRows(kind, "upsert")
    BY <1>1, <1>3 DEF Upserted
  <2> QED
    BY <2>1, SeedComplete DEF AllComplete
<1> QED
  BY <1>2, <1>3

LEMMA ReplaceComplete ==
    ASSUME StylesPictured, NEW time, NEW t, t = [kind \in Kinds |-> SeedRows(kind, time)]
    PROVE  AllComplete(t)
BY SeedComplete DEF AllComplete

LEMMA ContentStep ==
    ASSUME StylesPictured, ContentInv, [Next]_vars
    PROVE  ContentInv'
<1>0. ReadInv /\ Shapes /\ AllComplete(table) /\ \A q \in Requests : Cleared(q)
  BY CompleteRows DEF ContentInv, ReadInv
<1>1. PublishedComplete' <=> AllComplete(table')
  <2>1. PublishedComplete' => AllComplete(table')
    BY DEF PublishedComplete, AllComplete, Complete, Published
  <2>2. AllComplete(table') => PublishedComplete'
    BY DEF PublishedComplete, AllComplete, Complete, Published, Kinds
  <2> QED
    BY <2>1, <2>2
<1>2. CASE UNCHANGED vars
  <2>1. ReadInv'
    BY <1>0, <1>2 DEF vars, ReadInv, Shapes, SeedsAllowed, NamesStand, Known, Done, Stands,
                      Current, Rows, Op
  <2>2. \A q \in Requests : Cleared(q)'
    BY <1>0, <1>2 DEF vars, Cleared, Is, Op
  <2>3. table' = table
    BY <1>2 DEF vars
  <2> QED
    BY <1>0, <1>1, <2>1, <2>2, <2>3 DEF ContentInv
<1>3. CASE Next
  <2>1. /\ ReadInv'
        /\ \/ \E q \in Requests :
                 (\E e : Idles(q, e) \/ Reads(q, e) \/ Passes(q, e)) \/ Lands(q)
           \/ Upsert /\ Seeds("upsert")
           \/ Replace /\ Seeds("replace")
    BY <1>0, <1>3, Steps
  <2>2. ASSUME NEW p \in Requests, req'[p] = req[p], Op(p)' = Op(p)
        PROVE  Cleared(p)'
    BY <1>0, <2>2 DEF Cleared, Is
  <2>3. ASSUME NEW q \in Requests, NEW e, Idles(q, e) \/ Reads(q, e) \/ Passes(q, e)
        PROVE  AllComplete(table') /\ \A p \in Requests : Cleared(p)'
    <3>1. Moves(q, e)
      BY <2>3 DEF Idles, Reads, Passes
    <3>2. /\ req'[q] = e /\ table' = table
          /\ \A p \in Requests : Op(p)' = Op(p)
          /\ \A p \in Requests \ {q} : req'[p] = req[p]
      BY <1>0, <3>1, MovesFrame DEF Moves
    <3>3. Cleared(q)'
      <4>1. CASE e.at # "write"
        BY <3>2, <4>1 DEF Cleared
      <4>2. CASE e.at = "write"
        BY <1>0, <2>3, <4>2, PassesCleared DEF Idles, Reads, HasRead, Answers
      <4> QED
        BY <4>1, <4>2
    <3> QED
      BY <1>0, <2>2, <3>2, <3>3
  <2>4. ASSUME NEW q \in Requests, Lands(q)
        PROVE  AllComplete(table') /\ \A p \in Requests : Cleared(p)'
    <3>1. Writes(q)
      BY <2>4 DEF Lands, Inserts, Edits, Relinks, Redefaults, Removes
    <3>2. /\ req'[q].at = "ok"
          /\ \A p \in Requests : Op(p)' = Op(p)
          /\ \A p \in Requests \ {q} : req'[p] = req[p]
      BY <1>0, <3>1, WritesFrame DEF Writes
    <3>3. Cleared(q)'
      BY <3>2 DEF Cleared
    <3>4. AllComplete(table')
      BY <1>0, <2>4, LandsComplete
    <3> QED
      BY <2>2, <3>2, <3>3, <3>4
  <2>5. ASSUME NEW time, Seeds(time)
        PROVE  \A p \in Requests : Cleared(p)'
    <3>1. \A p \in Requests : req'[p] = req[p] /\ Op(p)' = Op(p)
      BY <2>5 DEF Seeds, Op
    <3> QED
      BY <2>2, <3>1
  <2>6. CASE Upsert /\ Seeds("upsert")
    BY <1>0, <1>1, <2>1, <2>5, <2>6, UpsertComplete DEF ContentInv
  <2>7. CASE Replace /\ Seeds("replace")
    <3>1. AllComplete(table')
      BY <2>7, ReplaceComplete DEF Replace
    <3> QED
      BY <1>1, <2>1, <2>5, <2>7, <3>1 DEF ContentInv
  <2> QED
    BY <1>1, <2>1, <2>3, <2>4, <2>6, <2>7 DEF ContentInv
<1> QED
  BY <1>2, <1>3

\* What is published stays publishable as far as its own row goes, whoever edits it
\* or unpublishes and publishes it meanwhile (products.service.ts, styles.service.ts,
\* material-types.service.ts), once the dataset's own styles are.
THEOREM PublishedStaysComplete ==
    ASSUME StylesPictured
    PROVE  Spec => []PublishedComplete
<1>1. Init => ContentInv
  <2> SUFFICES ASSUME Init PROVE ContentInv
    OBVIOUS
  <2>1. ReadInv /\ \A q \in Requests : Cleared(q)
    BY ReadInit DEF Cleared
  <2>2. AllComplete(table)
    BY ReplaceComplete DEF Init
  <2> QED
    BY <2>1, <2>2, CompleteRows DEF ContentInv
<1>2. ContentInv /\ [Next]_vars => ContentInv'
  BY ContentStep
<1>3. ContentInv => PublishedComplete
  BY DEF ContentInv
<1> QED
  BY <1>1, <1>2, <1>3, PTL DEF Spec

-----------------------------------------------------------------------------
(* The rules no index states, kept by a request that nobody overtakes.      *)

\* The surface of a category that is there under one row.
LEMMA SurfaceOf ==
    ASSUME NEW categories, NEW c \in categories,
           \A x, y \in categories : x.id = y.id => x = y
    PROVE  SurfaceIn(categories, c.id) = c.surface
<1>1. c = CHOOSE x \in categories : x.id = c.id
  OBVIOUS
<1> QED
  BY <1>1 DEF SurfaceIn

LEMMA ObjectionSame ==
    ASSUME NEW q \in Requests, Op(q)' = Op(q), req'[q].row = req[q].row,
           req'[q].surface = req[q].surface, req'[q].target = req[q].target,
           UNCHANGED <<table, defaults>>
    PROVE  Objection(q)' = Objection(q)
<1>1. ProductPatchObjection(q)' = ProductPatchObjection(q)
  BY DEF ProductPatchObjection, DefaultsOf
<1>2. ProductObjection(q)' = ProductObjection(q)
  BY <1>1 DEF ProductObjection, DefaultsOf
<1>3. CategoryObjection(q)' = CategoryObjection(q)
  BY DEF CategoryObjection, Bare, CategoryInUse
<1>4. StyleObjection(q)' = StyleObjection(q)
  BY DEF StyleObjection, ItemFits
<1>5. MaterialTypeObjection(q)' = MaterialTypeObjection(q)
  BY DEF MaterialTypeObjection
<1>6. RoomTypeObjection(q)' = RoomTypeObjection(q)
  BY DEF RoomTypeObjection
<1> QED
  BY <1>2, <1>3, <1>4, <1>5, <1>6 DEF Objection

LEMMA RulesStep ==
    ASSUME RulesInv, [Next]_vars
    PROVE  RulesInv'
<1>0. /\ ReadInv /\ Shapes /\ SeedsAllowed
      /\ \A q \in Requests : Undisturbed(q) /\ Stands(q)
  BY DEF RulesInv, ReadInv
<1>1. ASSUME NEW p \in Requests, req'[p] = req[p], Op(p)' = Op(p), Done' = Done,
             UNCHANGED <<table, defaults>>
      PROVE  Undisturbed(p)'
  <2>1. Objection(p)' = Objection(p)
    BY <1>1, ObjectionSame
  <2>2. Rows(p)' = Rows(p)
    BY <1>1 DEF Rows
  <2> QED
    BY <1>0, <1>1, <2>1, <2>2 DEF Undisturbed
<1>2. CASE UNCHANGED vars
  <2>1. ReadInv'
    BY <1>0, <1>2 DEF vars, ReadInv, Shapes, SeedsAllowed, NamesStand, Known, Done, Stands,
                      Current, Rows, Op
  <2>2. \A p \in Requests : req'[p] = req[p] /\ Op(p)' = Op(p)
    BY <1>2 DEF vars, Op
  <2>3. Done' = Done /\ UNCHANGED <<table, defaults>>
    BY <1>2 DEF vars, Done
  <2> QED
    BY <1>1, <2>1, <2>2, <2>3 DEF RulesInv
<1>3. CASE Next
  <2>1. /\ ReadInv'
        /\ \/ \E q \in Requests :
                 (\E e : Idles(q, e) \/ Reads(q, e) \/ Passes(q, e)) \/ Lands(q)
           \/ Seeds("upsert") \/ Seeds("replace")
    BY <1>0, <1>3, Steps
  <2>2. ASSUME NEW q \in Requests, NEW e, Idles(q, e) \/ Reads(q, e) \/ Passes(q, e)
        PROVE  \A p \in Requests : Undisturbed(p)'
    <3>1. Moves(q, e)
      BY <2>2 DEF Idles, Reads, Passes
    <3>2. /\ req'[q] = e /\ Done' = Done /\ UNCHANGED <<table, defaults>>
          /\ \A p \in Requests : Op(p)' = Op(p)
          /\ \A p \in Requests \ {q} : req'[p] = req[p]
      BY <1>0, <3>1, MovesFrame DEF Moves
    <3>3. Rows(q)' = Rows(q)
      BY <3>2 DEF Rows
    <3>4. CASE Idles(q, e)
      <4>1. Undisturbed(q)'
        BY <3>2, <3>4 DEF Undisturbed, Idles, Answers
      <4> QED
        BY <1>1, <3>2, <4>1
    <3>5. CASE Reads(q, e)
      <4>1. Undisturbed(q)'
        BY <3>2, <3>3, <3>5 DEF Undisturbed, Reads, HasRead
      <4> QED
        BY <1>1, <3>2, <4>1
    <3>6. CASE Passes(q, e)
      <4>1. Objection(q)' = None
        BY <3>2, <3>6, ObjectionSame DEF Passes
      <4>2. Undisturbed(q)'
        BY <1>0, <3>2, <3>3, <3>6, <4>1 DEF Undisturbed, Passes
      <4> QED
        BY <1>1, <3>2, <4>2
    <3> QED
      BY <2>2, <3>4, <3>5, <3>6
  <2>3. ASSUME NEW q \in Requests, Lands(q)
        PROVE  \A p \in Requests : Undisturbed(p)'
    <3>1. Writes(q)
      BY <2>3 DEF Lands, Inserts, Edits, Relinks, Redefaults, Removes
    <3>2. /\ req'[q].at = "ok" /\ Done' = Done \cup {q} /\ q \notin Done
          /\ \A p \in Requests \ {q} : req'[p] = req[p]
      BY <1>0, <3>1, WritesFrame, NotDone DEF Writes
    <3>3. Undisturbed(q)'
      BY <3>2 DEF Undisturbed
    <3>4. ASSUME NEW p \in Requests \ {q} PROVE Undisturbed(p)'
      <4>1. req[p].at \in {"check", "write"} => q \notin req[p].seen
        BY <1>0, <3>2 DEF Stands
      <4> QED
        BY <3>2, <4>1 DEF Undisturbed
    <3> QED
      BY <3>3, <3>4
  <2>4. ASSUME NEW time, Seeds(time)
        PROVE  \A p \in Requests : Undisturbed(p)'
    <3>1. time \notin Done /\ Done' = Done \cup {time} /\ req' = req
      <4>1. req' = req /\ seeded' = seeded \cup {time} /\ time \notin seeded
            /\ time \notin Requests
        BY <2>4, NamesAssumption DEF Seeds, SeedActions
      <4> QED
        BY <4>1 DEF Done
    <3>2. \A p \in Requests : req[p].at \in {"check", "write"} => time \notin req[p].seen
      BY <1>0, <3>1 DEF Stands
    <3> QED
      BY <3>1, <3>2 DEF Undisturbed
  <2> QED
    BY <2>1, <2>2, <2>3, <2>4 DEF RulesInv
<1> QED
  BY <1>2, <1>3

-----------------------------------------------------------------------------
(* The gaps and misfits of a write.                                        *)

Gap(t, p) == /\ p.status = "PUBLISHED" /\ ~ p.surfaceData
             /\ SurfaceIn(t.category, p.category) # "NONE"

Misfit(t, d) == \A p \in t.product : p.id = d.product => p.category # d.cat

\* No gap of u that is not one of t, and no misfit either.
LEMMA NoNewGap ==
    ASSUME NEW t, NEW u,
           \A p \in u.product : Gap(u, p) => \E r \in t.product : r.id = p.id /\ Gap(t, r)
    PROVE  Gaps(u) \subseteq Gaps(t)
BY DEF Gaps, Gap

LEMMA NoNewMisfit ==
    ASSUME NEW t, NEW u, NEW ds, NEW es,
           \A d \in es : Misfit(u, d) => d \in ds /\ Misfit(t, d)
    PROVE  Misfits(u, es) \subseteq Misfits(t, ds)
BY DEF Misfits, Misfit

\* A category gone or a new one changes the surface of no product.
LEMMA SurfacesStay ==
    ASSUME NEW t, NEW u, IdsUnique(t), IdsUnique(u), ProductsHeld(t),
           NEW p \in t.product, \A c \in t.category : c.id = p.category => c \in u.category
    PROVE  SurfaceIn(u.category, p.category) = SurfaceIn(t.category, p.category)
<1>1. /\ \A x, y \in t.category : x.id = y.id => x = y
      /\ \A x, y \in u.category : x.id = y.id => x = y
  BY DEF IdsUnique, Kinds
<1>2. PICK c \in t.category : c.id = p.category
  BY DEF ProductsHeld, Ids
<1>3. c \in u.category
  BY <1>2
<1>4. /\ SurfaceIn(t.category, c.id) = c.surface
      /\ SurfaceIn(u.category, c.id) = c.surface
  BY <1>1, <1>3, SurfaceOf
<1> QED
  BY <1>2, <1>4

\* What a request nobody has overtaken knows when it writes.
Clear(q) ==
    /\ req[q].at = "write" /\ Objection(q) = None
    /\ ReadsRow(Op(q)) =>
          /\ req[q].row \in Rows(q)
          /\ Op(q).kind = "product" =>
                req[q].surface = SurfaceIn(table.category, req[q].row.category)

LEMMA InsertKeeps ==
    ASSUME ReadInv, ReadInv', NEW q \in Requests, Op(q).verb = "create", Inserts(q)
    PROVE  /\ Gaps(table') \subseteq Gaps(table)
           /\ Misfits(table', defaults') \subseteq Misfits(table, defaults)
<1>0. /\ Op(q).kind \in Kinds /\ DOMAIN table = Kinds /\ ProductsHeld(table)
      /\ IdsUnique(table) /\ IdsUnique(table')
      /\ Created(q).status = "DRAFT" /\ defaults' = defaults
  BY OpKnown, CreatedRow DEF ReadInv, Sound, RowsTyped, Inserts
<1>1. table' = [table EXCEPT ![Op(q).kind] = Rows(q) \cup {Created(q)}]
  BY DEF Inserts
<1>2. /\ table.product \subseteq table'.product
      /\ table'.product \subseteq table.product \cup {Created(q)}
      /\ table.category \subseteq table'.category
  BY <1>0, <1>1 DEF Rows, Kinds
<1>3. \A p \in table'.product : Gap(table', p) => p \in table.product /\ Gap(table, p)
  <2> SUFFICES ASSUME NEW p \in table'.product, Gap(table', p)
               PROVE  p \in table.product /\ Gap(table, p)
    OBVIOUS
  <2>1. p \in table.product
    BY <1>0, <1>2 DEF Gap
  <2>2. SurfaceIn(table'.category, p.category) = SurfaceIn(table.category, p.category)
    BY <1>0, <1>2, <2>1, SurfacesStay
  <2> QED
    BY <2>1, <2>2 DEF Gap
<1>4. \A d \in defaults : Misfit(table', d) => Misfit(table, d)
  BY <1>2 DEF Misfit
<1> QED
  BY <1>0, <1>3, <1>4, NoNewGap, NoNewMisfit

LEMMA ProductEditKeeps ==
    ASSUME ReadInv, ReadInv', NEW q \in Requests, Op(q).verb \in {"patch", "status"},
           Edits(q), Clear(q), Op(q).kind = "product"
    PROVE  /\ Gaps(table') \subseteq Gaps(table)
           /\ Misfits(table', defaults') \subseteq Misfits(table, defaults)
<1> DEFINE old == req[q].target
           patch == Op(q).patch
           merged == Patched(old, patch)
           new == Edited(q)
           moves == "category" \in DOMAIN patch /\ patch.category # old.category
           fields == RowFields("product") \ {"rev"}
<1>0. /\ DOMAIN table = Kinds /\ defaults' = defaults /\ req[q].at = "write"
      /\ Current(q) # {} /\ ReadsRow(Op(q))
  BY DEF ReadInv, Sound, RowsTyped, Edits, Writes, ReadsRow
<1>1. req[q].row = old /\ old \in table.product
  BY <1>0, CurrentRow DEF Rows
<1>2. /\ \A f \in DOMAIN patch : new[f] = patch[f]
      /\ \A f \in fields : f \notin DOMAIN patch => new[f] = old[f]
      /\ \A f \in fields : new[f] = merged[f]
      /\ new.id = old.id
  BY <1>0, EditedRow
<1>3. {"status", "category", "surfaceData"} \subseteq fields
  BY KindsKnown
<1>4. /\ Op(q).verb = "patch" => "status" \notin DOMAIN patch
      /\ Op(q).verb = "status" => DOMAIN patch = {"status"}
  BY OpEdits DEF ReadInv
<1>5. table'.product = (table.product \ {old}) \cup {new} /\ table'.category = table.category
  BY <1>0 DEF Edits, Replaces, Rows, Kinds
<1>6. req[q].surface = SurfaceIn(table.category, old.category)
  BY <1>0, <1>1 DEF Clear
<1>7. Objection(q) = None
  BY DEF Clear
<1> HIDE DEF new, fields
<1>8. new.category = IF moves THEN patch.category ELSE old.category
  BY <1>2, <1>3
<1>9. new.status = "PUBLISHED" =>
         new.surfaceData \/ SurfaceIn(table.category, new.category) = "NONE"
  <2>1. CASE Op(q).verb = "patch"
    <3>1. ProductPatchObjection(q) = None
      BY <1>7, <2>1 DEF Objection, ProductObjection
    <3>2. old.status = "PUBLISHED" =>
              ProductPublishable(merged, IF moves THEN SurfaceIn(table.category, patch.category)
                                         ELSE req[q].surface)
      BY <1>1, <3>1 DEF ProductPatchObjection, None
    <3>3. new.status = old.status /\ new.surfaceData = merged.surfaceData
      BY <1>2, <1>3, <1>4, <2>1
    <3> QED
      BY <1>6, <1>8, <3>2, <3>3 DEF ProductPublishable
  <2>2. CASE Op(q).verb = "status"
    <3>1. ProductObjection(q) = None
      BY <1>7 DEF Objection
    <3>2. patch.status = "PUBLISHED" => ProductPublishable(old, req[q].surface)
      BY <1>1, <2>2, <3>1 DEF ProductObjection, None
    <3>3. new.status = patch.status /\ new.surfaceData = old.surfaceData
      BY <1>2, <1>3, <1>4, <2>2
    <3>4. ~ moves
      BY <1>4, <2>2
    <3> QED
      BY <1>6, <1>8, <3>2, <3>3, <3>4 DEF ProductPublishable
  <2> QED
    BY <2>1, <2>2
<1>10. moves => DefaultsOf(old.id) = {}
  <2> SUFFICES ASSUME moves PROVE DefaultsOf(old.id) = {}
    OBVIOUS
  <2>1. Op(q).verb = "patch"
    BY <1>4
  <2>2. ProductPatchObjection(q) = None
    BY <1>7, <2>1 DEF Objection, ProductObjection
  <2> QED
    BY <1>1, <2>2 DEF ProductPatchObjection, None
<1> HIDE DEF old, patch, merged, moves
<1>11. \A p \in table'.product : Gap(table', p) => p \in table.product /\ Gap(table, p)
  <2> SUFFICES ASSUME NEW p \in table'.product, Gap(table', p)
               PROVE  p \in table.product /\ Gap(table, p)
    OBVIOUS
  <2>1. p # new
    BY <1>5, <1>9 DEF Gap
  <2> QED
    BY <1>5, <2>1 DEF Gap
<1>12. \A d \in defaults : Misfit(table', d) => Misfit(table, d)
  <2> SUFFICES ASSUME NEW d \in defaults, Misfit(table', d),
                      NEW p \in table.product, p.id = d.product
               PROVE  p.category # d.cat
    BY DEF Misfit
  <2>1. CASE p # old
    BY <1>5, <2>1 DEF Misfit
  <2>2. CASE p = old
    <3>1. new.category # d.cat
      BY <1>2, <1>5, <2>2 DEF Misfit
    <3>2. d \in DefaultsOf(old.id)
      BY <2>2 DEF DefaultsOf
    <3> QED
      BY <1>8, <1>10, <2>2, <3>1, <3>2
  <2> QED
    BY <2>1, <2>2
<1> QED
  BY <1>0, <1>11, <1>12, NoNewGap, NoNewMisfit

LEMMA CategoryEditKeeps ==
    ASSUME ReadInv, ReadInv', NEW q \in Requests, Op(q).verb \in {"patch", "status"},
           Edits(q), Clear(q), Op(q).kind = "category"
    PROVE  /\ Gaps(table') \subseteq Gaps(table)
           /\ Misfits(table', defaults') \subseteq Misfits(table, defaults)
<1> DEFINE old == req[q].target
           patch == Op(q).patch
           new == Edited(q)
<1>0. /\ DOMAIN table = Kinds /\ defaults' = defaults /\ req[q].at = "write"
      /\ Current(q) # {} /\ ProductsHeld(table) /\ IdsUnique(table) /\ IdsUnique(table')
  BY DEF ReadInv, Sound, RowsTyped, Edits, Writes
<1>1. old \in table.category /\ (ReadsRow(Op(q)) => req[q].row = old)
  BY <1>0, CurrentRow DEF Rows
<1>2. /\ \A f \in DOMAIN patch : new[f] = patch[f]
      /\ "surface" \notin DOMAIN patch => new.surface = old.surface
      /\ new.id = old.id
  BY <1>0, EditedRow, KindsKnown
<1>3. /\ table'.product = table.product
      /\ table'.category = (table.category \ {old}) \cup {new}
  BY <1>0 DEF Edits, Replaces, Rows, Kinds
<1>4. \/ new.surface = old.surface \/ new.surface = "NONE" \/ Bare(old.id) = {}
  <2>1. CASE "surface" \notin DOMAIN patch \/ new.surface = "NONE"
    BY <1>2, <2>1
  <2>2. CASE "surface" \in DOMAIN patch /\ new.surface # "NONE"
    <3>1. new.surface = patch.surface
      BY <1>2, <2>2
    <3>2. Op(q).verb = "patch"
      BY <2>2, OpEdits DEF ReadInv
    <3>3. ReadsRow(Op(q))
      BY <2>2, <3>1, <3>2 DEF ReadsRow
    <3>4. CategoryObjection(q) = None
      BY DEF Clear, Objection
    <3>5. patch.surface = old.surface \/ Bare(old.id) = {}
      BY <1>1, <3>2, <3>3, <3>4 DEF CategoryObjection, None
    <3> QED
      BY <3>1, <3>5
  <2> QED
    BY <2>1, <2>2
<1> HIDE DEF old, new, patch
<1>5. \A p \in table'.product : Gap(table', p) => p \in table.product /\ Gap(table, p)
  <2> SUFFICES ASSUME NEW p \in table'.product, Gap(table', p)
               PROVE  p \in table.product /\ Gap(table, p)
    OBVIOUS
  <2>1. CASE p.category # old.id
    <3>1. \A c \in table.category : c.id = p.category => c \in table'.category
      BY <1>3, <2>1
    <3>2. SurfaceIn(table'.category, p.category) = SurfaceIn(table.category, p.category)
      BY <1>0, <1>3, <3>1, SurfacesStay
    <3> QED
      BY <1>3, <3>2 DEF Gap
  <2>2. CASE p.category = old.id
    <3>1. /\ \A x, y \in table.category : x.id = y.id => x = y
          /\ \A x, y \in table'.category : x.id = y.id => x = y
      BY <1>0 DEF IdsUnique, Kinds
    <3>2. new \in table'.category
      BY <1>3
    <3>3. SurfaceIn(table.category, old.id) = old.surface
      BY <1>1, <3>1, SurfaceOf
    <3>4. SurfaceIn(table'.category, new.id) = new.surface
      BY <3>1, <3>2, SurfaceOf
    <3>5. p \in Bare(old.id)
      BY <1>3, <2>2 DEF Gap, Bare
    <3> QED
      BY <1>2, <1>3, <1>4, <2>2, <3>3, <3>4, <3>5 DEF Gap
  <2> QED
    BY <2>1, <2>2
<1>6. \A d \in defaults : Misfit(table', d) => Misfit(table, d)
  BY <1>3 DEF Misfit
<1> QED
  BY <1>0, <1>5, <1>6, NoNewGap, NoNewMisfit

LEMMA DefaultsKeep ==
    ASSUME ReadInv, NEW q \in Requests, Op(q).verb = "defaults", Redefaults(q), Clear(q)
    PROVE  Misfits(table', defaults') \subseteq Misfits(table, defaults)
<1>0. /\ DOMAIN table = Kinds /\ Op(q).kind = "style" /\ Shapes
  BY OpKnown DEF ReadInv, Sound, RowsTyped
<1>1. table'.product = table.product
  BY <1>0 DEF Redefaults, Replaces, Kinds
<1>2. \A item \in Given(Op(q).items) : ItemFits(item)
  <2>1. StyleObjection(q) = None
    BY <1>0 DEF Clear, Objection
  <2> QED
    BY <1>0, <2>1 DEF StyleObjection, None
<1>3. ASSUME NEW d \in Placements(q) PROVE ~ Misfit(table', d)
  <2>1. PICK item \in Given(Op(q).items) : d.cat = item.cat /\ d.product = item.product
    BY <1>0, PlacementFields
  <2>2. PICK p \in table.product : p.id = item.product /\ p.category = item.cat
    BY <1>2 DEF ItemFits
  <2> QED
    BY <1>1, <2>1, <2>2 DEF Misfit
<1>4. \A d \in defaults' : Misfit(table', d) => d \in defaults /\ Misfit(table, d)
  <2>1. \A d \in defaults' : d \in defaults \/ d \in Placements(q)
    BY DEF Redefaults
  <2> QED
    BY <1>1, <1>3, <2>1 DEF Misfit
<1> QED
  BY <1>4, NoNewMisfit

LEMMA RemoveKeeps ==
    ASSUME ReadInv, ReadInv', NEW q \in Requests, Op(q).verb = "remove", Removes(q)
    PROVE  /\ Gaps(table') \subseteq Gaps(table)
           /\ Misfits(table', defaults') \subseteq Misfits(table, defaults)
<1> DEFINE id == req[q].target.id
<1>0. /\ DOMAIN table = Kinds /\ Op(q).kind \in {"product", "category", "style"}
      /\ ProductsHeld(table) /\ IdsUnique(table) /\ IdsUnique(table')
  BY OpKnown DEF ReadInv, Sound, RowsTyped
<1>1. /\ defaults' \subseteq defaults
      /\ Op(q).kind = "product" => DefaultsOf(id) = {}
      /\ Op(q).kind = "category" => ~ CategoryInUse(id)
  BY DEF Removes
<1>2. /\ table'.product \subseteq table.product
      /\ \A p \in table.product :
            p \in table'.product \/ (Op(q).kind = "product" /\ p.id = id)
      /\ \A c \in table.category :
            c \in table'.category \/ (Op(q).kind = "category" /\ c.id = id)
  <2>1. /\ Op(q).kind # "product" => table'.product = table.product
        /\ Op(q).kind # "category" => table'.category = table.category
        /\ Op(q).kind = "product" => table'.product = {p \in table.product : p.id # id}
        /\ Op(q).kind = "category" => table'.category = {c \in table.category : c.id # id}
    BY <1>0 DEF Removes, Rows, Kinds
  <2> HIDE DEF id
  <2> QED
    BY <2>1
<1> HIDE DEF id
<1>3. \A p \in table'.product : Gap(table', p) => p \in table.product /\ Gap(table, p)
  <2> SUFFICES ASSUME NEW p \in table'.product, Gap(table', p)
               PROVE  p \in table.product /\ Gap(table, p)
    OBVIOUS
  <2>1. p \in table.product
    BY <1>2
  <2>2. \A c \in table.category : c.id = p.category => c \in table'.category
    BY <1>1, <1>2, <2>1 DEF CategoryInUse
  <2>3. SurfaceIn(table'.category, p.category) = SurfaceIn(table.category, p.category)
    BY <1>0, <2>1, <2>2, SurfacesStay
  <2> QED
    BY <2>1, <2>3 DEF Gap
<1>4. \A d \in defaults' : Misfit(table', d) => d \in defaults /\ Misfit(table, d)
  <2> SUFFICES ASSUME NEW d \in defaults', Misfit(table', d), NEW p \in table.product,
                      p.id = d.product
               PROVE  p.category # d.cat
    BY <1>1 DEF Misfit
  <2>1. p \in table'.product
    BY <1>1, <1>2 DEF DefaultsOf
  <2> QED
    BY <2>1 DEF Misfit
<1> QED
  BY <1>3, <1>4, NoNewGap, NoNewMisfit

LEMMA LandsKeeps ==
    ASSUME ReadInv, ReadInv', NEW q \in Requests, Lands(q), Clear(q)
    PROVE  /\ Gaps(table') \subseteq Gaps(table)
           /\ Misfits(table', defaults') \subseteq Misfits(table, defaults)
<1>0. DOMAIN table = Kinds /\ Op(q).kind \in Kinds /\ Shapes
  BY OpKnown DEF ReadInv, Sound, RowsTyped
<1>1. ASSUME NEW new, Replaces(q, new), Op(q).kind \notin {"product", "category"}
      PROVE  table'.product = table.product /\ table'.category = table.category
  BY <1>0, <1>1 DEF Replaces, Kinds
<1>2. CASE Op(q).verb = "create" /\ Inserts(q)
  BY <1>2, InsertKeeps
<1>3. CASE Op(q).verb \in {"patch", "status"} /\ Edits(q)
  <2>1. CASE Op(q).kind \notin {"product", "category"}
    <3>1. table'.product = table.product /\ table'.category = table.category
      BY <1>1, <1>3, <2>1 DEF Edits
    <3>2. defaults' = defaults
      BY <1>3 DEF Edits
    <3> QED
      BY <3>1, <3>2 DEF Gaps, Misfits
  <2> QED
    BY <1>3, <2>1, ProductEditKeeps, CategoryEditKeeps
<1>4. CASE Op(q).verb = "categories" /\ Relinks(q)
  <2>1. Op(q).kind = "roomType"
    BY <1>0, <1>4, OpKnown
  <2>2. table'.product = table.product /\ table'.category = table.category
    BY <1>1, <1>4, <2>1 DEF Relinks
  <2>3. defaults' \subseteq defaults
    BY <1>4 DEF Relinks, DefaultsLeft
  <2> QED
    BY <2>2, <2>3 DEF Gaps, Misfits
<1>5. CASE Op(q).verb = "defaults" /\ Redefaults(q)
  <2>1. Op(q).kind = "style"
    BY <1>0, <1>5, OpKnown
  <2>2. table'.product = table.product /\ table'.category = table.category
    BY <1>1, <1>5, <2>1 DEF Redefaults
  <2>3. Gaps(table') \subseteq Gaps(table)
    BY <2>2 DEF Gaps
  <2> QED
    BY <1>5, <2>3, DefaultsKeep
<1>6. CASE Op(q).verb = "remove" /\ Removes(q)
  BY <1>6, RemoveKeeps
<1> QED
  BY <1>2, <1>3, <1>4, <1>5, <1>6 DEF Lands

\* A request that nobody overtakes between its first read and its write leaves no
\* new published product without the data its category's surface needs and no new
\* default material of another category, whichever side it changes: the product,
\* its category, the surface, or the defaults (the checks of products.service.ts,
\* categories.service.ts and styles.service.ts, which no index backs).
THEOREM UncontestedKeepsRules == Spec => RulesKept
<1> DEFINE Keeps == \A q \in Requests :
          /\ req[q].at = "write" /\ req'[q].at = "ok"
          /\ Done = req[q].seen
          => /\ Gaps(table') \subseteq Gaps(table)
             /\ Misfits(table', defaults') \subseteq Misfits(table, defaults)
<1>1. Init => RulesInv
  BY ReadInit DEF RulesInv, Undisturbed
<1>2. RulesInv /\ [Next]_vars => RulesInv'
  BY RulesStep
<1>3. ASSUME RulesInv, [Next]_vars PROVE [Keeps]_vars
  <2>1. CASE UNCHANGED vars
    BY <2>1
  <2>2. CASE Next
    <3> SUFFICES ASSUME NEW q \in Requests, req[q].at = "write", req'[q].at = "ok",
                        Done = req[q].seen
                 PROVE  /\ Gaps(table') \subseteq Gaps(table)
                        /\ Misfits(table', defaults') \subseteq Misfits(table, defaults)
      OBVIOUS
    <3>1. /\ Shapes /\ ReadInv /\ ReadInv'
          /\ \/ \E p \in Requests :
                    (\E e : Idles(p, e) \/ Reads(p, e) \/ Passes(p, e)) \/ Lands(p)
             \/ Seeds("upsert") \/ Seeds("replace")
      BY <1>3, <2>2, Steps DEF ReadInv, RulesInv
    <3>2. ASSUME NEW p \in Requests, NEW e, Moves(p, e) PROVE FALSE
      BY <3>1, <3>2, MovesFrame DEF Moves
    <3>3. ASSUME NEW p \in Requests, Lands(p) PROVE p = q
      <4>1. Writes(p)
        BY <3>3 DEF Lands, Inserts, Edits, Relinks, Redefaults, Removes
      <4>2. \A r \in Requests \ {p} : req'[r] = req[r]
        BY <3>1, <4>1, WritesFrame DEF Writes
      <4> QED
        BY <4>2
    <3>4. ~ Seeds("upsert") /\ ~ Seeds("replace")
      BY DEF Seeds
    <3>5. Lands(q)
      BY <3>1, <3>2, <3>3, <3>4 DEF Idles, Reads, Passes
    <3>6. Clear(q)
      BY <1>3 DEF RulesInv, Undisturbed, Clear
    <3> QED
      BY <3>1, <3>5, <3>6, LandsKeeps
  <2> QED
    BY <1>3, <2>1, <2>2
<1> QED
  BY <1>1, <1>2, <1>3, PTL DEF Spec, RulesKept
=============================================================================
