------------------------------ MODULE Formula ------------------------------
(***************************************************************************)
(* The formula language of the calculation engine                          *)
(* (src/packages/calc-engine/src/formula): what the parser lets through,   *)
(* the static check an administrator's formula has to pass, and the        *)
(* evaluation every estimate relies on.                                    *)
(*                                                                         *)
(* A source text is the tree the grammar builds from it; the node type     *)
(* "Unsupported" stands for every construct the converter refuses.  A      *)
(* number is a multiple of 1/Scale, held as an integer, and a result       *)
(* beyond MaxNumber is not finite.  The names of variables, coefficients   *)
(* and enum values are strings, as in the program.                         *)
(*                                                                         *)
(* What walks a tree is a recursive function on Trees, the texts that are  *)
(* written: a value computed from the values at the nodes below.           *)
(***************************************************************************)
EXTENDS Integers, Sequences, FiniteSets, SequencesExt

CONSTANTS
    Trees,      \* the trees of the formulas that are written, with their nodes
    Scale,      \* 1 is held as Scale
    MaxNumber,  \* the largest finite number
    MaxDepth,   \* FORMULA_LIMITS.maxDepth
    MaxNodes    \* FORMULA_LIMITS.maxNodes

ASSUME LimitsAssumption ==
    /\ Scale \in Nat \ {0} /\ MaxNumber \in Nat
    /\ MaxDepth \in Nat \ {0} /\ MaxNodes \in Nat \ {0}

-----------------------------------------------------------------------------
(* Trees and values.                                                       *)

Num(n) == [kind |-> "number", n |-> n]
Bool(b) == [kind |-> "boolean", b |-> b]
Str(s) == [kind |-> "string", s |-> s]
Failure(code) == [kind |-> "failure", code |-> code]
Failed(v) == v.kind = "failure"
IsNumber(v) == v.kind = "number" /\ v.n \in Int

Literal(value) == [type |-> "Literal", value |-> value]
Identifier(name) == [type |-> "Identifier", name |-> name]
Member(object, property) ==
    [type |-> "Member", object |-> object, property |-> property]
Call(callee, args) == [type |-> "Call", callee |-> callee, args |-> args]
Unary(operator, argument) ==
    [type |-> "Unary", operator |-> operator, argument |-> argument]
Binary(operator, left, right) ==
    [type |-> "Binary", operator |-> operator, left |-> left, right |-> right]
Conditional(test, consequent, alternate) ==
    [type |-> "Conditional", test |-> test, consequent |-> consequent,
     alternate |-> alternate]
Unsupported == [type |-> "Unsupported"]

Arithmetic == {"+", "-", "*", "/"}
Logical == {"&&", "||"}
Equality == {"==", "!="}
Order == {"<", ">", "<=", ">="}

IsString(node) == node.type = "Literal" /\ node.value.kind = "string"
IsCoefficient(node) ==
    node.object.type = "Identifier" /\ node.object.name = "coef"

\* The nodes below a node, in the order in which they are visited.
Children(node) ==
    CASE node.type = "Member" -> <<node.object, Identifier(node.property)>>
      [] node.type = "Call" -> <<node.callee>> \o node.args
      [] node.type = "Unary" -> <<node.argument>>
      [] node.type = "Binary" -> <<node.left, node.right>>
      [] node.type = "Conditional" ->
            <<node.test, node.consequent, node.alternate>>
      [] OTHER -> <<>>

\* What the grammar builds.
WellFormed(node) ==
    CASE node.type = "Literal" ->
            node.value.kind \in {"boolean", "string"} \/ IsNumber(node.value)
      [] node.type = "Call" -> node.args \in Seq(ToSet(node.args))
      [] node.type = "Unary" -> node.operator \in {"!", "-"}
      [] node.type = "Binary" ->
            node.operator \in Arithmetic \cup Order \cup Logical \cup Equality
      [] OTHER -> \/ node.type \in {"Identifier", "Member", "Conditional"}
                  \/ node = Unsupported

\* What is written can be read: a node of a tree is the tree of a text.
ASSUME TreesAssumption ==
    \A node \in Trees : WellFormed(node) /\ ToSet(Children(node)) \subseteq Trees

Nodes[node \in Trees] == {node} \cup UNION {Nodes[n] : n \in ToSet(Children(node))}

Size[node \in Trees] == FoldLeft(LAMBDA sum, n : sum + Size[n], 1, Children(node))

Depth[node \in Trees] == 1 + Max({0} \cup {Depth[n] : n \in ToSet(Children(node))})

\* A text is finite: a tree has a depth, and what is below it a smaller one.
ASSUME DepthAssumption ==
    \A node \in Trees : /\ Depth[node] \in Nat
                        /\ \A n \in ToSet(Children(node)) : Depth[n] < Depth[node]

\* "none", or the code of the error with which the parser refuses the tree.
ParseError(node) ==
    CASE Unsupported \in Nodes[node] -> "FORMULA_SYNTAX"
      [] /\ Unsupported \notin Nodes[node]
         /\ Depth[node] > MaxDepth \/ Size[node] > MaxNodes -> "FORMULA_TOO_COMPLEX"
      [] OTHER -> "none"

-----------------------------------------------------------------------------
(* The vocabulary.                                                         *)

RoomTypeCodes == {"LIVING_ROOM", "BEDROOM", "KITCHEN", "KITCHEN_LIVING",
                  "BATHROOM", "HALLWAY", "STORAGE"}
EnumValues == [roomType |-> RoomTypeCodes,
               unit |-> {"SQM", "LINEAR_M", "PIECE"},
               finishLevel |-> {"ROUGH", "PRE_FINISH", "LIVED_IN"},
               scope |-> {"FULL", "PARTIAL"}]

RoomNames == {"length", "width", "height", "floorArea", "perimeter",
              "wallArea", "heatedFloor", "roomType"}
ProductNames == {"price", "waste", "unit"}
ObjectNames == {"totalArea", "balconyArea", "balconyTiles", "finishLevel",
                "roomsCount", "bathroomsCount", "scope", "roomsFloorArea",
                "roomsWallArea", "roomsPuttyWallArea", "roomsPerimeter",
                "wetRoomsCount"}
SurfaceNames == {"surfaceArea", "puttyRequired", "puttyArea"}
AllNames == RoomNames \cup ProductNames \cup ObjectNames \cup SurfaceNames

Levels == {"OBJECT", "CATEGORY", "MATERIAL_TYPE", "SURFACE"}
Priced(level) == level \in {"CATEGORY", "MATERIAL_TYPE"}
NamesAt(level) ==
    CASE level = "OBJECT" -> ObjectNames
      [] level = "SURFACE" -> RoomNames \cup ObjectNames \cup SurfaceNames
      [] OTHER -> RoomNames \cup ProductNames \cup ObjectNames

\* A static type is "number", "boolean", "string", "unknown" or the name of an
\* enum variable; the checks compare kinds.
TypeOfName(name) ==
    CASE name \in DOMAIN EnumValues -> name
      [] name \in {"heatedFloor", "balconyTiles", "puttyRequired"} -> "boolean"
      [] OTHER -> "number"
KindOf(type) == IF type \in DOMAIN EnumValues THEN "enum" ELSE type

Functions == [min |-> [min |-> 1, max |-> MaxNodes],
              max |-> [min |-> 1, max |-> MaxNodes],
              round |-> [min |-> 1, max |-> 1],
              ceil |-> [min |-> 1, max |-> 1],
              floor |-> [min |-> 1, max |-> 1]]
FunctionOf(callee) ==
    IF callee.type = "Identifier" /\ callee.name \in DOMAIN Functions
    THEN callee.name ELSE "none"
ArgumentsFit(fn, args) ==
    Len(args) \in Functions[fn].min .. Functions[fn].max

-----------------------------------------------------------------------------
(* The static check.  Infer returns a type and what was found on the way:  *)
(* <<"error", code>> and <<"key", coefficient>>.                           *)

Found(type, notes) == [type |-> type, notes |-> notes]
Errors(found) == {note[2] : note \in {n \in found.notes : n[1] = "error"}}
Keys(found) == {note[2] : note \in {n \in found.notes : n[1] = "key"}}
Error(code) == {<<"error", code>>}

QuantityAllowed(rule) == rule.kind # "quantity" /\ Priced(rule.level)

InferIdentifier(name, rule) ==
    CASE name = "quantity" /\ QuantityAllowed(rule) -> Found("number", {})
      [] name = "quantity" /\ ~QuantityAllowed(rule) ->
            Found("unknown", Error("QUANTITY_NOT_ALLOWED"))
      [] name \in NamesAt(rule.level) -> Found(TypeOfName(name), {})
      [] name \in AllNames \ NamesAt(rule.level) ->
            Found("unknown", Error("VARIABLE_NOT_ALLOWED_AT_LEVEL"))
      [] OTHER -> Found("unknown", Error("UNKNOWN_VARIABLE"))

InferMember(node, rule) ==
    CASE ~IsCoefficient(node) -> Found("unknown", Error("UNKNOWN_VARIABLE"))
      [] IsCoefficient(node) /\ node.property \in rule.keys ->
            Found("number", {<<"key", node.property>>})
      [] OTHER -> Found("unknown", {<<"key", node.property>>}
                                     \cup Error("UNKNOWN_COEFFICIENT"))

\* Mutant: an operand of an unequal type is let through as unknown.
OperandUnchecked(found, expected) ==
    [sound |-> found.type = expected, notes |-> found.notes]

\* What an operand of the expected type adds, and whether it has that type.
Operand(found, expected) ==
    [sound |-> found.type = expected,
     notes |-> found.notes \cup IF found.type \in {expected, "unknown"} THEN {}
                                ELSE Error("TYPE_MISMATCH")]

InferCall(fn, arguments) ==
    LET operands == {Operand(a, "number") : a \in ToSet(arguments)}
        notes == UNION {o.notes : o \in operands}
    IN  CASE fn = "none" ->
                Found("unknown", Error("UNKNOWN_FUNCTION")
                                   \cup UNION {a.notes : a \in ToSet(arguments)})
          [] fn # "none" /\ ~ArgumentsFit(fn, arguments) ->
                Found("unknown", Error("ARGUMENT_COUNT") \cup notes)
          [] OTHER ->
                Found(IF \A o \in operands : o.sound THEN "number" ELSE "unknown",
                      notes)

\* A string literal compared with another node, whose type was inferred.
InferEnumLiteral(literal, other, found) ==
    Found("boolean", found.notes \cup
        CASE found.type = "unknown" -> {}
          [] found.type # "unknown" /\ (\/ other.type # "Identifier"
                                        \/ KindOf(found.type) # "enum") ->
                Error("TYPE_MISMATCH")
          [] OTHER -> IF literal.value.s \in EnumValues[found.type] THEN {}
                      ELSE Error("UNKNOWN_ENUM_VALUE"))

InferSameKind(a, b) ==
    Found("boolean", a.notes \cup b.notes \cup
        IF \/ "unknown" \in {a.type, b.type}
           \/ KindOf(a.type) = KindOf(b.type)
        THEN {} ELSE Error("TYPE_MISMATCH"))

InferOperands(operator, a, b) ==
    LET expected == IF operator \in Logical THEN "boolean" ELSE "number"
        left == Operand(a, expected)
        right == Operand(b, expected)
    IN  Found(CASE ~(left.sound /\ right.sound) -> "unknown"
                [] left.sound /\ right.sound /\ operator \in Arithmetic -> "number"
                [] OTHER -> "boolean",
              left.notes \cup right.notes)

InferConditional(test, consequent, alternate) ==
    LET checked == Operand(test, "boolean")
        notes == checked.notes \cup consequent.notes \cup alternate.notes
    IN  CASE consequent.type = "unknown" -> Found(alternate.type, notes)
          [] consequent.type # "unknown" /\ alternate.type = "unknown" ->
                Found(consequent.type, notes)
          [] OTHER ->
                IF KindOf(consequent.type) # KindOf(alternate.type)
                THEN Found("unknown", notes \cup Error("TYPE_MISMATCH"))
                ELSE Found(IF checked.sound THEN consequent.type ELSE "unknown",
                           notes)

\* What is inferred of a node, from what is inferred of the nodes below it.
InferNode(infer, node, rule) ==
    CASE node.type = "Literal" -> Found(node.value.kind, {})
      [] node.type = "Identifier" -> InferIdentifier(node.name, rule)
      [] node.type = "Member" -> InferMember(node, rule)
      [] node.type = "Call" ->
            InferCall(FunctionOf(node.callee),
                      [i \in DOMAIN node.args |-> infer[node.args[i]]])
      [] node.type = "Unary" ->
            LET expected == IF node.operator = "!" THEN "boolean" ELSE "number"
                operand == Operand(infer[node.argument], expected)
            IN  Found(IF operand.sound THEN expected ELSE "unknown", operand.notes)
      [] node.type = "Binary" ->
            CASE node.operator \in Equality /\ IsString(node.left) ->
                    InferEnumLiteral(node.left, node.right, infer[node.right])
              [] /\ node.operator \in Equality
                 /\ ~IsString(node.left) /\ IsString(node.right) ->
                    InferEnumLiteral(node.right, node.left, infer[node.left])
              [] /\ node.operator \in Equality
                 /\ ~IsString(node.left) /\ ~IsString(node.right) ->
                    InferSameKind(infer[node.left], infer[node.right])
              [] OTHER -> InferOperands(node.operator, infer[node.left],
                                        infer[node.right])
      [] node.type = "Conditional" ->
            InferConditional(infer[node.test], infer[node.consequent],
                             infer[node.alternate])

Infer(tree, rule) ==
    LET infer[node \in Trees] == InferNode(infer, node, rule) IN infer[tree]

\* rule: the level and kind of the formula and the coefficients that exist.
ValidateFormula(node, rule) ==
    IF ParseError(node) # "none"
    THEN [coefficientKeys |-> {}, errors |-> {ParseError(node)}]
    ELSE LET found == Infer(node, rule) IN
         [coefficientKeys |-> Keys(found),
          errors |-> Errors(found) \cup
                     IF found.type \in {"unknown", "number"} THEN {}
                     ELSE {"TYPE_MISMATCH"}]

-----------------------------------------------------------------------------
(* The evaluation: the first failure, from the left, is the result.        *)

Finite(n) == IF n \in -MaxNumber .. MaxNumber THEN Num(n) ELSE Failure("NOT_FINITE")
As(kind, v) == IF v.kind \in {kind, "failure"} THEN v ELSE Failure("TYPE_MISMATCH")

Times(a, b) == (a * b) \div Scale
Over(a, b) == IF b < 0 THEN ((-a) * Scale) \div (-b) ELSE (a * Scale) \div b
RoundTo(step, n) == ((n + step \div 2) \div step) * step

Lookup(name, variables) ==
    IF name \in DOMAIN variables THEN variables[name]
    ELSE Failure("UNKNOWN_VARIABLE")

ReadCoefficient(node, coefficients) ==
    CASE ~IsCoefficient(node) -> Failure("UNKNOWN_VARIABLE")
      [] IsCoefficient(node) /\ node.property \in DOMAIN coefficients ->
            Num(coefficients[node.property])
      [] OTHER -> Failure("UNKNOWN_COEFFICIENT")

\* The first failure of a sequence of values, which has one.
FirstFailure(values) ==
    values[CHOOSE i \in DOMAIN values :
              Failed(values[i]) /\ \A j \in 1 .. i - 1 : ~Failed(values[j])]

ApplyFunction(fn, values) ==
    LET numbers == {v.n : v \in ToSet(values)} IN
    CASE fn = "min" -> Finite(Min(numbers))
      [] fn = "max" -> Finite(Max(numbers))
      [] fn = "round" -> Finite(RoundTo(Scale, values[1].n))
      [] fn = "ceil" -> Finite(-(((-values[1].n) \div Scale) * Scale))
      [] fn = "floor" -> Finite((values[1].n \div Scale) * Scale)

Compute(operator, a, b) ==
    CASE operator = "<" -> Bool(a < b)
      [] operator = ">" -> Bool(a > b)
      [] operator = "<=" -> Bool(a <= b)
      [] operator = ">=" -> Bool(a >= b)
      [] operator = "+" -> Finite(a + b)
      [] operator = "-" -> Finite(a - b)
      [] operator = "*" -> Finite(Times(a, b))
      [] operator = "/" -> IF b = 0 THEN Failure("DIVISION_BY_ZERO")
                           ELSE Finite(Over(a, b))

Compare(operator, equal) == Bool(IF operator = "==" THEN equal ELSE ~equal)

CompareLiteral(operator, literal, other, variables) ==
    LET value == IF other.type = "Identifier" THEN Lookup(other.name, variables)
                 ELSE Failure("TYPE_MISMATCH")
    IN  IF Failed(As("string", value)) THEN As("string", value)
        ELSE Compare(operator, value.s = literal.value.s)

CompareValues(operator, a, b) ==
    CASE Failed(a) -> a
      [] ~Failed(a) /\ Failed(b) -> b
      [] OTHER -> IF a.kind # b.kind THEN Failure("TYPE_MISMATCH")
                  ELSE Compare(operator, a = b)

\* The value of a node, from the values of the nodes below it.
WalkNode(walk, node, scope) ==
    CASE node.type = "Literal" ->
            IF IsString(node) THEN Failure("TYPE_MISMATCH") ELSE node.value
      [] node.type = "Identifier" -> Lookup(node.name, scope.variables)
      [] node.type = "Member" -> ReadCoefficient(node, scope.coefficients)
      [] node.type = "Call" ->
            LET fn == FunctionOf(node.callee)
                values == [i \in DOMAIN node.args |->
                              As("number", walk[node.args[i]])]
            IN  CASE fn = "none" -> Failure("UNKNOWN_FUNCTION")
                  [] fn # "none" /\ ~ArgumentsFit(fn, node.args) ->
                        Failure("TYPE_MISMATCH")
                  [] OTHER -> IF \E v \in ToSet(values) : Failed(v)
                              THEN FirstFailure(values)
                              ELSE ApplyFunction(fn, values)
      [] node.type = "Unary" ->
            LET value == As(IF node.operator = "!" THEN "boolean" ELSE "number",
                            walk[node.argument])
            IN  CASE value.kind = "boolean" -> Bool(~value.b)
                  [] value.kind = "number" -> Finite(-value.n)
                  [] OTHER -> value
      [] node.type = "Binary" ->
            CASE node.operator \in Equality ->
                    (CASE IsString(node.left) ->
                            CompareLiteral(node.operator, node.left, node.right,
                                           scope.variables)
                       [] ~IsString(node.left) /\ IsString(node.right) ->
                            CompareLiteral(node.operator, node.right, node.left,
                                           scope.variables)
                       [] OTHER -> CompareValues(node.operator,
                                      walk[node.left], walk[node.right]))
              [] node.operator \in Logical ->
                    LET left == As("boolean", walk[node.left])
                    IN  CASE Failed(left) -> left
                          [] ~Failed(left) /\ left.b = (node.operator = "||") -> left
                          [] OTHER -> As("boolean", walk[node.right])
              [] OTHER ->
                    LET a == As("number", walk[node.left])
                        b == As("number", walk[node.right])
                    IN  CASE Failed(a) -> a
                          [] ~Failed(a) /\ Failed(b) -> b
                          [] OTHER -> Compute(node.operator, a.n, b.n)
      [] node.type = "Conditional" ->
            LET test == As("boolean", walk[node.test])
            IN  CASE Failed(test) -> test
                  [] ~Failed(test) /\ test.b -> walk[node.consequent]
                  [] OTHER -> walk[node.alternate]

Walk(tree, scope) ==
    LET walk[node \in Trees] == WalkNode(walk, node, scope) IN walk[tree]

NotNegative(value) ==
    CASE Failed(value) -> value
      [] ~Failed(value) /\ ~IsNumber(value) -> Failure("TYPE_MISMATCH")
      [] OTHER -> IF value.n < 0 THEN Failure("NEGATIVE") ELSE value

\* A rule's formula: a number that is not negative, or a failure.
RunNumericFormula(node, scope) ==
    IF ParseError(node) # "none" THEN Failure(ParseError(node))
    ELSE NotNegative(Walk(node, scope))

\* A string literal that is not compared with a name: accepted by the check
\* (two conditionals of strings are of one kind), refused by the evaluation.
StrayString[node \in Trees] ==
    \/ IsString(node)
    \/ \E n \in ToSet(Children(node)) :
          IF /\ node.type = "Binary" /\ node.operator \in Equality
             /\ \E m \in ToSet(Children(node)) : m.type = "Identifier"
          THEN ~IsString(n) /\ StrayString[n] ELSE StrayString[n]
=============================================================================
