--------------------------- MODULE FormulaProofs ---------------------------
(***************************************************************************)
(* The formula language for any trees, rules and scopes: what the static   *)
(* check and the evaluation compute along a tree is unique and exists, a   *)
(* check finds the same when only the coefficients it does not mention     *)
(* change, and it is sound: a formula that it accepts evaluates to a       *)
(* number, or fails for its numbers alone.                                 *)
(***************************************************************************)
EXTENDS Formula, FiniteSetTheorems, FunctionTheorems, SequenceTheorems,
        NaturalsInduction, WellFoundedInduction, TLAPS

-----------------------------------------------------------------------------
(* Natural numbers.                                                        *)

\* Induction, for a set.
LEMMA Reaches ==
    ASSUME NEW P, 0 \in P, \A n \in P \cap Nat : n + 1 \in P
    PROVE  Nat \subseteq P
<1> DEFINE Missed == Nat \ P
           Less == OpToRel(<, Nat)
<1> SUFFICES ASSUME Missed # {} PROVE FALSE
  OBVIOUS
<1>1. \A m, n \in Nat : m < n => <<m, n>> \in Less
  BY DEF OpToRel
<1>2. PICK n \in Missed : \A m \in Missed : ~ (<<m, n>> \in Less)
  <2>1. IsWellFoundedOn(Less, Nat)
    BY NatLessThanWellFounded
  <2>2. Missed \subseteq Nat
    OBVIOUS
  <2> HIDE DEF Missed, Less
  <2> QED
    BY <2>1, <2>2, WFMin
<1>3. n \in Nat /\ n # 0 /\ n - 1 \in Nat
  OBVIOUS
<1>4. n - 1 \in P
  <2>1. <<n - 1, n>> \in Less
    <3> HIDE DEF Less
    <3> QED
      BY <1>1, <1>3
  <2> HIDE DEF Less
  <2> QED
    BY <1>2, <1>3, <2>1
<1> QED
  BY <1>3, <1>4

\* A set of naturals that is not empty has a least element.
LEMMA LeastIs ==
    ASSUME NEW S, S \subseteq Nat, S # {}
    PROVE  \E x \in S : \A y \in S : x <= y
<1> SUFFICES ASSUME \A x \in S : \E y \in S : ~(x <= y) PROVE FALSE
  OBVIOUS
<1> DEFINE P == {n \in Nat : \A k \in S : n < k}
<1>1. 0 \in P
  <2>1. ASSUME NEW k \in S PROVE 0 < k
    <3>1. k \in Nat /\ \E y \in S : ~(k <= y)
      OBVIOUS
    <3> QED
      BY <3>1
  <2> QED
    BY <2>1
<1>2. ASSUME NEW n \in P \cap Nat PROVE n + 1 \in P
  <2>1. ASSUME NEW k \in S PROVE n + 1 < k
    <3>1. /\ k \in Nat /\ n \in Nat /\ n < k /\ \E y \in S : ~(k <= y)
          /\ \A y \in S : n < y /\ y \in Nat
      OBVIOUS
    <3> QED
      BY <3>1
  <2> QED
    BY <2>1
<1>3. Nat \subseteq P
  <2> HIDE DEF P
  <2> QED
    BY <1>1, <1>2, Reaches
<1>4. PICK k \in S : k \in Nat
  OBVIOUS
<1> QED
  BY <1>3, <1>4

-----------------------------------------------------------------------------
(* What is computed along a tree.                                          *)

LEMMA ChildrenAre ==
    ASSUME NEW node \in Trees
    PROVE  /\ ToSet(Children(node)) \subseteq Trees
           /\ \A n \in ToSet(Children(node)) : Depth[n] \in Nat /\ Depth[n] < Depth[node]
           /\ Depth[node] \in Nat
  BY TreesAssumption, DepthAssumption

\* Induction over the trees, for a set.
LEMMA TreeInduction ==
    ASSUME NEW P,
           \A node \in Trees : (\A n \in ToSet(Children(node)) : n \in P) => node \in P
    PROVE  Trees \subseteq P
<1> DEFINE N == {k \in Nat : \A node \in Trees : Depth[node] < k => node \in P}
<1>1. 0 \in N
  BY ChildrenAre
<1>2. ASSUME NEW k \in N \cap Nat PROVE k + 1 \in N
  <2> SUFFICES ASSUME NEW node \in Trees, Depth[node] < k + 1 PROVE node \in P
    OBVIOUS
  <2>1. ASSUME NEW n \in ToSet(Children(node)) PROVE n \in P
    <3>1. n \in Trees /\ Depth[n] \in Nat /\ Depth[n] < Depth[node] /\ Depth[node] \in Nat
      BY ChildrenAre
    <3> QED
      BY <3>1
  <2> QED
    BY <2>1
<1>3. Nat \subseteq N
  <2> HIDE DEF N
  <2> QED
    BY <1>1, <1>2, Reaches
<1> SUFFICES ASSUME NEW node \in Trees PROVE node \in P
  OBVIOUS
<1>4. Depth[node] \in Nat /\ Depth[node] + 1 \in N
  BY <1>3, ChildrenAre
<1> QED
  BY <1>4

\* The arguments of a call are among the nodes below it.
LEMMA ArgumentsAre ==
    ASSUME NEW node \in Trees, node.type = "Call"
    PROVE  /\ node.args \in Seq(ToSet(node.args))
           /\ \A i \in DOMAIN node.args : node.args[i] \in ToSet(Children(node))
<1>1. node.args \in Seq(ToSet(node.args))
  BY TreesAssumption DEF WellFormed
<1>2. Children(node) = <<node.callee>> \o node.args
  BY DEF Children
<1> SUFFICES ASSUME NEW i \in DOMAIN node.args
             PROVE  node.args[i] \in ToSet(Children(node))
  BY <1>1
<1> DEFINE args == node.args
           S == ToSet(args) \cup {node.callee}
           s == <<node.callee>>
<1>3. args \in Seq(S) /\ i \in 1 .. Len(args)
  BY <1>1
<1>4. s \in Seq(S) /\ Len(s) = 1
  OBVIOUS
<1>5. i + 1 \in DOMAIN (s \o args) /\ (s \o args)[i + 1] = args[i]
  <2> HIDE DEF args, S, s
  <2>1. i + 1 \in 1 .. Len(s) + Len(args) /\ i + 1 > Len(s) /\ i + 1 - Len(s) = i
    BY <1>3, <1>4
  <2>2. /\ s \o args \in Seq(S) /\ Len(s \o args) = Len(s) + Len(args)
        /\ \A k \in 1 .. Len(s) + Len(args) :
              (s \o args)[k] = IF k <= Len(s) THEN s[k] ELSE args[k - Len(s)]
    <3> HIDE DEF S
    <3> QED
      BY <1>3, <1>4, ConcatProperties, Zenon
  <2>3. DOMAIN (s \o args) = 1 .. Len(s) + Len(args)
    BY <2>2
  <2> QED
    <3> DEFINE w == s \o args
    <3>1. /\ DOMAIN w = 1 .. Len(s) + Len(args)
          /\ \A k \in 1 .. Len(s) + Len(args) :
                w[k] = IF k <= Len(s) THEN s[k] ELSE args[k - Len(s)]
      BY <2>2, <2>3, Zenon
    <3> HIDE DEF w
    <3>2. i + 1 \in DOMAIN w /\ w[i + 1] = args[i]
      BY <1>3, <1>4, <2>1, <3>1
    <3> QED
      BY <3>2 DEF w
<1> QED
  BY <1>2, <1>5 DEF ToSet

NodesNode(f, node) == {node} \cup UNION {f[n] : n \in ToSet(Children(node))}

StrayNode(f, node) ==
    \/ IsString(node)
    \/ \E n \in ToSet(Children(node)) :
          IF /\ node.type = "Binary" /\ node.operator \in Equality
             /\ \E m \in ToSet(Children(node)) : m.type = "Identifier"
          THEN ~IsString(n) /\ f[n] ELSE f[n]

\* What is computed of a node only depends on what was of the nodes below it.
LEMMA NodesLocal ==
    ASSUME NEW f, NEW g, NEW node \in Trees,
           \A n \in ToSet(Children(node)) : f[n] = g[n]
    PROVE  NodesNode(f, node) = NodesNode(g, node)
  BY DEF NodesNode

LEMMA StrayLocal ==
    ASSUME NEW f, NEW g, NEW node \in Trees,
           \A n \in ToSet(Children(node)) : f[n] = g[n]
    PROVE  StrayNode(f, node) = StrayNode(g, node)
  BY DEF StrayNode

\* The nodes below a node that are inferred and evaluated.
LEMMA OperandsAre ==
    ASSUME NEW node \in Trees
    PROVE  /\ node.type = "Unary" => node.argument \in ToSet(Children(node))
           /\ node.type = "Binary" => {node.left, node.right} = ToSet(Children(node))
           /\ node.type = "Conditional" =>
                 {node.test, node.consequent, node.alternate} = ToSet(Children(node))
<1>1. ASSUME node.type = "Unary" PROVE node.argument \in ToSet(Children(node))
  BY <1>1 DEF Children, ToSet
<1>2. ASSUME node.type = "Binary" PROVE {node.left, node.right} = ToSet(Children(node))
  <2>1. Children(node) = <<node.left, node.right>>
    BY <1>2 DEF Children
  <2> QED
    BY <2>1 DEF ToSet
<1>3. ASSUME node.type = "Conditional"
      PROVE  {node.test, node.consequent, node.alternate} = ToSet(Children(node))
  <2>1. Children(node) = <<node.test, node.consequent, node.alternate>>
    BY <1>3 DEF Children
  <2> QED
    BY <2>1 DEF ToSet
<1> QED
  BY <1>1, <1>2, <1>3

LEMMA InferLocal ==
    ASSUME NEW f, NEW g, NEW rule, NEW node \in Trees,
           \A n \in ToSet(Children(node)) : f[n] = g[n]
    PROVE  InferNode(f, node, rule) = InferNode(g, node, rule)
<1>1. CASE node.type \in {"Literal", "Identifier", "Member"}
  BY <1>1 DEF InferNode
<1>2. CASE node.type = "Call"
  <2>1. [i \in DOMAIN node.args |-> f[node.args[i]]]
           = [i \in DOMAIN node.args |-> g[node.args[i]]]
    BY <1>2, ArgumentsAre
  <2> QED
    BY <1>2, <2>1 DEF InferNode
<1>3. CASE node.type = "Unary"
  BY <1>3, OperandsAre DEF InferNode
<1>4. CASE node.type = "Binary"
  <2>1. f[node.left] = g[node.left] /\ f[node.right] = g[node.right]
    BY <1>4, OperandsAre
  <2> QED
    BY <1>4, <2>1 DEF InferNode
<1>5. CASE node.type = "Conditional"
  <2>1. /\ f[node.test] = g[node.test] /\ f[node.consequent] = g[node.consequent]
        /\ f[node.alternate] = g[node.alternate]
    BY <1>5, OperandsAre
  <2> QED
    BY <1>5, <2>1 DEF InferNode
<1>6. CASE node.type \notin {"Literal", "Identifier", "Member", "Call", "Unary",
                             "Binary", "Conditional"}
  BY <1>6 DEF InferNode
<1> QED
  BY <1>1, <1>2, <1>3, <1>4, <1>5, <1>6

LEMMA WalkLocal ==
    ASSUME NEW f, NEW g, NEW scope, NEW node \in Trees,
           \A n \in ToSet(Children(node)) : f[n] = g[n]
    PROVE  WalkNode(f, node, scope) = WalkNode(g, node, scope)
<1>1. CASE node.type \in {"Literal", "Identifier", "Member"}
  BY <1>1 DEF WalkNode
<1>2. CASE node.type = "Call"
  <2>1. [i \in DOMAIN node.args |-> As("number", f[node.args[i]])]
           = [i \in DOMAIN node.args |-> As("number", g[node.args[i]])]
    BY <1>2, ArgumentsAre
  <2> QED
    BY <1>2, <2>1 DEF WalkNode
<1>3. CASE node.type = "Unary"
  BY <1>3, OperandsAre DEF WalkNode
<1>4. CASE node.type = "Binary"
  <2>1. f[node.left] = g[node.left] /\ f[node.right] = g[node.right]
    BY <1>4, OperandsAre
  <2> QED
    BY <1>4, <2>1 DEF WalkNode
<1>5. CASE node.type = "Conditional"
  <2>1. /\ f[node.test] = g[node.test] /\ f[node.consequent] = g[node.consequent]
        /\ f[node.alternate] = g[node.alternate]
    BY <1>5, OperandsAre
  <2> QED
    BY <1>5, <2>1 DEF WalkNode
<1>6. CASE node.type \notin {"Literal", "Identifier", "Member", "Call", "Unary",
                             "Binary", "Conditional"}
  BY <1>6 DEF WalkNode
<1> QED
  BY <1>1, <1>2, <1>3, <1>4, <1>5, <1>6

\* All that is computed along the trees, at once.
Of(f, field) == [node \in Trees |-> f[node][field]]
AllOf(f, node, rule, scope) ==
    [nodes |-> NodesNode(Of(f, "nodes"), node), stray |-> StrayNode(Of(f, "stray"), node),
     found |-> InferNode(Of(f, "found"), node, rule),
     value |-> WalkNode(Of(f, "value"), node, scope)]

LEMMA AllLocal ==
    ASSUME NEW f, NEW g, NEW rule, NEW scope, NEW node \in Trees,
           \A n \in ToSet(Children(node)) : f[n] = g[n]
    PROVE  AllOf(f, node, rule, scope) = AllOf(g, node, rule, scope)
<1>1. ASSUME NEW field, NEW n \in ToSet(Children(node))
      PROVE  Of(f, field)[n] = Of(g, field)[n]
  BY ChildrenAre DEF Of
<1>2. NodesNode(Of(f, "nodes"), node) = NodesNode(Of(g, "nodes"), node)
  BY <1>1, NodesLocal
<1>3. StrayNode(Of(f, "stray"), node) = StrayNode(Of(g, "stray"), node)
  BY <1>1, StrayLocal
<1>4. InferNode(Of(f, "found"), node, rule) = InferNode(Of(g, "found"), node, rule)
  BY <1>1, InferLocal
<1>5. WalkNode(Of(f, "value"), node, scope) = WalkNode(Of(g, "value"), node, scope)
  BY <1>1, WalkLocal
<1> QED
  BY <1>2, <1>3, <1>4, <1>5 DEF AllOf

\* f is computed on the trees of a depth below k.
UpTo(f, k, rule, scope) ==
    \A node \in Trees : Depth[node] < k => f[node] = AllOf(f, node, rule, scope)

LEMMA UpToUnique ==
    ASSUME NEW rule, NEW scope, NEW k \in Nat, NEW f, NEW g,
           UpTo(f, k, rule, scope), UpTo(g, k, rule, scope),
           NEW node \in Trees, Depth[node] < k
    PROVE  f[node] = g[node]
<1> DEFINE P == {n \in Trees : Depth[n] < k => f[n] = g[n]}
<1>1. ASSUME NEW n \in Trees, \A m \in ToSet(Children(n)) : m \in P
      PROVE  n \in P
  <2> SUFFICES ASSUME Depth[n] < k PROVE f[n] = g[n]
    OBVIOUS
  <2>1. \A m \in ToSet(Children(n)) : f[m] = g[m]
    <3> SUFFICES ASSUME NEW m \in ToSet(Children(n)) PROVE f[m] = g[m]
      OBVIOUS
    <3>1. Depth[m] \in Nat /\ Depth[m] < Depth[n] /\ Depth[n] \in Nat
      BY ChildrenAre
    <3> QED
      BY <1>1, <3>1
  <2>2. AllOf(f, n, rule, scope) = AllOf(g, n, rule, scope)
    BY <2>1, AllLocal
  <2> QED
    BY <2>2 DEF UpTo
<1>2. Trees \subseteq P
  <2> HIDE DEF P
  <2> QED
    BY <1>1, TreeInduction
<1> QED
  BY <1>2

LEMMA UpToEvery ==
    ASSUME NEW rule, NEW scope, NEW k \in Nat
    PROVE  \E f : UpTo(f, k, rule, scope)
<1> DEFINE N == {n \in Nat : \E f : UpTo(f, n, rule, scope)}
<1>1. 0 \in N
  BY ChildrenAre DEF UpTo
<1>2. ASSUME NEW n \in N \cap Nat PROVE n + 1 \in N
  <2>1. PICK f : UpTo(f, n, rule, scope)
    OBVIOUS
  <2> DEFINE g == [node \in Trees |-> AllOf(f, node, rule, scope)]
  <2>2. ASSUME NEW node \in Trees, Depth[node] < n + 1
        PROVE  g[node] = AllOf(g, node, rule, scope)
    <3>1. ASSUME NEW m \in ToSet(Children(node)) PROVE f[m] = g[m]
      <4>1. m \in Trees /\ Depth[m] < n
        <5>1. m \in Trees /\ Depth[m] \in Nat /\ Depth[m] < Depth[node] /\ Depth[node] \in Nat
          BY ChildrenAre
        <5> QED
          BY <5>1, <2>2
      <4>2. f[m] = AllOf(f, m, rule, scope)
        BY <2>1, <4>1 DEF UpTo
      <4> QED
        BY <4>1, <4>2
    <3>2. g[node] = AllOf(f, node, rule, scope)
      OBVIOUS
    <3> HIDE DEF g
    <3>3. AllOf(f, node, rule, scope) = AllOf(g, node, rule, scope)
      BY <3>1, AllLocal
    <3> QED
      BY <3>2, <3>3
  <2> HIDE DEF g
  <2> QED
    BY <2>2 DEF UpTo
<1>3. Nat \subseteq N
  <2> HIDE DEF N
  <2> QED
    BY <1>1, <1>2, Reaches
<1> QED
  BY <1>3

\* The computation reaches every tree.
Along(f, rule, scope) == \A node \in Trees : f[node] = AllOf(f, node, rule, scope)

LEMMA AllComputed ==
    ASSUME NEW rule, NEW scope
    PROVE  \E f : Along(f, rule, scope)
<1> DEFINE of(k) == CHOOSE f : UpTo(f, k, rule, scope)
           h == [node \in Trees |-> of(Depth[node] + 1)[node]]
<1>1. ASSUME NEW k \in Nat PROVE UpTo(of(k), k, rule, scope)
  BY UpToEvery
<1>2. ASSUME NEW node \in Trees PROVE h[node] = AllOf(h, node, rule, scope)
  <2> DEFINE d == Depth[node]
             f == of(d + 1)
  <2>1. d \in Nat /\ d + 1 \in Nat /\ UpTo(f, d + 1, rule, scope)
    BY <1>1, ChildrenAre
  <2>2. h[node] = f[node]
    OBVIOUS
  <2>3. ASSUME NEW n \in ToSet(Children(node)) PROVE f[n] = h[n]
    <3> DEFINE e == Depth[n]
               g == of(e + 1)
    <3>1. n \in Trees /\ e \in Nat /\ e < d /\ e + 1 \in Nat
      BY ChildrenAre
    <3>2. UpTo(g, e + 1, rule, scope)
      BY <1>1, <3>1
    <3>3. h[n] = g[n]
      BY <3>1
    <3> HIDE DEF f, h, g
    <3>4. UpTo(f, e + 1, rule, scope)
      <4> SUFFICES ASSUME NEW m \in Trees, Depth[m] < e + 1
                   PROVE  f[m] = AllOf(f, m, rule, scope)
        BY DEF UpTo
      <4>1. Depth[m] < d + 1
        <5>1. Depth[m] \in Nat
          BY ChildrenAre
        <5> HIDE DEF d, e
        <5> QED
          BY <2>1, <3>1, <5>1
      <4> QED
        BY <2>1, <4>1 DEF UpTo
    <3>5. Depth[n] < e + 1
      BY <3>1
    <3>6. f[n] = g[n]
      <4> HIDE DEF d, e
      <4> QED
        BY <3>1, <3>2, <3>4, <3>5, UpToUnique
    <3> QED
      BY <3>3, <3>6
  <2> HIDE DEF f, h
  <2>4. AllOf(f, node, rule, scope) = AllOf(h, node, rule, scope)
    BY <2>3, AllLocal
  <2>5. f[node] = AllOf(f, node, rule, scope)
    <3>1. Depth[node] < d + 1
      BY <2>1
    <3> HIDE DEF d
    <3> QED
      BY <2>1, <3>1 DEF UpTo
  <2> QED
    BY <2>2, <2>4, <2>5
<1> HIDE DEF h
<1> QED
  BY <1>2 DEF Along

LEMMA EachAlong ==
    ASSUME NEW rule, NEW scope, NEW f, Along(f, rule, scope), NEW node \in Trees
    PROVE  /\ Of(f, "nodes")[node] = NodesNode(Of(f, "nodes"), node)
           /\ Of(f, "stray")[node] = StrayNode(Of(f, "stray"), node)
           /\ Of(f, "found")[node] = InferNode(Of(f, "found"), node, rule)
           /\ Of(f, "value")[node] = WalkNode(Of(f, "value"), node, scope)
<1>1. f[node] = AllOf(f, node, rule, scope)
  BY DEF Along
<1>2. /\ AllOf(f, node, rule, scope)["nodes"] = NodesNode(Of(f, "nodes"), node)
      /\ AllOf(f, node, rule, scope)["stray"] = StrayNode(Of(f, "stray"), node)
      /\ AllOf(f, node, rule, scope)["found"] = InferNode(Of(f, "found"), node, rule)
      /\ AllOf(f, node, rule, scope)["value"] = WalkNode(Of(f, "value"), node, scope)
  BY DEF AllOf
<1>3. \A field : Of(f, field)[node] = f[node][field]
  BY DEF Of
<1> QED
  BY <1>1, <1>2, <1>3

\* What each of them computes of a node.
InferOf(rule) == CHOOSE infer : infer = [node \in Trees |-> InferNode(infer, node, rule)]
WalkOf(scope) == CHOOSE walk : walk = [node \in Trees |-> WalkNode(walk, node, scope)]

LEMMA NodesAre ==
    ASSUME NEW node \in Trees
    PROVE  Nodes[node] = NodesNode(Nodes, node)
<1> DEFINE Is(f) == f = [n \in Trees |-> {n} \cup UNION {f[m] : m \in ToSet(Children(n))}]
<1>1. \E f : Is(f)
  <2>1. PICK f : Along(f, {}, {})
    BY AllComputed
  <2> DEFINE g == Of(f, "nodes")
  <2>2. ASSUME NEW n \in Trees PROVE g[n] = {n} \cup UNION {g[m] : m \in ToSet(Children(n))}
    <3>1. g[n] = NodesNode(g, n)
      BY <2>1, EachAlong
    <3> HIDE DEF g
    <3> QED
      BY <3>1 DEF NodesNode
  <2>3. g = [n \in Trees |-> g[n]]
    BY DEF Of
  <2> HIDE DEF g
  <2>4. Is(g)
    BY <2>2, <2>3
  <2> QED
    BY <2>4
<1>2. Is(CHOOSE f : Is(f))
  <2> HIDE DEF Is
  <2> QED
    BY <1>1
<1>3. Nodes = CHOOSE f : Is(f)
  BY DEF Nodes
<1>4. Is(Nodes)
  <2> HIDE DEF Is
  <2> QED
    BY <1>2, <1>3
<1> HIDE DEF Is
<1> QED
  BY <1>4 DEF Is, NodesNode

LEMMA StraysAre ==
    ASSUME NEW node \in Trees
    PROVE  StrayString[node] = StrayNode(StrayString, node)
<1> DEFINE Is(f) == f = [n \in Trees |-> StrayNode(f, n)]
<1>1. \E f : Is(f)
  <2>1. PICK f : Along(f, {}, {})
    BY AllComputed
  <2> DEFINE g == Of(f, "stray")
  <2>2. ASSUME NEW n \in Trees PROVE g[n] = StrayNode(g, n)
    BY <2>1, EachAlong
  <2>3. g = [n \in Trees |-> g[n]]
    BY DEF Of
  <2> HIDE DEF g
  <2>4. Is(g)
    BY <2>2, <2>3
  <2> QED
    BY <2>4
<1>2. Is(CHOOSE f : Is(f))
  <2> HIDE DEF Is
  <2> QED
    BY <1>1
<1>3. StrayString = CHOOSE f : Is(f)
  BY DEF StrayString, StrayNode
<1>4. Is(StrayString)
  BY <1>2, <1>3
<1> HIDE DEF Is
<1> QED
  BY <1>4 DEF Is

LEMMA InferredIs ==
    ASSUME NEW rule, NEW node \in Trees
    PROVE  /\ Infer(node, rule) = InferOf(rule)[node]
           /\ InferOf(rule)[node] = InferNode(InferOf(rule), node, rule)
<1> DEFINE Is(f) == f = [n \in Trees |-> InferNode(f, n, rule)]
<1>1. \E f : Is(f)
  <2>1. PICK f : Along(f, rule, {})
    BY AllComputed
  <2> DEFINE g == Of(f, "found")
  <2>2. ASSUME NEW n \in Trees PROVE g[n] = InferNode(g, n, rule)
    BY <2>1, EachAlong
  <2>3. g = [n \in Trees |-> g[n]]
    BY DEF Of
  <2> HIDE DEF g
  <2>4. Is(g)
    BY <2>2, <2>3
  <2> QED
    BY <2>4
<1>2. Is(CHOOSE f : Is(f))
  <2> HIDE DEF Is
  <2> QED
    BY <1>1
<1>3. InferOf(rule) = CHOOSE f : Is(f)
  BY DEF InferOf
<1>4. Is(InferOf(rule))
  BY <1>2, <1>3
<1>5. Infer(node, rule) = InferOf(rule)[node]
  BY DEF Infer, InferOf
<1> HIDE DEF Is
<1> QED
  BY <1>4, <1>5 DEF Is

LEMMA WalkedIs ==
    ASSUME NEW scope, NEW node \in Trees
    PROVE  /\ Walk(node, scope) = WalkOf(scope)[node]
           /\ WalkOf(scope)[node] = WalkNode(WalkOf(scope), node, scope)
<1> DEFINE Is(f) == f = [n \in Trees |-> WalkNode(f, n, scope)]
<1>1. \E f : Is(f)
  <2>1. PICK f : Along(f, {}, scope)
    BY AllComputed
  <2> DEFINE g == Of(f, "value")
  <2>2. ASSUME NEW n \in Trees PROVE g[n] = WalkNode(g, n, scope)
    BY <2>1, EachAlong
  <2>3. g = [n \in Trees |-> g[n]]
    BY DEF Of
  <2> HIDE DEF g
  <2>4. Is(g)
    BY <2>2, <2>3
  <2> QED
    BY <2>4
<1>2. Is(CHOOSE f : Is(f))
  <2> HIDE DEF Is
  <2> QED
    BY <1>1
<1>3. WalkOf(scope) = CHOOSE f : Is(f)
  BY DEF WalkOf
<1>4. Is(WalkOf(scope))
  BY <1>2, <1>3
<1>5. Walk(node, scope) = WalkOf(scope)[node]
  BY DEF Walk, WalkOf
<1> HIDE DEF Is
<1> QED
  BY <1>4, <1>5 DEF Is

-----------------------------------------------------------------------------
(* What a clean check says of the operands.                                *)

\* Notes without an error, of which the coefficients exist.
Fits(notes, keys) ==
    \A note \in notes : note[1] # "error" /\ (note[1] = "key" => note[2] \in keys)

LEMMA FitsWhole ==
    ASSUME NEW found, NEW keys, Errors(found) = {}, Keys(found) \subseteq keys
    PROVE  Fits(found.notes, keys)
<1> SUFFICES ASSUME NEW note \in found.notes
             PROVE  note[1] # "error" /\ (note[1] = "key" => note[2] \in keys)
  BY DEF Fits
<1>1. note[1] # "error"
  BY DEF Errors
<1>2. ASSUME note[1] = "key" PROVE note[2] \in keys
  BY <1>2 DEF Keys
<1> QED
  BY <1>1, <1>2

LEMMA FitsNoError ==
    ASSUME NEW keys, NEW code PROVE ~ Fits(Error(code), keys)
  BY DEF Fits, Error

LEMMA FitsPart ==
    ASSUME NEW keys, NEW some, NEW all, some \subseteq all, Fits(all, keys)
    PROVE  Fits(some, keys)
  BY DEF Fits

LEMMA OperandFits ==
    ASSUME NEW keys, NEW found, NEW expected, Fits(Operand(found, expected).notes, keys)
    PROVE  /\ Fits(found.notes, keys)
           /\ found.type \in {expected, "unknown"}
  BY FitsNoError, FitsPart DEF Operand

LEMMA CallFits ==
    ASSUME NEW node \in Trees, node.type = "Call", NEW infer, NEW rule, NEW keys,
           Fits(InferNode(infer, node, rule).notes, keys)
    PROVE  /\ FunctionOf(node.callee) # "none"
           /\ ArgumentsFit(FunctionOf(node.callee), node.args)
           /\ \A i \in DOMAIN node.args :
                 /\ Fits(infer[node.args[i]].notes, keys)
                 /\ infer[node.args[i]].type \in {"number", "unknown"}
           /\ (\A i \in DOMAIN node.args : infer[node.args[i]].type = "number")
                 => InferNode(infer, node, rule).type = "number"
<1> DEFINE arguments == [i \in DOMAIN node.args |-> infer[node.args[i]]]
           fn == FunctionOf(node.callee)
           operands == {Operand(a, "number") : a \in ToSet(arguments)}
           notes == UNION {o.notes : o \in operands}
           found == InferCall(fn, arguments)
<1>1. InferNode(infer, node, rule) = found
  BY DEF InferNode
<1>2. Fits(found.notes, keys)
  BY <1>1
<1>3. Len(arguments) = Len(node.args)
  <2>1. DOMAIN node.args = 1 .. Len(node.args) /\ Len(node.args) \in Nat
    BY ArgumentsAre
  <2> QED
    BY <2>1
<1>4. fn # "none"
  <2> SUFFICES ASSUME fn = "none" PROVE FALSE
    OBVIOUS
  <2> HIDE DEF arguments, fn, operands, notes
  <2>1. found.notes = Error("UNKNOWN_FUNCTION") \cup UNION {a.notes : a \in ToSet(arguments)}
    BY DEF InferCall, Found
  <2> QED
    BY <1>2, <2>1, FitsPart, FitsNoError
<1>5. ArgumentsFit(fn, arguments)
  <2> SUFFICES ASSUME ~ArgumentsFit(fn, arguments) PROVE FALSE
    OBVIOUS
  <2>1. found.notes = Error("ARGUMENT_COUNT") \cup notes
    <3> HIDE DEF arguments, fn
    <3> QED
      BY <1>4 DEF InferCall, Found
  <2> HIDE DEF arguments, fn, operands, notes, found
  <2> QED
    BY <1>2, <2>1, FitsPart, FitsNoError
<1>6. found = Found(IF \A o \in operands : o.sound THEN "number" ELSE "unknown", notes)
  <2> HIDE DEF arguments, fn
  <2> QED
    BY <1>4, <1>5 DEF InferCall
<1>7. \A i \in DOMAIN node.args : Operand(infer[node.args[i]], "number") \in operands
  BY DEF ToSet
<1>8. ASSUME NEW i \in DOMAIN node.args
      PROVE  /\ Fits(infer[node.args[i]].notes, keys)
             /\ infer[node.args[i]].type \in {"number", "unknown"}
  <2>1. found.notes = notes
    <3> HIDE DEF found, notes, operands
    <3> QED
      BY <1>6 DEF Found
  <2>2. Operand(infer[node.args[i]], "number").notes \subseteq notes
    <3> HIDE DEF operands
    <3> QED
      BY <1>7
  <2>3. Fits(Operand(infer[node.args[i]], "number").notes, keys)
    <3> HIDE DEF found, notes
    <3> QED
      BY <1>2, <2>1, <2>2, FitsPart
  <2> QED
    BY <2>3, OperandFits
<1>9. ASSUME \A i \in DOMAIN node.args : infer[node.args[i]].type = "number"
      PROVE  found.type = "number"
  <2>1. \A o \in operands : o.sound
    <3> SUFFICES ASSUME NEW o \in operands PROVE o.sound
      OBVIOUS
    <3>1. PICK i \in DOMAIN node.args : o = Operand(infer[node.args[i]], "number")
      BY DEF ToSet
    <3> QED
      BY <1>9, <3>1 DEF Operand
  <2> HIDE DEF found, operands, notes
  <2> QED
    BY <1>6, <2>1 DEF Found
<1>10. ArgumentsFit(fn, node.args)
  <2> HIDE DEF arguments, fn
  <2> QED
    BY <1>3, <1>5 DEF ArgumentsFit
<1> HIDE DEF found
<1> QED
  BY <1>1, <1>4, <1>8, <1>9, <1>10

LEMMA UnaryFits ==
    ASSUME NEW node, node.type = "Unary", NEW infer, NEW rule, NEW keys,
           Fits(InferNode(infer, node, rule).notes, keys)
    PROVE  LET expected == IF node.operator = "!" THEN "boolean" ELSE "number"
           IN  /\ Fits(infer[node.argument].notes, keys)
               /\ infer[node.argument].type \in {expected, "unknown"}
               /\ infer[node.argument].type = expected
                     => InferNode(infer, node, rule).type = expected
<1> DEFINE expected == IF node.operator = "!" THEN "boolean" ELSE "number"
           operand == Operand(infer[node.argument], expected)
<1>1. InferNode(infer, node, rule)
         = Found(IF operand.sound THEN expected ELSE "unknown", operand.notes)
  BY DEF InferNode
<1>2. ASSUME infer[node.argument].type = expected PROVE operand.sound
  <2> HIDE DEF expected
  <2> QED
    BY <1>2 DEF Operand
<1>3. Fits(operand.notes, keys)
  <2> HIDE DEF operand, expected
  <2> QED
    BY <1>1 DEF Found
<1>4. Fits(infer[node.argument].notes, keys) /\ infer[node.argument].type \in {expected, "unknown"}
  <2> HIDE DEF expected
  <2> QED
    BY <1>3, OperandFits
<1>5. ASSUME infer[node.argument].type = expected
      PROVE  InferNode(infer, node, rule).type = expected
  <2>1. operand.sound
    BY <1>2, <1>5
  <2> HIDE DEF operand, expected
  <2> QED
    BY <1>1, <2>1 DEF Found
<1> QED
  BY <1>4, <1>5

\* A string literal is compared with a name of an enumeration.
LEMMA LiteralFits ==
    ASSUME NEW literal, NEW other, NEW found, NEW keys,
           Fits(InferEnumLiteral(literal, other, found).notes, keys)
    PROVE  /\ Fits(found.notes, keys)
           /\ found.type = "unknown" \/ (other.type = "Identifier" /\ KindOf(found.type) = "enum")
           /\ InferEnumLiteral(literal, other, found).type = "boolean"
<1> DEFINE more == CASE found.type = "unknown" -> {}
                     [] found.type # "unknown" /\ (\/ other.type # "Identifier"
                                                   \/ KindOf(found.type) # "enum") ->
                           Error("TYPE_MISMATCH")
                     [] OTHER -> IF literal.value.s \in EnumValues[found.type] THEN {}
                                 ELSE Error("UNKNOWN_ENUM_VALUE")
<1>1. InferEnumLiteral(literal, other, found) = Found("boolean", found.notes \cup more)
  BY DEF InferEnumLiteral
<1>2. Fits(found.notes, keys) /\ Fits(more, keys)
  <2> HIDE DEF more
  <2> QED
    BY <1>1, FitsPart DEF Found
<1>3. found.type = "unknown" \/ (other.type = "Identifier" /\ KindOf(found.type) = "enum")
  BY <1>2, FitsNoError
<1>4. InferEnumLiteral(literal, other, found).type = "boolean"
  <2> HIDE DEF more
  <2> QED
    BY <1>1 DEF Found
<1> QED
  BY <1>2, <1>3, <1>4

LEMMA SameKindFits ==
    ASSUME NEW a, NEW b, NEW keys, Fits(InferSameKind(a, b).notes, keys)
    PROVE  /\ Fits(a.notes, keys) /\ Fits(b.notes, keys)
           /\ "unknown" \in {a.type, b.type} \/ KindOf(a.type) = KindOf(b.type)
           /\ InferSameKind(a, b).type = "boolean"
<1> DEFINE more == IF \/ "unknown" \in {a.type, b.type}
                      \/ KindOf(a.type) = KindOf(b.type)
                   THEN {} ELSE Error("TYPE_MISMATCH")
<1>1. InferSameKind(a, b) = Found("boolean", a.notes \cup b.notes \cup more)
  BY DEF InferSameKind
<1>2. Fits(a.notes, keys) /\ Fits(b.notes, keys) /\ Fits(more, keys)
  <2> HIDE DEF more
  <2> QED
    BY <1>1, FitsPart DEF Found
<1>3. "unknown" \in {a.type, b.type} \/ KindOf(a.type) = KindOf(b.type)
  BY <1>2, FitsNoError
<1>4. InferSameKind(a, b).type = "boolean"
  <2> HIDE DEF more
  <2> QED
    BY <1>1 DEF Found
<1> QED
  BY <1>2, <1>3, <1>4

LEMMA OperandsFit ==
    ASSUME NEW operator, NEW a, NEW b, NEW keys, Fits(InferOperands(operator, a, b).notes, keys)
    PROVE  LET expected == IF operator \in Logical THEN "boolean" ELSE "number" IN
           /\ Fits(a.notes, keys) /\ Fits(b.notes, keys)
           /\ {a.type, b.type} \subseteq {expected, "unknown"}
           /\ a.type = expected /\ b.type = expected
              => InferOperands(operator, a, b).type
                    = IF operator \in Arithmetic THEN "number" ELSE "boolean"
<1> DEFINE expected == IF operator \in Logical THEN "boolean" ELSE "number"
           left == Operand(a, expected)
           right == Operand(b, expected)
           type == CASE ~(left.sound /\ right.sound) -> "unknown"
                     [] left.sound /\ right.sound /\ operator \in Arithmetic -> "number"
                     [] OTHER -> "boolean"
<1>1. InferOperands(operator, a, b) = Found(type, left.notes \cup right.notes)
  BY DEF InferOperands
<1>2. Fits(left.notes, keys) /\ Fits(right.notes, keys)
  <2> HIDE DEF left, right, type
  <2> QED
    BY <1>1, FitsPart DEF Found
<1>3. /\ Fits(a.notes, keys) /\ Fits(b.notes, keys)
      /\ {a.type, b.type} \subseteq {expected, "unknown"}
  <2> HIDE DEF expected
  <2> QED
    BY <1>2, OperandFits
<1>4. left.sound = (a.type = expected) /\ right.sound = (b.type = expected)
  BY DEF Operand
<1>5. ASSUME a.type = expected, b.type = expected
      PROVE  InferOperands(operator, a, b).type
                = IF operator \in Arithmetic THEN "number" ELSE "boolean"
  <2>1. type = IF operator \in Arithmetic THEN "number" ELSE "boolean"
    <3> HIDE DEF left, right, expected
    <3> QED
      BY <1>4, <1>5
  <2> HIDE DEF type, left, right
  <2> QED
    BY <1>1, <2>1 DEF Found
<1> HIDE DEF expected
<1> QED
  BY <1>3, <1>5 DEF expected

LEMMA ConditionalFits ==
    ASSUME NEW test, NEW a, NEW b, NEW keys, Fits(InferConditional(test, a, b).notes, keys)
    PROVE  /\ Fits(test.notes, keys) /\ Fits(a.notes, keys) /\ Fits(b.notes, keys)
           /\ test.type \in {"boolean", "unknown"}
           /\ "unknown" \notin {test.type, a.type, b.type}
              => KindOf(a.type) = KindOf(b.type) /\ InferConditional(test, a, b).type = a.type
<1> DEFINE checked == Operand(test, "boolean")
           notes == checked.notes \cup a.notes \cup b.notes
           found == InferConditional(test, a, b)
<1>1. notes \subseteq found.notes
  <2> HIDE DEF notes, checked
  <2> QED
    BY DEF InferConditional, Found, notes, checked
<1>2. Fits(checked.notes, keys) /\ Fits(a.notes, keys) /\ Fits(b.notes, keys)
  <2>1. Fits(notes, keys)
    <3> HIDE DEF notes
    <3> QED
      BY <1>1, FitsPart
  <2> HIDE DEF checked
  <2> QED
    BY <2>1, FitsPart
<1>3. Fits(test.notes, keys) /\ test.type \in {"boolean", "unknown"}
  BY <1>2, OperandFits
<1>4. ASSUME "unknown" \notin {test.type, a.type, b.type}
      PROVE  KindOf(a.type) = KindOf(b.type) /\ found.type = a.type
  <2>1. checked.sound = (test.type = "boolean")
    BY DEF Operand
  <2>2. checked.sound
    BY <1>3, <1>4, <2>1
  <2>3. found = IF KindOf(a.type) # KindOf(b.type)
                THEN Found("unknown", notes \cup Error("TYPE_MISMATCH"))
                ELSE Found(IF checked.sound THEN a.type ELSE "unknown", notes)
    BY <1>4 DEF InferConditional
  <2> HIDE DEF checked, notes, found
  <2>4. KindOf(a.type) = KindOf(b.type)
    <3> SUFFICES ASSUME KindOf(a.type) # KindOf(b.type) PROVE FALSE
      OBVIOUS
    <3>1. Error("TYPE_MISMATCH") \subseteq found.notes
      BY <2>3 DEF Found
    <3>2. Fits(found.notes, keys)
      BY DEF found
    <3> QED
      BY <3>1, <3>2, FitsPart, FitsNoError
  <2> QED
    BY <2>2, <2>3, <2>4 DEF Found
<1> QED
  BY <1>2, <1>3, <1>4

-----------------------------------------------------------------------------
(* What was accepted stays acceptable while its coefficients exist.        *)

LEMMA MemberFits ==
    ASSUME NEW node, NEW rule, NEW keys, Fits(InferMember(node, rule).notes, keys)
    PROVE  /\ IsCoefficient(node) /\ node.property \in rule.keys /\ node.property \in keys
           /\ InferMember(node, rule) = Found("number", {<<"key", node.property>>})
<1> DEFINE found == InferMember(node, rule)
           named == {<<"key", node.property>>}
<1>1. IsCoefficient(node)
  <2> SUFFICES ASSUME ~IsCoefficient(node) PROVE FALSE
    OBVIOUS
  <2>1. found = Found("unknown", Error("UNKNOWN_VARIABLE"))
    BY DEF InferMember
  <2>2. Fits(found.notes, keys)
    OBVIOUS
  <2> HIDE DEF found
  <2> QED
    BY <2>1, <2>2, FitsNoError DEF Found
<1>2. node.property \in rule.keys
  <2> SUFFICES ASSUME node.property \notin rule.keys PROVE FALSE
    OBVIOUS
  <2>1. found.notes = named \cup Error("UNKNOWN_COEFFICIENT")
    BY <1>1 DEF InferMember, Found
  <2> HIDE DEF found, named
  <2>2. Fits(found.notes, keys)
    BY DEF found
  <2> QED
    BY <2>1, <2>2, FitsPart, FitsNoError
<1>3. found = Found("number", named)
  BY <1>1, <1>2 DEF InferMember
<1>4. node.property \in keys
  <2>1. Fits(found.notes, keys)
    OBVIOUS
  <2> HIDE DEF found
  <2>2. <<"key", node.property>> \in found.notes
    BY <1>3 DEF Found
  <2> QED
    BY <2>1, <2>2 DEF Fits
<1> QED
  BY <1>1, <1>2, <1>3, <1>4

LEMMA SameInferred ==
    ASSUME NEW r, NEW s, r.level = s.level, r.kind = s.kind, NEW tree \in Trees,
           Fits(InferOf(r)[tree].notes, s.keys)
    PROVE  InferOf(s)[tree] = InferOf(r)[tree]
<1> DEFINE f == InferOf(r)
           g == InferOf(s)
           P == {node \in Trees : Fits(f[node].notes, s.keys) => g[node] = f[node]}
<1>1. ASSUME NEW node \in Trees, \A n \in ToSet(Children(node)) : n \in P,
             Fits(f[node].notes, s.keys)
      PROVE  g[node] = f[node]
  <2>1. f[node] = InferNode(f, node, r) /\ g[node] = InferNode(g, node, s)
    BY InferredIs
  <2>2. \A n \in ToSet(Children(node)) : Fits(f[n].notes, s.keys) => g[n] = f[n]
    BY <1>1
  <2>3. Fits(InferNode(f, node, r).notes, s.keys)
    BY <1>1, <2>1
  <2> HIDE DEF f, g, P
  <2> SUFFICES InferNode(g, node, s) = InferNode(f, node, r)
    BY <2>1
  <2>4. CASE node.type = "Literal"
    BY <2>4 DEF InferNode
  <2>5. CASE node.type = "Identifier"
    <3>1. QuantityAllowed(r) = QuantityAllowed(s)
      BY DEF QuantityAllowed
    <3>2. InferIdentifier(node.name, r) = InferIdentifier(node.name, s)
      BY <3>1 DEF InferIdentifier
    <3> QED
      BY <2>5, <3>2 DEF InferNode
  <2>6. CASE node.type = "Member"
    <3>1. /\ InferNode(f, node, r) = InferMember(node, r)
          /\ InferNode(g, node, s) = InferMember(node, s)
      BY <2>6 DEF InferNode
    <3>2. /\ IsCoefficient(node) /\ node.property \in s.keys
          /\ InferMember(node, r) = Found("number", {<<"key", node.property>>})
      BY <2>3, <3>1, MemberFits
    <3>3. InferMember(node, s) = Found("number", {<<"key", node.property>>})
      BY <3>2 DEF InferMember
    <3> QED
      BY <3>1, <3>2, <3>3
  <2>7. CASE node.type = "Call"
    <3>1. \A i \in DOMAIN node.args : Fits(f[node.args[i]].notes, s.keys)
      BY <2>3, <2>7, CallFits
    <3>2. \A i \in DOMAIN node.args : f[node.args[i]] = g[node.args[i]]
      BY <2>2, <2>7, <3>1, ArgumentsAre
    <3>3. [i \in DOMAIN node.args |-> f[node.args[i]]]
              = [i \in DOMAIN node.args |-> g[node.args[i]]]
      BY <3>2
    <3> QED
      BY <2>7, <3>3 DEF InferNode
  <2>8. CASE node.type = "Unary"
    <3>1. Fits(f[node.argument].notes, s.keys)
      BY <2>3, <2>8, UnaryFits
    <3>2. f[node.argument] = g[node.argument]
      BY <2>2, <2>8, <3>1, OperandsAre
    <3> QED
      BY <2>8, <3>2 DEF InferNode
  <2>9. CASE node.type = "Binary"
    <3>1. node.left \in ToSet(Children(node)) /\ node.right \in ToSet(Children(node))
      BY <2>9, OperandsAre
    <3>2. CASE node.operator \in Equality /\ IsString(node.left)
      <4>1. \A h, q : InferNode(h, node, q) = InferEnumLiteral(node.left, node.right, h[node.right])
        BY <2>9, <3>2 DEF InferNode
      <4>2. Fits(InferEnumLiteral(node.left, node.right, f[node.right]).notes, s.keys)
        BY <2>3, <4>1
      <4>3. Fits(f[node.right].notes, s.keys)
        BY <4>2, LiteralFits
      <4> QED
        BY <2>2, <3>1, <4>1, <4>3
    <3>3. CASE node.operator \in Equality /\ ~IsString(node.left) /\ IsString(node.right)
      <4>1. \A h, q : InferNode(h, node, q) = InferEnumLiteral(node.right, node.left, h[node.left])
        BY <2>9, <3>3 DEF InferNode
      <4>2. Fits(InferEnumLiteral(node.right, node.left, f[node.left]).notes, s.keys)
        BY <2>3, <4>1
      <4>3. Fits(f[node.left].notes, s.keys)
        BY <4>2, LiteralFits
      <4> QED
        BY <2>2, <3>1, <4>1, <4>3
    <3>4. CASE node.operator \in Equality /\ ~IsString(node.left) /\ ~IsString(node.right)
      <4>1. \A h, q : InferNode(h, node, q) = InferSameKind(h[node.left], h[node.right])
        BY <2>9, <3>4 DEF InferNode
      <4>2. Fits(InferSameKind(f[node.left], f[node.right]).notes, s.keys)
        BY <2>3, <4>1
      <4>3. Fits(f[node.left].notes, s.keys) /\ Fits(f[node.right].notes, s.keys)
        BY <4>2, SameKindFits
      <4> QED
        BY <2>2, <3>1, <4>1, <4>3
    <3>5. CASE node.operator \notin Equality
      <4>1. \A h, q : InferNode(h, node, q)
                         = InferOperands(node.operator, h[node.left], h[node.right])
        BY <2>9, <3>5 DEF InferNode
      <4>2. Fits(InferOperands(node.operator, f[node.left], f[node.right]).notes, s.keys)
        BY <2>3, <4>1
      <4>3. Fits(f[node.left].notes, s.keys) /\ Fits(f[node.right].notes, s.keys)
        BY <4>2, OperandsFit
      <4> QED
        BY <2>2, <3>1, <4>1, <4>3
    <3> QED
      BY <3>2, <3>3, <3>4, <3>5
  <2>10. CASE node.type = "Conditional"
    <3>1. \A h, q : InferNode(h, node, q)
                       = InferConditional(h[node.test], h[node.consequent], h[node.alternate])
      BY <2>10 DEF InferNode
    <3>2. /\ Fits(f[node.test].notes, s.keys) /\ Fits(f[node.consequent].notes, s.keys)
          /\ Fits(f[node.alternate].notes, s.keys)
      <4>1. Fits(InferConditional(f[node.test], f[node.consequent], f[node.alternate]).notes,
                 s.keys)
        BY <2>3, <3>1
      <4> QED
        BY <4>1, ConditionalFits
    <3>3. {node.test, node.consequent, node.alternate} \subseteq ToSet(Children(node))
      BY <2>10, OperandsAre
    <3> QED
      BY <2>2, <3>1, <3>2, <3>3
  <2>11. CASE node.type \notin {"Literal", "Identifier", "Member", "Call", "Unary",
                               "Binary", "Conditional"}
    BY <2>11 DEF InferNode
  <2> QED
    BY <2>4, <2>5, <2>6, <2>7, <2>8, <2>9, <2>10, <2>11
<1>2. Trees \subseteq P
  <2>1. \A node \in Trees : (\A n \in ToSet(Children(node)) : n \in P) => node \in P
    BY <1>1
  <2> HIDE DEF P
  <2> QED
    BY <2>1, TreeInduction
<1> QED
  BY <1>2

-----------------------------------------------------------------------------
(* The check is sound: what it accepts only fails for its numbers.         *)

EnumTypes == {"roomType", "unit", "finishLevel", "scope"}
Types == {"number", "boolean"} \cup EnumTypes
NumberFailures == {"NOT_FINITE", "DIVISION_BY_ZERO"}

\* A value of the type, or a failure of a number.
Outcome(type, value) ==
    \/ value.kind = "failure" /\ value.code \in NumberFailures
    \/ type = "number" /\ IsNumber(value)
    \/ type = "boolean" /\ value.kind = "boolean"
    \/ type \in EnumTypes /\ value.kind = "string"

\* What a formula is evaluated with has what its check counted on.
ScopeFits(scope, rule) ==
    /\ rule.keys \subseteq DOMAIN scope.coefficients
    /\ \A key \in DOMAIN scope.coefficients : scope.coefficients[key] \in Int
    /\ \A name \in NamesAt(rule.level) :
          name \in DOMAIN scope.variables /\ Outcome(TypeOfName(name), scope.variables[name])
    /\ QuantityAllowed(rule) => /\ "quantity" \in DOMAIN scope.variables
                                /\ Outcome("number", scope.variables["quantity"])

\* A node that the check accepts.
Evaluates(node, rule, scope, keys) ==
    (/\ Fits(InferOf(rule)[node].notes, keys)
     /\ Unsupported \notin Nodes[node] /\ ~StrayString[node])
    => /\ InferOf(rule)[node].type \in Types
       /\ Outcome(InferOf(rule)[node].type, WalkOf(scope)[node])

LEMMA EnumTypesAre == DOMAIN EnumValues = EnumTypes
  BY DEF EnumValues, EnumTypes

LEMMA KindsOfTypes ==
    /\ \A type \in EnumTypes : KindOf(type) = "enum"
    /\ \A type \in Types \ EnumTypes : KindOf(type) = type
    /\ \A type \in Types : type # "unknown" /\ (KindOf(type) = "enum" => type \in EnumTypes)
  BY EnumTypesAre DEF KindOf, Types, EnumTypes

LEMMA NameTypes == \A name : TypeOfName(name) \in Types
  BY EnumTypesAre DEF TypeOfName, Types

LEMMA FiniteOutcome == \A n : Outcome("number", Finite(n))
<1> SUFFICES ASSUME NEW n PROVE Outcome("number", Finite(n))
  OBVIOUS
<1>1. CASE n \in -MaxNumber .. MaxNumber
  <2>1. n \in Int
    BY <1>1, LimitsAssumption
  <2> QED
    BY <1>1, <2>1 DEF Finite, Outcome, Num, IsNumber
<1>2. CASE n \notin -MaxNumber .. MaxNumber
  BY <1>2 DEF Finite, Outcome, Failure, NumberFailures
<1> QED
  BY <1>1, <1>2

\* An outcome is of its type, or the failure itself.
LEMMA AsOutcome ==
    ASSUME NEW type \in {"number", "boolean"}, NEW v, Outcome(type, v)
    PROVE  /\ As(type, v) = v
           /\ Failed(v) \/ v.kind = type
           /\ Failed(v) => v.code \in NumberFailures
           /\ type = "number" /\ ~Failed(v) => IsNumber(v)
  BY DEF As, Outcome, IsNumber, EnumTypes, Failed

LEMMA FailureOutcome ==
    ASSUME NEW v, Failed(v), v.code \in NumberFailures PROVE \A type : Outcome(type, v)
  BY DEF Outcome, Failed

LEMMA BoolOutcome == \A b : Outcome("boolean", Bool(b)) /\ ~Failed(Bool(b))
  BY DEF Outcome, Bool, Failed

LEMMA ChildrenAreSound ==
    ASSUME NEW node \in Trees, NEW n \in ToSet(Children(node)), Unsupported \notin Nodes[node]
    PROVE  Unsupported \notin Nodes[n]
  BY NodesAre DEF NodesNode

LEMMA NotStrayBelow ==
    ASSUME NEW node \in Trees, ~StrayString[node]
    PROVE  /\ ~IsString(node)
           /\ ~(node.type = "Binary" /\ node.operator \in Equality)
              => \A n \in ToSet(Children(node)) : ~StrayString[n]
           /\ node.type = "Binary" /\ node.operator \in Equality
              => /\ \A n \in ToSet(Children(node)) : ~IsString(n) => ~StrayString[n]
                 /\ (\E n \in ToSet(Children(node)) : IsString(n))
                    => \E n \in ToSet(Children(node)) : n.type = "Identifier"
<1>1. StrayString[node] = StrayNode(StrayString, node)
  BY StraysAre
<1>2. ~IsString(node)
  BY <1>1 DEF StrayNode
<1>3. ASSUME ~(node.type = "Binary" /\ node.operator \in Equality),
             NEW n \in ToSet(Children(node))
      PROVE  ~StrayString[n]
  BY <1>1, <1>3 DEF StrayNode
<1>4. ASSUME node.type = "Binary", node.operator \in Equality,
             NEW n \in ToSet(Children(node)), ~IsString(n)
      PROVE  ~StrayString[n]
  BY <1>1, <1>4 DEF StrayNode
<1>5. ASSUME node.type = "Binary", node.operator \in Equality,
             NEW n \in ToSet(Children(node)), IsString(n),
             \A m \in ToSet(Children(node)) : m.type # "Identifier"
      PROVE  FALSE
  <2>1. ~StrayString[n]
    BY <1>1, <1>5 DEF StrayNode
  <2>2. n \in Trees
    BY ChildrenAre
  <2>3. StrayString[n] = StrayNode(StrayString, n)
    BY <2>2, StraysAre
  <2> QED
    BY <1>5, <2>1, <2>3 DEF StrayNode
<1> QED
  BY <1>2, <1>3, <1>4, <1>5

LEMMA SoundBelow ==
    ASSUME NEW rule, NEW scope, NEW keys, NEW node \in Trees, Unsupported \notin Nodes[node],
           NEW n \in ToSet(Children(node)), Evaluates(n, rule, scope, keys), ~StrayString[n],
           Fits(InferOf(rule)[n].notes, keys)
    PROVE  /\ InferOf(rule)[n].type \in Types /\ InferOf(rule)[n].type # "unknown"
           /\ Outcome(InferOf(rule)[n].type, WalkOf(scope)[n])
  BY ChildrenAreSound, KindsOfTypes DEF Evaluates

LEMMA SoundCall ==
    ASSUME NEW rule, NEW scope, NEW keys, NEW node \in Trees, node.type = "Call",
           Unsupported \notin Nodes[node], ~StrayString[node],
           \A n \in ToSet(Children(node)) : Evaluates(n, rule, scope, keys),
           Fits(InferOf(rule)[node].notes, keys)
    PROVE  /\ InferOf(rule)[node].type = "number"
           /\ Outcome("number", WalkOf(scope)[node])
<1> DEFINE f == InferOf(rule)
           w == WalkOf(scope)
           fn == FunctionOf(node.callee)
           values == [i \in DOMAIN node.args |-> As("number", w[node.args[i]])]
<1>1. f[node] = InferNode(f, node, rule) /\ w[node] = WalkNode(w, node, scope)
  BY InferredIs, WalkedIs
<1>2. /\ fn # "none" /\ ArgumentsFit(fn, node.args)
      /\ \A i \in DOMAIN node.args :
            /\ Fits(f[node.args[i]].notes, keys)
            /\ f[node.args[i]].type \in {"number", "unknown"}
      /\ (\A i \in DOMAIN node.args : f[node.args[i]].type = "number")
            => f[node].type = "number"
  <2>1. Fits(InferNode(f, node, rule).notes, keys)
    BY <1>1
  <2> HIDE DEF f, w
  <2>2. /\ FunctionOf(node.callee) # "none"
        /\ ArgumentsFit(FunctionOf(node.callee), node.args)
        /\ \A i \in DOMAIN node.args :
              /\ Fits(f[node.args[i]].notes, keys)
              /\ f[node.args[i]].type \in {"number", "unknown"}
        /\ (\A i \in DOMAIN node.args : f[node.args[i]].type = "number")
              => InferNode(f, node, rule).type = "number"
    BY <2>1, CallFits
  <2> QED
    BY <1>1, <2>2
<1>3. ASSUME NEW i \in DOMAIN node.args
      PROVE  f[node.args[i]].type = "number" /\ Outcome("number", w[node.args[i]])
  <2>1. node.args[i] \in ToSet(Children(node))
    BY ArgumentsAre
  <2>2. ~StrayString[node.args[i]]
    BY <2>1, NotStrayBelow
  <2>3. /\ f[node.args[i]].type # "unknown"
        /\ Outcome(f[node.args[i]].type, w[node.args[i]])
    BY <1>2, <2>1, <2>2, SoundBelow
  <2> HIDE DEF f, w
  <2> QED
    BY <1>2, <2>3
<1>4. f[node].type = "number"
  BY <1>2, <1>3
<1> HIDE DEF f, w
<1>5. \A i \in DOMAIN values : /\ Failed(values[i]) => values[i].code \in NumberFailures
                               /\ values[i] = w[node.args[i]]
  BY <1>3, AsOutcome
<1>6. w[node] = IF \E v \in ToSet(values) : Failed(v) THEN FirstFailure(values)
                ELSE ApplyFunction(fn, values)
  <2> HIDE DEF values, fn
  <2> QED
    BY <1>1, <1>2 DEF WalkNode, values, fn
<1>7. CASE \E v \in ToSet(values) : Failed(v)
  <2> DEFINE S == {i \in DOMAIN values : Failed(values[i])}
  <2>1. S # {} /\ S \subseteq Nat
    <3>1. DOMAIN values \subseteq Nat
      BY ArgumentsAre
    <3> HIDE DEF values
    <3> QED
      BY <1>7, <3>1 DEF ToSet
  <2>2. PICK i \in S : \A j \in S : i <= j
    <3> HIDE DEF S
    <3> QED
      BY <2>1, LeastIs
  <2>3. i \in Nat /\ \A j \in 1 .. i - 1 : ~Failed(values[j])
    <3>1. DOMAIN values = 1 .. Len(node.args) /\ Len(node.args) \in Nat
      BY ArgumentsAre
    <3> HIDE DEF values
    <3> QED
      BY <2>1, <2>2, <3>1
  <2>4. \E k \in DOMAIN values :
           /\ FirstFailure(values) = values[k]
           /\ Failed(values[k]) /\ \A j \in 1 .. k - 1 : ~Failed(values[j])
    <3> HIDE DEF values
    <3> QED
      BY <2>2, <2>3 DEF FirstFailure
  <2> HIDE DEF values, S
  <2> QED
    BY <1>4, <1>5, <1>6, <1>7, <2>4, FailureOutcome DEF f, w
<1>8. CASE \A v \in ToSet(values) : ~Failed(v)
  <2>1. w[node] = ApplyFunction(fn, values)
    <3> HIDE DEF values, fn
    <3> QED
      BY <1>6, <1>8
  <2>2. fn \in {"min", "max", "round", "ceil", "floor"}
    <3>1. DOMAIN Functions = {"min", "max", "round", "ceil", "floor"}
      BY DEF Functions
    <3> QED
      BY <1>2, <3>1 DEF FunctionOf
  <2>3. \E n : ApplyFunction(fn, values) = Finite(n)
    <3> HIDE DEF values, fn
    <3> QED
      BY <2>2 DEF ApplyFunction
  <2> QED
    BY <1>4, <2>1, <2>3, FiniteOutcome DEF f, w
<1> QED
  BY <1>4, <1>7, <1>8 DEF f, w

LEMMA SoundUnary ==
    ASSUME NEW rule, NEW scope, NEW keys, NEW node \in Trees, node.type = "Unary",
           Unsupported \notin Nodes[node], ~StrayString[node],
           \A n \in ToSet(Children(node)) : Evaluates(n, rule, scope, keys),
           Fits(InferOf(rule)[node].notes, keys)
    PROVE  /\ InferOf(rule)[node].type \in {"number", "boolean"}
           /\ Outcome(InferOf(rule)[node].type, WalkOf(scope)[node])
<1> DEFINE f == InferOf(rule)
           w == WalkOf(scope)
           n == node.argument
           expected == IF node.operator = "!" THEN "boolean" ELSE "number"
           value == As(expected, w[n])
<1>1. f[node] = InferNode(f, node, rule) /\ w[node] = WalkNode(w, node, scope)
  BY InferredIs, WalkedIs
<1>2. n \in ToSet(Children(node)) /\ ~StrayString[n]
  BY OperandsAre, NotStrayBelow
<1>3. /\ Fits(f[n].notes, keys) /\ f[n].type \in {expected, "unknown"}
      /\ f[n].type = expected => f[node].type = expected
  <2>1. Fits(InferNode(f, node, rule).notes, keys)
    BY <1>1
  <2> HIDE DEF f, w
  <2> QED
    BY <1>1, <2>1, UnaryFits
<1>4. f[n].type # "unknown" /\ Outcome(f[n].type, w[n])
  BY <1>2, <1>3, SoundBelow
<1> HIDE DEF f, w, n
<1>5. f[node].type = expected /\ Outcome(expected, w[n]) /\ expected \in {"number", "boolean"}
  BY <1>3, <1>4
<1>6. w[node] = CASE value.kind = "boolean" -> Bool(~value.b)
                  [] value.kind = "number" -> Finite(-value.n)
                  [] OTHER -> value
  BY <1>1 DEF WalkNode, n
<1> HIDE DEF expected
<1>7. /\ value = w[n]
      /\ Failed(value) \/ value.kind = expected
      /\ Failed(value) => value.code \in NumberFailures
  BY <1>5, AsOutcome
<1> HIDE DEF value
<1>8. CASE Failed(value)
  <2>1. w[node] = value
    BY <1>6, <1>8 DEF Failed
  <2> QED
    BY <1>5, <1>7, <1>8, <2>1, FailureOutcome DEF f, w
<1>9. CASE ~Failed(value) /\ expected = "boolean"
  <2>1. w[node] = Bool(~value.b)
    BY <1>6, <1>7, <1>9
  <2> QED
    BY <1>5, <1>9, <2>1, BoolOutcome DEF f, w
<1>10. CASE ~Failed(value) /\ expected = "number"
  <2>1. w[node] = Finite(-value.n)
    BY <1>6, <1>7, <1>10
  <2> QED
    BY <1>5, <1>10, <2>1, FiniteOutcome DEF f, w
<1> QED
  BY <1>5, <1>8, <1>9, <1>10

\* A value that did not fail is of the kind of its type.
LEMMA KindOfOutcome ==
    ASSUME NEW type \in Types, NEW v, Outcome(type, v)
    PROVE  /\ Failed(v) => v.code \in NumberFailures
           /\ ~Failed(v) => v.kind = IF type \in EnumTypes THEN "string" ELSE type
  BY DEF Outcome, Types, EnumTypes, Failed, IsNumber

LEMMA SoundLiteral ==
    ASSUME NEW operator, NEW literal, NEW other, other.type = "Identifier", NEW variables,
           NEW type \in EnumTypes, Outcome(type, Lookup(other.name, variables))
    PROVE  Outcome("boolean", CompareLiteral(operator, literal, other, variables))
<1> DEFINE value == Lookup(other.name, variables)
<1>1. type \in Types
  BY DEF Types
<1>2. /\ Failed(value) => value.code \in NumberFailures
      /\ ~Failed(value) => value.kind = "string"
  <2> HIDE DEF value
  <2>1. Outcome(type, value)
    BY DEF value
  <2> QED
    BY <1>1, <2>1, KindOfOutcome
<1>3. As("string", value) = value
  <2> HIDE DEF value
  <2> QED
    BY <1>2 DEF As, Failed
<1>4. CompareLiteral(operator, literal, other, variables)
         = IF Failed(value) THEN value ELSE Compare(operator, value.s = literal.value.s)
  <2> HIDE DEF value
  <2> QED
    BY <1>3 DEF CompareLiteral, value
<1> HIDE DEF value
<1> QED
  BY <1>2, <1>4, FailureOutcome, BoolOutcome DEF Compare

LEMMA LiteralType ==
    \A literal, other, found : InferEnumLiteral(literal, other, found).type = "boolean"
<1> SUFFICES ASSUME NEW literal, NEW other, NEW found
             PROVE  InferEnumLiteral(literal, other, found).type = "boolean"
  OBVIOUS
<1>1. \E notes : InferEnumLiteral(literal, other, found) = Found("boolean", notes)
  BY DEF InferEnumLiteral
<1> QED
  BY <1>1 DEF Found

LEMMA SoundEnumeration ==
    ASSUME NEW operator, NEW literal, NEW other, other.type = "Identifier", NEW variables,
           NEW found, NEW keys, NEW value, value = Lookup(other.name, variables),
           Fits(InferEnumLiteral(literal, other, found).notes, keys),
           Fits(found.notes, keys) => /\ found.type \in Types /\ found.type # "unknown"
                                      /\ Outcome(found.type, value)
    PROVE  Outcome("boolean", CompareLiteral(operator, literal, other, variables))
<1>1. /\ Fits(found.notes, keys)
      /\ found.type = "unknown" \/ (other.type = "Identifier" /\ KindOf(found.type) = "enum")
  BY LiteralFits
<1>2. found.type \in EnumTypes /\ Outcome(found.type, value)
  BY <1>1, KindsOfTypes
<1>3. Outcome(found.type, Lookup(other.name, variables))
  BY <1>2
<1> QED
  BY <1>1, <1>2, <1>3, SoundLiteral

LEMMA SoundComparison ==
    ASSUME NEW operator, NEW s \in Types, NEW t \in Types, KindOf(s) = KindOf(t),
           NEW a, NEW b, Outcome(s, a), Outcome(t, b)
    PROVE  Outcome("boolean", CompareValues(operator, a, b))
<1>1. /\ Failed(a) => a.code \in NumberFailures
      /\ Failed(b) => b.code \in NumberFailures
  BY KindOfOutcome
<1>2. ASSUME ~Failed(a), ~Failed(b) PROVE a.kind = b.kind
  <2>1. /\ a.kind = IF s \in EnumTypes THEN "string" ELSE s
        /\ b.kind = IF t \in EnumTypes THEN "string" ELSE t
    BY <1>2, KindOfOutcome
  <2>2. (s \in EnumTypes) = (t \in EnumTypes) /\ (s \notin EnumTypes => s = t)
    BY KindsOfTypes
  <2> QED
    BY <2>1, <2>2
<1>3. CASE Failed(a)
  BY <1>1, <1>3, FailureOutcome DEF CompareValues
<1>4. CASE ~Failed(a) /\ Failed(b)
  BY <1>1, <1>4, FailureOutcome DEF CompareValues
<1>5. CASE ~Failed(a) /\ ~Failed(b)
  BY <1>2, <1>5, BoolOutcome DEF CompareValues, Compare
<1> QED
  BY <1>3, <1>4, <1>5

LEMMA SoundComputation ==
    ASSUME NEW operator \in Arithmetic \cup Order, NEW a, NEW b
    PROVE  /\ operator \in Arithmetic => Outcome("number", Compute(operator, a, b))
           /\ operator \in Order => Outcome("boolean", Compute(operator, a, b))
<1>1. ASSUME operator \in Order
      PROVE  Outcome("boolean", Compute(operator, a, b))
  <2>1. \E c : Compute(operator, a, b) = Bool(c)
    BY <1>1 DEF Compute, Order
  <2> QED
    BY <2>1, BoolOutcome
<1>2. ASSUME operator \in Arithmetic
      PROVE  Outcome("number", Compute(operator, a, b))
  <2>1. \/ \E n : Compute(operator, a, b) = Finite(n)
        \/ Compute(operator, a, b) = Failure("DIVISION_BY_ZERO")
    BY <1>2 DEF Compute, Arithmetic
  <2>2. Outcome("number", Failure("DIVISION_BY_ZERO"))
    BY DEF Outcome, Failure, NumberFailures
  <2> QED
    BY <2>1, <2>2, FiniteOutcome
<1> QED
  BY <1>1, <1>2

\* What an equality is inferred and evaluated from.
LEMMA EqualityNode ==
    ASSUME NEW node, node.type = "Binary", node.operator \in Equality,
           NEW f, NEW w, NEW rule, NEW scope
    PROVE  /\ IsString(node.left) =>
                 /\ InferNode(f, node, rule)
                       = InferEnumLiteral(node.left, node.right, f[node.right])
                 /\ WalkNode(w, node, scope)
                       = CompareLiteral(node.operator, node.left, node.right, scope.variables)
           /\ ~IsString(node.left) /\ IsString(node.right) =>
                 /\ InferNode(f, node, rule)
                       = InferEnumLiteral(node.right, node.left, f[node.left])
                 /\ WalkNode(w, node, scope)
                       = CompareLiteral(node.operator, node.right, node.left, scope.variables)
           /\ ~IsString(node.left) /\ ~IsString(node.right) =>
                 /\ InferNode(f, node, rule) = InferSameKind(f[node.left], f[node.right])
                 /\ WalkNode(w, node, scope)
                       = CompareValues(node.operator, w[node.left], w[node.right])
<1>1. /\ IsString(node.left) =>
            InferNode(f, node, rule) = InferEnumLiteral(node.left, node.right, f[node.right])
      /\ ~IsString(node.left) /\ IsString(node.right) =>
            InferNode(f, node, rule) = InferEnumLiteral(node.right, node.left, f[node.left])
      /\ ~IsString(node.left) /\ ~IsString(node.right) =>
            InferNode(f, node, rule) = InferSameKind(f[node.left], f[node.right])
  BY DEF InferNode
<1>2. /\ IsString(node.left) =>
            WalkNode(w, node, scope)
               = CompareLiteral(node.operator, node.left, node.right, scope.variables)
      /\ ~IsString(node.left) /\ IsString(node.right) =>
            WalkNode(w, node, scope)
               = CompareLiteral(node.operator, node.right, node.left, scope.variables)
      /\ ~IsString(node.left) /\ ~IsString(node.right) =>
            WalkNode(w, node, scope)
               = CompareValues(node.operator, w[node.left], w[node.right])
  <2> DEFINE l == node.left
             r == node.right
  <2>1. WalkNode(w, node, scope)
           = CASE IsString(l) -> CompareLiteral(node.operator, l, r, scope.variables)
               [] ~IsString(l) /\ IsString(r) ->
                     CompareLiteral(node.operator, r, l, scope.variables)
               [] OTHER -> CompareValues(node.operator, w[l], w[r])
    BY DEF WalkNode, Equality, Logical
  <2> HIDE DEF l, r
  <2>2. /\ IsString(l) =>
              WalkNode(w, node, scope)
                 = CompareLiteral(node.operator, l, r, scope.variables)
        /\ ~IsString(l) /\ IsString(r) =>
              WalkNode(w, node, scope)
                 = CompareLiteral(node.operator, r, l, scope.variables)
        /\ ~IsString(l) /\ ~IsString(r) =>
              WalkNode(w, node, scope) = CompareValues(node.operator, w[l], w[r])
    BY <2>1
  <2> QED
    BY <2>2 DEF l, r
<1> QED
  BY <1>1, <1>2

LEMMA SoundEquality ==
    ASSUME NEW rule, NEW scope, NEW keys, NEW node \in Trees, node.type = "Binary",
           node.operator \in Equality,
           Unsupported \notin Nodes[node], ~StrayString[node],
           \A n \in ToSet(Children(node)) : Evaluates(n, rule, scope, keys),
           Fits(InferOf(rule)[node].notes, keys)
    PROVE  /\ InferOf(rule)[node].type = "boolean"
           /\ Outcome("boolean", WalkOf(scope)[node])
<1> DEFINE f == InferOf(rule)
           w == WalkOf(scope)
           l == node.left
           r == node.right
<1>1. f[node] = InferNode(f, node, rule) /\ w[node] = WalkNode(w, node, scope)
  BY InferredIs, WalkedIs
<1>2. {l, r} = ToSet(Children(node)) /\ l \in Trees /\ r \in Trees
  BY OperandsAre, ChildrenAre
<1>3. ASSUME NEW n \in {l, r}, n.type = "Identifier"
      PROVE  w[n] = Lookup(n.name, scope.variables)
  <2>1. w[n] = WalkNode(w, n, scope)
    BY <1>2, WalkedIs
  <2> HIDE DEF w
  <2> QED
    BY <1>3, <2>1 DEF WalkNode
<1>4. ASSUME NEW n \in {l, r}, ~IsString(n), Fits(f[n].notes, keys)
      PROVE  /\ f[n].type \in Types /\ f[n].type # "unknown"
             /\ Outcome(f[n].type, w[n])
  <2>1. n \in ToSet(Children(node)) /\ ~StrayString[n]
    BY <1>2, <1>4, NotStrayBelow
  <2> QED
    BY <1>4, <2>1, SoundBelow
<1>5. ASSUME NEW n \in {l, r}, NEW m \in {l, r}, {m, n} = {l, r}, IsString(n)
      PROVE  m.type = "Identifier" /\ ~IsString(m)
  <2>1. \E k \in {l, r} : k.type = "Identifier"
    BY <1>2, <1>5, NotStrayBelow
  <2>2. n.type # "Identifier"
    BY <1>5 DEF IsString
  <2> QED
    BY <1>5, <2>1, <2>2 DEF IsString
<1>6. ASSUME NEW n \in {l, r}, NEW m \in {l, r}, {m, n} = {l, r}, IsString(n),
             f[node] = InferEnumLiteral(n, m, f[m]),
             w[node] = CompareLiteral(node.operator, n, m, scope.variables)
      PROVE  f[node].type = "boolean" /\ Outcome("boolean", w[node])
  <2>1. m.type = "Identifier" /\ ~IsString(m)
    BY <1>5, <1>6
  <2>2. Fits(InferEnumLiteral(n, m, f[m]).notes, keys)
    BY <1>6
  <2>3. w[m] = Lookup(m.name, scope.variables)
    BY <1>3, <2>1
  <2>4. Fits(f[m].notes, keys) => /\ f[m].type \in Types /\ f[m].type # "unknown"
                                  /\ Outcome(f[m].type, w[m])
    BY <1>4, <2>1
  <2>5. InferEnumLiteral(n, m, f[m]).type = "boolean"
    BY LiteralType
  <2>6. Outcome("boolean", CompareLiteral(node.operator, n, m, scope.variables))
    <3> HIDE DEF f, w
    <3> QED
      BY <2>1, <2>2, <2>3, <2>4, SoundEnumeration
  <2> HIDE DEF f, w, l, r
  <2> QED
    BY <1>6, <2>5, <2>6
<1>7. CASE IsString(l)
  <2>1. /\ f[node] = InferEnumLiteral(l, r, f[r])
        /\ w[node] = CompareLiteral(node.operator, l, r, scope.variables)
    <3> HIDE DEF f, w
    <3> QED
      BY <1>1, <1>7, EqualityNode
  <2> HIDE DEF f, w, l, r
  <2>2. f[node].type = "boolean" /\ Outcome("boolean", w[node])
    BY <1>6, <1>7, <2>1
  <2> QED
    BY <2>2 DEF f, w
<1>8. CASE ~IsString(l) /\ IsString(r)
  <2>1. /\ f[node] = InferEnumLiteral(r, l, f[l])
        /\ w[node] = CompareLiteral(node.operator, r, l, scope.variables)
    <3> HIDE DEF f, w
    <3> QED
      BY <1>1, <1>8, EqualityNode
  <2> HIDE DEF f, w, l, r
  <2>2. f[node].type = "boolean" /\ Outcome("boolean", w[node])
    BY <1>6, <1>8, <2>1
  <2> QED
    BY <2>2 DEF f, w
<1>9. CASE ~IsString(l) /\ ~IsString(r)
  <2>1. /\ f[node] = InferSameKind(f[l], f[r])
        /\ w[node] = CompareValues(node.operator, w[l], w[r])
    <3> HIDE DEF f, w
    <3> QED
      BY <1>1, <1>9, EqualityNode
  <2>2. Fits(InferSameKind(f[l], f[r]).notes, keys)
    BY <2>1
  <2> HIDE DEF f, w, l, r
  <2>3. /\ Fits(f[l].notes, keys) /\ Fits(f[r].notes, keys)
        /\ "unknown" \in {f[l].type, f[r].type} \/ KindOf(f[l].type) = KindOf(f[r].type)
        /\ InferSameKind(f[l], f[r]).type = "boolean"
    BY <2>2, SameKindFits
  <2>4. /\ {f[l].type, f[r].type} \subseteq Types /\ "unknown" \notin {f[l].type, f[r].type}
        /\ Outcome(f[l].type, w[l]) /\ Outcome(f[r].type, w[r])
    BY <1>4, <1>9, <2>3
  <2>5. Outcome("boolean", w[node])
    BY <2>1, <2>3, <2>4, SoundComparison
  <2> QED
    BY <2>1, <2>3, <2>5 DEF f, w
<1> QED
  BY <1>7, <1>8, <1>9

LEMMA SoundOperation ==
    ASSUME NEW rule, NEW scope, NEW keys, NEW node \in Trees, node.type = "Binary",
           node.operator \notin Equality,
           Unsupported \notin Nodes[node], ~StrayString[node],
           \A n \in ToSet(Children(node)) : Evaluates(n, rule, scope, keys),
           Fits(InferOf(rule)[node].notes, keys)
    PROVE  /\ InferOf(rule)[node].type \in {"number", "boolean"}
           /\ Outcome(InferOf(rule)[node].type, WalkOf(scope)[node])
<1> DEFINE f == InferOf(rule)
           w == WalkOf(scope)
           l == node.left
           r == node.right
           expected == IF node.operator \in Logical THEN "boolean" ELSE "number"
<1>1. f[node] = InferNode(f, node, rule) /\ w[node] = WalkNode(w, node, scope)
  BY InferredIs, WalkedIs
<1>2. /\ {l, r} = ToSet(Children(node)) /\ ~StrayString[l] /\ ~StrayString[r]
      /\ node.operator \in Arithmetic \cup Order \cup Logical
  <2>1. {l, r} = ToSet(Children(node))
    BY OperandsAre
  <2>2. node.operator \in Arithmetic \cup Order \cup Logical
    BY TreesAssumption DEF WellFormed
  <2> QED
    BY <2>1, <2>2, NotStrayBelow
<1>3. f[node] = InferOperands(node.operator, f[l], f[r])
  <2> HIDE DEF f, w
  <2> QED
    BY <1>1 DEF InferNode
<1>4. Fits(InferOperands(node.operator, f[l], f[r]).notes, keys)
  BY <1>3
<1>5. /\ Fits(f[l].notes, keys) /\ Fits(f[r].notes, keys)
      /\ {f[l].type, f[r].type} \subseteq {expected, "unknown"}
      /\ f[l].type = expected /\ f[r].type = expected
         => f[node].type = IF node.operator \in Arithmetic THEN "number" ELSE "boolean"
  <2> DEFINE found == InferOperands(node.operator, f[l], f[r])
  <2>1. /\ Fits(f[l].notes, keys) /\ Fits(f[r].notes, keys)
        /\ {f[l].type, f[r].type} \subseteq {expected, "unknown"}
        /\ f[l].type = expected /\ f[r].type = expected
           => found.type = IF node.operator \in Arithmetic THEN "number" ELSE "boolean"
    <3> HIDE DEF f, w, l, r
    <3> QED
      BY <1>4, OperandsFit
  <2> HIDE DEF f, w, l, r, expected, found
  <2> QED
    BY <1>3, <2>1 DEF found
<1>6. /\ f[l].type # "unknown" /\ Outcome(f[l].type, w[l])
      /\ f[r].type # "unknown" /\ Outcome(f[r].type, w[r])
  <2>1. l \in ToSet(Children(node)) /\ r \in ToSet(Children(node))
    BY <1>2
  <2>2. Fits(f[l].notes, keys) /\ Fits(f[r].notes, keys)
    BY <1>5
  <2>3. f[l].type # "unknown" /\ Outcome(f[l].type, w[l])
    BY <1>2, <2>1, <2>2, SoundBelow
  <2>4. f[r].type # "unknown" /\ Outcome(f[r].type, w[r])
    BY <1>2, <2>1, <2>2, SoundBelow
  <2> QED
    BY <2>3, <2>4
<1>7. /\ f[node].type = IF node.operator \in Arithmetic THEN "number" ELSE "boolean"
      /\ Outcome(expected, w[l]) /\ Outcome(expected, w[r])
  <2> HIDE DEF f, w, l, r, expected
  <2> QED
    BY <1>5, <1>6
<1>8. expected \in {"number", "boolean"}
  OBVIOUS
<1>9. CASE node.operator \in Logical
  <2>1. node.operator \notin Arithmetic /\ expected = "boolean"
    BY <1>9 DEF Logical, Arithmetic
  <2>2. w[node] = LET left == As("boolean", w[l])
                  IN  CASE Failed(left) -> left
                        [] ~Failed(left) /\ left.b = (node.operator = "||") -> left
                        [] OTHER -> As("boolean", w[r])
    <3> HIDE DEF f, w
    <3> QED
      BY <1>1, <1>9 DEF WalkNode
  <2> HIDE DEF f, w, l, r, expected
  <2>3. As("boolean", w[l]) = w[l] /\ As("boolean", w[r]) = w[r]
    BY <1>7, <2>1, AsOutcome
  <2>4. w[node] = w[l] \/ w[node] = w[r]
    BY <2>2, <2>3
  <2> QED
    BY <1>7, <2>1, <2>4 DEF f, w
<1>10. CASE node.operator \in Arithmetic \cup Order
  <2>1. node.operator \notin Logical /\ expected = "number"
    BY <1>10 DEF Logical, Arithmetic, Order
  <2>2. w[node] = LET a == As("number", w[l])
                      b == As("number", w[r])
                  IN  CASE Failed(a) -> a
                        [] ~Failed(a) /\ Failed(b) -> b
                        [] OTHER -> Compute(node.operator, a.n, b.n)
    <3> HIDE DEF f, w
    <3> QED
      BY <1>1, <1>10, <2>1 DEF WalkNode
  <2> HIDE DEF f, w, l, r, expected
  <2>3. /\ As("number", w[l]) = w[l] /\ As("number", w[r]) = w[r]
        /\ Failed(w[l]) => w[l].code \in NumberFailures
        /\ Failed(w[r]) => w[r].code \in NumberFailures
    BY <1>7, <2>1, AsOutcome
  <2>4. \/ Failed(w[node]) /\ w[node].code \in NumberFailures
        \/ w[node] = Compute(node.operator, w[l].n, w[r].n)
    BY <2>2, <2>3
  <2>5. Outcome(f[node].type, Compute(node.operator, w[l].n, w[r].n))
    <3>1. (node.operator \in Order) = (node.operator \notin Arithmetic)
      BY <1>10 DEF Order, Arithmetic
    <3> QED
      BY <1>7, <1>10, <3>1, SoundComputation
  <2> QED
    BY <1>7, <2>4, <2>5, FailureOutcome DEF f, w
<1> QED
  BY <1>2, <1>9, <1>10

LEMMA SoundConditional ==
    ASSUME NEW rule, NEW scope, NEW keys, NEW node \in Trees, node.type = "Conditional",
           Unsupported \notin Nodes[node], ~StrayString[node],
           \A n \in ToSet(Children(node)) : Evaluates(n, rule, scope, keys),
           Fits(InferOf(rule)[node].notes, keys)
    PROVE  /\ InferOf(rule)[node].type \in Types
           /\ Outcome(InferOf(rule)[node].type, WalkOf(scope)[node])
<1> DEFINE f == InferOf(rule)
           w == WalkOf(scope)
           t == node.test
           a == node.consequent
           b == node.alternate
           found == InferConditional(f[t], f[a], f[b])
<1>1. f[node] = InferNode(f, node, rule) /\ w[node] = WalkNode(w, node, scope)
  BY InferredIs, WalkedIs
<1>2. /\ {t, a, b} = ToSet(Children(node))
      /\ ~StrayString[t] /\ ~StrayString[a] /\ ~StrayString[b]
  <2>1. {t, a, b} = ToSet(Children(node))
    BY OperandsAre
  <2> QED
    BY <2>1, NotStrayBelow
<1>3. f[node] = found
  <2> HIDE DEF f, w
  <2> QED
    BY <1>1 DEF InferNode
<1>4. Fits(found.notes, keys)
  BY <1>3
<1>5. /\ Fits(f[t].notes, keys) /\ Fits(f[a].notes, keys) /\ Fits(f[b].notes, keys)
      /\ f[t].type \in {"boolean", "unknown"}
      /\ "unknown" \notin {f[t].type, f[a].type, f[b].type}
         => KindOf(f[a].type) = KindOf(f[b].type) /\ found.type = f[a].type
  <2> DEFINE x == f[t]
             y == f[a]
             z == f[b]
  <2>1. Fits(InferConditional(x, y, z).notes, keys)
    BY <1>4
  <2>2. /\ Fits(x.notes, keys) /\ Fits(y.notes, keys) /\ Fits(z.notes, keys)
        /\ x.type \in {"boolean", "unknown"}
        /\ "unknown" \notin {x.type, y.type, z.type}
           => KindOf(y.type) = KindOf(z.type) /\ InferConditional(x, y, z).type = y.type
    <3> HIDE DEF x, y, z
    <3> QED
      BY <2>1, ConditionalFits
  <2> HIDE DEF f, w, t, a, b
  <2> QED
    BY <2>2
<1>6. ASSUME NEW n \in {t, a, b}, ~StrayString[n], Fits(f[n].notes, keys)
      PROVE  f[n].type \in Types /\ f[n].type # "unknown" /\ Outcome(f[n].type, w[n])
  <2>1. n \in ToSet(Children(node))
    BY <1>2
  <2> QED
    BY <1>6, <2>1, SoundBelow
<1>7. /\ f[t].type # "unknown" /\ Outcome(f[t].type, w[t])
      /\ f[a].type \in Types /\ f[a].type # "unknown" /\ Outcome(f[a].type, w[a])
      /\ f[b].type \in Types /\ f[b].type # "unknown" /\ Outcome(f[b].type, w[b])
  <2> HIDE DEF f, w, t, a, b, found
  <2> QED
    BY <1>2, <1>5, <1>6
<1>8. /\ f[node].type = f[a].type /\ KindOf(f[a].type) = KindOf(f[b].type)
      /\ Outcome("boolean", w[t])
  <2> HIDE DEF f, w, t, a, b, found
  <2> QED
    BY <1>3, <1>5, <1>7
<1>9. w[node] = LET test == As("boolean", w[t])
                IN  CASE Failed(test) -> test
                      [] ~Failed(test) /\ test.b -> w[a]
                      [] OTHER -> w[b]
  <2> HIDE DEF f, w
  <2> QED
    BY <1>1 DEF WalkNode
<1> HIDE DEF f, w, t, a, b, found
<1>10. As("boolean", w[t]) = w[t] /\ (Failed(w[t]) => w[t].code \in NumberFailures)
  BY <1>8, AsOutcome
<1>11. \/ Failed(w[node]) /\ w[node].code \in NumberFailures
       \/ w[node] = w[a]
       \/ w[node] = w[b]
  BY <1>9, <1>10
<1>12. ASSUME Outcome(f[b].type, w[b]) PROVE Outcome(f[a].type, w[b])
  <2>1. \/ f[a].type = f[b].type
        \/ f[a].type \in EnumTypes /\ f[b].type \in EnumTypes
    BY <1>7, <1>8, KindsOfTypes
  <2> QED
    BY <1>7, <2>1 DEF Outcome, EnumTypes
<1> QED
  BY <1>7, <1>8, <1>11, <1>12, FailureOutcome DEF f, w

LEMMA QuantityIsNoName ==
    \A level : NamesAt(level) \subseteq AllNames /\ "quantity" \notin AllNames
  BY DEF NamesAt, AllNames, RoomNames, ProductNames, ObjectNames, SurfaceNames

LEMMA IdentifierFits ==
    ASSUME NEW name, NEW rule, NEW keys, Fits(InferIdentifier(name, rule).notes, keys)
    PROVE  \/ /\ name = "quantity" /\ QuantityAllowed(rule)
              /\ InferIdentifier(name, rule) = Found("number", {})
           \/ /\ name \in NamesAt(rule.level)
              /\ InferIdentifier(name, rule) = Found(TypeOfName(name), {})
<1> DEFINE found == InferIdentifier(name, rule)
<1>1. CASE name = "quantity" /\ QuantityAllowed(rule)
  <2>1. name \notin NamesAt(rule.level) /\ name \notin AllNames \ NamesAt(rule.level)
    BY <1>1, QuantityIsNoName
  <2> QED
    BY <1>1, <2>1 DEF InferIdentifier
<1>2. CASE name \in NamesAt(rule.level)
  <2>1. name # "quantity"
    BY <1>2, QuantityIsNoName
  <2> QED
    BY <1>2, <2>1 DEF InferIdentifier
<1>3. ASSUME ~(name = "quantity" /\ QuantityAllowed(rule)), name \notin NamesAt(rule.level)
      PROVE  FALSE
  <2>1. \E code : found = Found("unknown", Error(code))
    <3>1. CASE name = "quantity"
      <4>1. name \notin AllNames \ NamesAt(rule.level)
        BY <3>1, QuantityIsNoName
      <4> QED
        BY <1>3, <3>1, <4>1 DEF InferIdentifier
    <3>2. CASE name # "quantity"
      BY <1>3, <3>2 DEF InferIdentifier
    <3> QED
      BY <3>1, <3>2
  <2>2. PICK code : found = Found("unknown", Error(code))
    BY <2>1
  <2>3. Fits(found.notes, keys)
    OBVIOUS
  <2> HIDE DEF found
  <2>4. found.notes = Error(code)
    BY <2>2 DEF Found
  <2> QED
    BY <2>3, <2>4, FitsNoError
<1> QED
  BY <1>1, <1>2, <1>3

LEMMA SoundLeaf ==
    ASSUME NEW rule, NEW scope, ScopeFits(scope, rule), NEW keys,
           NEW node \in Trees, node.type \in {"Literal", "Identifier", "Member"},
           ~StrayString[node], Fits(InferOf(rule)[node].notes, keys)
    PROVE  /\ InferOf(rule)[node].type \in Types
           /\ Outcome(InferOf(rule)[node].type, WalkOf(scope)[node])
<1> DEFINE f == InferOf(rule)
           w == WalkOf(scope)
<1>1. f[node] = InferNode(f, node, rule) /\ w[node] = WalkNode(w, node, scope)
  BY InferredIs, WalkedIs
<1>2. CASE node.type = "Literal"
  <2>1. ~IsString(node)
    BY NotStrayBelow
  <2>2. node.value.kind = "boolean" \/ IsNumber(node.value)
    BY <1>2, <2>1, TreesAssumption DEF WellFormed, IsString
  <2>3. f[node] = Found(node.value.kind, {}) /\ w[node] = node.value
    <3> HIDE DEF f, w
    <3> QED
      BY <1>1, <1>2, <2>1 DEF InferNode, WalkNode
  <2> HIDE DEF f, w
  <2>4. f[node].type = node.value.kind
    BY <2>3 DEF Found
  <2>5. f[node].type \in Types /\ Outcome(f[node].type, w[node])
    BY <2>2, <2>3, <2>4 DEF Types, Outcome, IsNumber
  <2> QED
    BY <2>5 DEF f, w
<1>3. CASE node.type = "Identifier"
  <2>1. f[node] = InferIdentifier(node.name, rule) /\ w[node] = Lookup(node.name, scope.variables)
    <3> HIDE DEF f, w
    <3> QED
      BY <1>1, <1>3 DEF InferNode, WalkNode
  <2>2. Fits(InferIdentifier(node.name, rule).notes, keys)
    BY <2>1
  <2>3. \/ /\ node.name = "quantity" /\ QuantityAllowed(rule)
           /\ InferIdentifier(node.name, rule) = Found("number", {})
        \/ /\ node.name \in NamesAt(rule.level)
           /\ InferIdentifier(node.name, rule) = Found(TypeOfName(node.name), {})
    BY <2>2, IdentifierFits
  <2> HIDE DEF f, w
  <2>4. \/ /\ node.name = "quantity" /\ QuantityAllowed(rule) /\ f[node].type = "number"
        \/ /\ node.name \in NamesAt(rule.level) /\ f[node].type = TypeOfName(node.name)
    BY <2>1, <2>3 DEF Found
  <2>5. node.name \in DOMAIN scope.variables /\ Outcome(f[node].type, scope.variables[node.name])
    BY <2>4 DEF ScopeFits
  <2>6. f[node].type \in Types
    BY <2>4, NameTypes DEF Types
  <2> QED
    BY <2>1, <2>5, <2>6 DEF f, w, Lookup
<1>4. CASE node.type = "Member"
  <2>1. f[node] = InferMember(node, rule) /\ w[node] = ReadCoefficient(node, scope.coefficients)
    <3> HIDE DEF f, w
    <3> QED
      BY <1>1, <1>4 DEF InferNode, WalkNode
  <2>2. Fits(InferMember(node, rule).notes, keys)
    BY <2>1
  <2>3. /\ IsCoefficient(node) /\ node.property \in rule.keys
        /\ InferMember(node, rule) = Found("number", {<<"key", node.property>>})
    BY <2>2, MemberFits
  <2>8. node.property \in DOMAIN scope.coefficients
    BY <2>3 DEF ScopeFits
  <2>4. w[node] = Num(scope.coefficients[node.property])
    <3> HIDE DEF w
    <3> QED
      BY <2>1, <2>3, <2>8 DEF ReadCoefficient
  <2>5. scope.coefficients[node.property] \in Int
    BY <2>8 DEF ScopeFits
  <2> HIDE DEF f, w
  <2>6. f[node].type = "number"
    BY <2>1, <2>3 DEF Found
  <2>7. Outcome("number", w[node]) /\ "number" \in Types
    BY <2>4, <2>5 DEF Outcome, Num, IsNumber, Types
  <2> QED
    BY <2>6, <2>7 DEF f, w
<1> QED
  BY <1>2, <1>3, <1>4

LEMMA SoundTree ==
    ASSUME NEW rule, NEW scope, ScopeFits(scope, rule), NEW keys
    PROVE  \A node \in Trees : Evaluates(node, rule, scope, keys)
<1> DEFINE P == {node \in Trees : Evaluates(node, rule, scope, keys)}
<1>1. ASSUME NEW node \in Trees, \A n \in ToSet(Children(node)) : n \in P
      PROVE  node \in P
  <2>1. \A n \in ToSet(Children(node)) : Evaluates(n, rule, scope, keys)
    BY <1>1
  <2> SUFFICES ASSUME Fits(InferOf(rule)[node].notes, keys),
                      Unsupported \notin Nodes[node], ~StrayString[node]
               PROVE  /\ InferOf(rule)[node].type \in Types
                      /\ Outcome(InferOf(rule)[node].type, WalkOf(scope)[node])
    BY DEF Evaluates
  <2>2. node.type \in {"Literal", "Identifier", "Member", "Call", "Unary", "Binary",
                       "Conditional"}
    <3>1. node \in Nodes[node]
      BY NodesAre DEF NodesNode
    <3>2. node # Unsupported
      BY <3>1
    <3> QED
      BY <3>2, TreesAssumption DEF WellFormed
  <2>3. CASE node.type \in {"Literal", "Identifier", "Member"}
    BY <2>3, SoundLeaf
  <2>4. CASE node.type = "Call"
    BY <2>1, <2>4, SoundCall DEF Types
  <2>5. CASE node.type = "Unary"
    BY <2>1, <2>5, SoundUnary DEF Types
  <2>6. CASE node.type = "Binary" /\ node.operator \in Equality
    BY <2>1, <2>6, SoundEquality DEF Types
  <2>7. CASE node.type = "Binary" /\ node.operator \notin Equality
    BY <2>1, <2>7, SoundOperation DEF Types
  <2>8. CASE node.type = "Conditional"
    BY <2>1, <2>8, SoundConditional
  <2> QED
    BY <2>2, <2>3, <2>4, <2>5, <2>6, <2>7, <2>8
<1>2. Trees \subseteq P
  <2> HIDE DEF P
  <2> QED
    BY <1>1, TreeInduction
<1> QED
  BY <1>2

\* The check is sound: a formula that it accepts for a rule, with no string
\* literal but those compared with a name, evaluates to a number that is not
\* negative or fails for its numbers (a division by zero, a result that is not
\* finite, a negative one) in every scope that holds the coefficients the rule
\* knows and the variables of its level: never for a name, a function, the kind
\* of an operand, its syntax or its size.
THEOREM SoundFormula ==
    ASSUME NEW formula \in Trees, ~StrayString[formula], NEW rule, NEW scope,
           ScopeFits(scope, rule), ValidateFormula(formula, rule).errors = {}
    PROVE  LET value == RunNumericFormula(formula, scope) IN
           \/ IsNumber(value) /\ ~(value.n < 0)
           \/ value.kind = "failure" /\ value.code \in NumberFailures \cup {"NEGATIVE"}
<1> DEFINE found == Infer(formula, rule)
           w == Walk(formula, scope)
           keys == Keys(found)
<1>1. ParseError(formula) = "none"
  <2> SUFFICES ASSUME ParseError(formula) # "none" PROVE FALSE
    OBVIOUS
  <2>1. ValidateFormula(formula, rule).errors = {ParseError(formula)}
    BY DEF ValidateFormula
  <2> QED
    BY <2>1
<1>2. Unsupported \notin Nodes[formula]
  BY <1>1 DEF ParseError
<1>3. /\ ValidateFormula(formula, rule).coefficientKeys = Keys(found)
      /\ ValidateFormula(formula, rule).errors
            = Errors(found) \cup IF found.type \in {"unknown", "number"} THEN {}
                                 ELSE {"TYPE_MISMATCH"}
  <2> HIDE DEF found
  <2> QED
    BY <1>1 DEF ValidateFormula, found
<1>4. /\ Errors(found) = {} /\ found.type \in {"unknown", "number"}
  <2> HIDE DEF found, keys
  <2> QED
    BY <1>3
<1>5. Fits(found.notes, keys)
  <2> HIDE DEF found
  <2> QED
    BY <1>4, FitsWhole
<1>6. found = InferOf(rule)[formula] /\ w = WalkOf(scope)[formula]
  BY InferredIs, WalkedIs
<1>7. found.type \in Types /\ Outcome(found.type, w)
  <2>1. Evaluates(formula, rule, scope, keys)
    BY SoundTree
  <2>2. Fits(InferOf(rule)[formula].notes, keys)
    BY <1>5, <1>6
  <2> HIDE DEF found, w
  <2> QED
    BY <1>2, <1>6, <2>1, <2>2 DEF Evaluates
<1>8. Outcome("number", w)
  <2> HIDE DEF found, w
  <2> QED
    BY <1>4, <1>7, KindsOfTypes
<1>9. RunNumericFormula(formula, scope) = NotNegative(w)
  BY <1>1 DEF RunNumericFormula
<1> HIDE DEF w
<1>10. (Failed(w) /\ w.code \in NumberFailures) \/ (~Failed(w) /\ IsNumber(w))
  BY <1>8 DEF Outcome, EnumTypes, Failed, IsNumber
<1>11. CASE Failed(w) /\ w.code \in NumberFailures
  BY <1>9, <1>11 DEF NotNegative, Failed
<1>12. CASE ~Failed(w) /\ IsNumber(w)
  <2>1. NotNegative(w) = IF w.n < 0 THEN Failure("NEGATIVE") ELSE w
    BY <1>12 DEF NotNegative
  <2> QED
    BY <1>9, <1>12, <2>1 DEF Failure
<1> QED
  BY <1>10, <1>11, <1>12
=============================================================================
