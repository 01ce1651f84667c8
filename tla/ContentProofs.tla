--------------------------- MODULE ContentProofs ----------------------------
(***************************************************************************)
(* What the operators of Content compute, whatever the trees: the nodes    *)
(* behind a node, the ancestors of a node, the nodes that are listed below *)
(* one, and the URI of a node behind links.  The recursive functions among *)
(* them are shown to be well defined and to be what the properties say     *)
(* without recursion.                                                      *)
(***************************************************************************)
EXTENDS Content, WellFoundedInduction, TLAPS

-----------------------------------------------------------------------------
(* The nodes behind a node.                                                *)

LEMMA NextIsAfter ==
  ASSUME NEW succ \in [Nodes -> SUBSET Nodes], NEW n \in Nodes
  PROVE  succ[n] \subseteq After(succ, n) /\ After(succ, n) \subseteq Nodes
BY DEF After

LEMMA AfterIsClosed ==
  ASSUME NEW succ \in [Nodes -> SUBSET Nodes], NEW n \in Nodes, NEW m \in After(succ, n)
  PROVE  succ[m] \subseteq After(succ, n)
<1> SUFFICES ASSUME NEW x \in succ[m], NEW S \in SUBSET Nodes,
                    \A y \in {n} \cup S : succ[y] \subseteq S
             PROVE  x \in S
  BY NextIsAfter DEF After
<1>1. m \in S BY DEF After
<1> QED BY <1>1

(* Nothing else is behind a node: a set of nodes that holds the next ones  *)
(* and those next to its own holds all.                                    *)
LEMMA AfterIsLeast ==
  ASSUME NEW succ \in [Nodes -> SUBSET Nodes], NEW n \in Nodes, NEW S \in SUBSET Nodes,
         succ[n] \subseteq S, \A x \in S : succ[x] \subseteq S
  PROVE  After(succ, n) \subseteq S
BY DEF After

LEMMA AfterIsTransitive ==
  ASSUME NEW succ \in [Nodes -> SUBSET Nodes], NEW n \in Nodes, NEW m \in After(succ, n)
  PROVE  After(succ, m) \subseteq After(succ, n)
<1>1. m \in Nodes /\ After(succ, n) \in SUBSET Nodes BY NextIsAfter
<1>2. succ[m] \subseteq After(succ, n) BY AfterIsClosed
<1>3. \A x \in After(succ, n) : succ[x] \subseteq After(succ, n) BY AfterIsClosed
<1> QED BY <1>1, <1>2, <1>3, AfterIsLeast

LEMMA AfterUnfolds ==
  ASSUME NEW succ \in [Nodes -> SUBSET Nodes], NEW n \in Nodes
  PROVE  After(succ, n) = succ[n] \cup UNION {After(succ, m) : m \in succ[n]}
<1> DEFINE S == succ[n] \cup UNION {After(succ, m) : m \in succ[n]}
<1>1. S \in SUBSET Nodes BY NextIsAfter
<1>2. ASSUME NEW x \in S PROVE succ[x] \subseteq S
  <2>1. CASE x \in succ[n] BY <2>1, NextIsAfter
  <2>2. CASE \E m \in succ[n] : x \in After(succ, m) BY <2>2, AfterIsClosed
  <2> QED BY <2>1, <2>2
<1>3. After(succ, n) \subseteq S
  <2> HIDE DEF S
  <2> QED BY <1>1, <1>2, AfterIsLeast DEF S
<1>4. S \subseteq After(succ, n) BY NextIsAfter, AfterIsTransitive
<1> QED BY <1>3, <1>4

-----------------------------------------------------------------------------
(* The ancestors of a node.                                                *)

Grown(d) == tree[d] \in Trees /\ IsTree(tree[d].parent)

Up(d) == [x \in Nodes |-> {tree[d].parent[x]} \ {None}]

LEMMA UpIs ==
  ASSUME NEW d, Grown(d)
  PROVE  /\ Up(d) \in [Nodes -> SUBSET Nodes]
         /\ \A n, m \in Nodes : n \in Up(d)[m] <=> tree[d].parent[m] = n
         /\ \A n, m \in Nodes : Below(d, n, m) <=> n \in After(Up(d), m)
<1>1. tree[d].parent \in [Nodes -> Nodes \cup {None}] BY DEF Grown, Trees
<1> QED BY <1>1, ContentAssumption DEF Up, Below

LEMMA BelowParent ==
  ASSUME NEW d, Grown(d), NEW m \in Nodes, NEW n \in Nodes, tree[d].parent[m] = n
  PROVE  Below(d, n, m)
BY UpIs, NextIsAfter

LEMMA BelowUnfolds ==
  ASSUME NEW d, Grown(d), NEW m \in Nodes, NEW n \in Nodes, Below(d, n, m)
  PROVE  \/ tree[d].parent[m] = n
         \/ tree[d].parent[m] \in Nodes /\ Below(d, n, tree[d].parent[m])
<1>1. n \in Up(d)[m] \/ \E x \in Up(d)[m] : n \in After(Up(d), x)
  BY UpIs, AfterUnfolds
<1>2. Up(d)[m] \subseteq Nodes BY UpIs
<1> QED BY <1>1, <1>2, UpIs

LEMMA BelowIsTransitive ==
  ASSUME NEW d, Grown(d), NEW a \in Nodes, NEW b \in Nodes, NEW c \in Nodes,
         Below(d, a, b), Below(d, b, c)
  PROVE  Below(d, a, c)
BY UpIs, AfterIsTransitive

(* On the way from a node down to one below it there is a child.           *)
LEMMA BelowFromTop ==
  ASSUME NEW d, Grown(d), NEW n \in Nodes, NEW m \in Nodes, Below(d, n, m)
  PROVE  \/ tree[d].parent[m] = n
         \/ \E c \in Nodes : tree[d].parent[c] = n /\ Below(d, c, m)
<1> DEFINE S == {x \in Nodes : Below(d, x, m) /\
                   (tree[d].parent[m] = x
                    \/ \E c \in Nodes : tree[d].parent[c] = x /\ Below(d, c, m))}
<1>1. Up(d)[m] \subseteq S
  <2>1. Up(d)[m] \subseteq Nodes BY UpIs
  <2> QED BY <2>1, UpIs, BelowParent
<1>2. ASSUME NEW x \in S PROVE Up(d)[x] \subseteq S
  <2>1. Up(d)[x] \subseteq Nodes BY UpIs
  <2>2. ASSUME NEW y \in Up(d)[x] PROVE y \in S
    <3>1. y \in Nodes /\ tree[d].parent[x] = y BY <2>1, UpIs
    <3>2. Below(d, y, m) BY <3>1, BelowParent, BelowIsTransitive
    <3> QED BY <3>1, <3>2
  <2> QED BY <2>2
<1>3. After(Up(d), m) \subseteq S
  <2>1. S \in SUBSET Nodes OBVIOUS
  <2> HIDE DEF S
  <2> QED BY <1>1, <1>2, <2>1, UpIs, AfterIsLeast
<1> QED BY <1>3, UpIs

(* No node is below itself: a tree has no cycles.                          *)
LEMMA BelowNotItself ==
  ASSUME NEW d, Grown(d), NEW n \in Nodes
  PROVE  ~Below(d, n, n)
<1> SUFFICES ASSUME Below(d, n, n) PROVE FALSE OBVIOUS
<1> DEFINE C == {x \in Nodes : Below(d, n, x) /\ Below(d, x, n)}
<1>1. n \in C OBVIOUS
<1>2. PICK x \in C : \A y \in C : tree[d].parent[y] # x BY <1>1 DEF Grown, IsTree
<1>3. tree[d].parent[n] = x \/ \E c \in Nodes : tree[d].parent[c] = x /\ Below(d, c, n)
  BY BelowFromTop
<1>4. PICK c \in Nodes : tree[d].parent[c] = x /\ Below(d, c, n) BY <1>1, <1>2, <1>3
<1>5. Below(d, n, c) BY <1>4, BelowParent, BelowIsTransitive
<1> QED BY <1>2, <1>4, <1>5

(* Two nodes above the same node are above one another.                    *)
LEMMA BelowIsLinear ==
  ASSUME NEW d, Grown(d), NEW m \in Nodes, NEW a \in Nodes, NEW b \in Nodes,
         Below(d, a, m), Below(d, b, m)
  PROVE  a = b \/ Below(d, a, b) \/ Below(d, b, a)
<1> DEFINE S == {x \in Nodes : a = x \/ Below(d, a, x) \/ Below(d, x, a)}
<1>1. Up(d)[m] \subseteq S
  <2>1. Up(d)[m] \subseteq Nodes BY UpIs
  <2> QED BY <2>1, UpIs, BelowUnfolds
<1>2. ASSUME NEW x \in S PROVE Up(d)[x] \subseteq S
  <2>1. Up(d)[x] \subseteq Nodes BY UpIs
  <2>2. ASSUME NEW y \in Up(d)[x] PROVE y \in S
    <3>1. y \in Nodes /\ tree[d].parent[x] = y BY <2>1, UpIs
    <3>2. CASE a = x BY <3>1, <3>2, BelowParent
    <3>3. CASE Below(d, a, x) BY <3>1, <3>3, BelowUnfolds
    <3>4. CASE Below(d, x, a) BY <3>1, <3>4, BelowParent, BelowIsTransitive
    <3> QED BY <3>2, <3>3, <3>4
  <2> QED BY <2>2
<1>3. After(Up(d), m) \subseteq S
  <2>1. S \in SUBSET Nodes OBVIOUS
  <2> HIDE DEF S
  <2> QED BY <1>1, <1>2, <2>1, UpIs, AfterIsLeast
<1> QED BY <1>3, UpIs

-----------------------------------------------------------------------------
(* What is listed below a node.                                            *)

Shows(d, n, q) == n \notin tree[d].unlisted /\ Visible(d, n, q, TRUE)

(* The nodes below r that are shown with all in between.                   *)
Shown(d, r, q) ==
  {m \in Nodes : /\ Below(d, r, m) /\ Shows(d, m, q)
                 /\ \A n \in Nodes : Below(d, r, n) /\ Below(d, n, m) => Shows(d, n, q)}

(* The children of a node that are shown, if it was asked for, or if it is *)
(* one of those below.                                                     *)
Outer(d, n, q) == Listed(d, n, q, TRUE)
Inner(d, n, q) == Listed(d, n, q, FALSE)

LEMMA ListedIs ==
  \A d, q, n :
    /\ Outer(d, n, q) = {c \in Nodes : tree[d].parent[c] = n /\ Shows(d, c, q)}
    /\ Inner(d, n, q) =
         {c \in Nodes : tree[d].parent[c] = n /\ q.expand /\ Shows(d, c, q)}
BY DEF Outer, Inner, Listed, Shows, Visible

LEMMA ShownUnfolds ==
  ASSUME NEW d, Grown(d), NEW q, NEW r \in Nodes, q.expand
  PROVE  Shown(d, r, q) =
           Inner(d, r, q) \cup UNION {Shown(d, c, q) : c \in Inner(d, r, q)}
<1> DEFINE L == Inner(d, r, q)
<1>1. L = {c \in Nodes : tree[d].parent[c] = r /\ Shows(d, c, q)}
  <2>1. L = {c \in Nodes : tree[d].parent[c] = r /\ q.expand /\ Shows(d, c, q)} BY ListedIs
  <2> QED BY <2>1
<1> HIDE DEF L
<1>2. ASSUME NEW c \in L PROVE c \in Shown(d, r, q)
  <2>1. c \in Nodes /\ tree[d].parent[c] = r /\ Shows(d, c, q) BY <1>1
  <2>2. Below(d, r, c) BY <2>1, BelowParent
  <2>3. ASSUME NEW n \in Nodes, Below(d, r, n), Below(d, n, c) PROVE FALSE
    <3>1. n = r \/ Below(d, n, r) BY <2>1, <2>3, BelowUnfolds
    <3> QED BY <2>3, <3>1, BelowIsTransitive, BelowNotItself
  <2> QED BY <2>1, <2>2, <2>3 DEF Shown
<1>3. ASSUME NEW c \in L, NEW m \in Shown(d, c, q) PROVE m \in Shown(d, r, q)
  <2>1. c \in Nodes /\ tree[d].parent[c] = r /\ Shows(d, c, q) BY <1>1
  <2>2. m \in Nodes /\ Below(d, c, m) /\ Shows(d, m, q) BY DEF Shown
  <2>3. Below(d, r, c) BY <2>1, BelowParent
  <2>4. Below(d, r, m) BY <2>1, <2>2, <2>3, BelowIsTransitive
  <2>5. ASSUME NEW n \in Nodes, Below(d, r, n), Below(d, n, m) PROVE Shows(d, n, q)
    <3>1. n = c \/ Below(d, n, c) \/ Below(d, c, n) BY <2>1, <2>2, <2>5, BelowIsLinear
    <3>2. CASE Below(d, n, c)
      <4>1. n = r \/ Below(d, n, r) BY <2>1, <3>2, BelowUnfolds
      <4> QED BY <2>5, <4>1, BelowIsTransitive, BelowNotItself
    <3>3. CASE Below(d, c, n) BY <2>5, <3>3 DEF Shown
    <3> QED BY <2>1, <3>1, <3>2, <3>3
  <2> QED BY <2>2, <2>4, <2>5 DEF Shown
<1>4. ASSUME NEW m \in Shown(d, r, q) PROVE m \in L \/ \E c \in L : m \in Shown(d, c, q)
  <2>1. m \in Nodes /\ Below(d, r, m) /\ Shows(d, m, q) BY DEF Shown
  <2>2. CASE tree[d].parent[m] = r BY <1>1, <2>1, <2>2
  <2>3. CASE \E c \in Nodes : tree[d].parent[c] = r /\ Below(d, c, m)
    <3>1. PICK c \in Nodes : tree[d].parent[c] = r /\ Below(d, c, m) BY <2>3
    <3>2. Below(d, r, c) BY <3>1, BelowParent
    <3>3. c \in L BY <1>1, <3>1, <3>2 DEF Shown
    <3>4. ASSUME NEW n \in Nodes, Below(d, c, n), Below(d, n, m) PROVE Shows(d, n, q)
      <4>1. Below(d, r, n) BY <3>1, <3>2, <3>4, BelowIsTransitive
      <4> QED BY <3>4, <4>1 DEF Shown
    <3>5. m \in Shown(d, c, q) BY <2>1, <3>1, <3>4 DEF Shown
    <3> QED BY <3>3, <3>5
  <2> QED BY <2>1, <2>2, <2>3, BelowFromTop
<1> QED BY <1>2, <1>3, <1>4 DEF L

(* The recursion of getNode, which has one solution: the tree has an end.  *)
Nest(d, q, under) ==
  [m \in Nodes |-> LET cs == Inner(d, m, q) IN cs \cup UNION {under[c] : c \in cs}]

LEMMA NestOnce ==
  ASSUME NEW d, Grown(d), NEW q, NEW f, NEW g, f = Nest(d, q, f), g = Nest(d, q, g)
  PROVE  f = g
<1>1. DOMAIN f = Nodes /\ DOMAIN g = Nodes BY DEF Nest
<1> DEFINE D == {m \in Nodes : f[m] # g[m]}
<1>2. ASSUME NEW m \in D PROVE \E c \in D : tree[d].parent[c] = m
  <2>1. f[m] = Inner(d, m, q) \cup UNION {f[c] : c \in Inner(d, m, q)} BY DEF Nest
  <2>2. g[m] = Inner(d, m, q) \cup UNION {g[c] : c \in Inner(d, m, q)} BY DEF Nest
  <2>3. PICK c \in Inner(d, m, q) : f[c] # g[c] BY <2>1, <2>2
  <2> QED BY <2>3, ListedIs
<1>3. D = {}
  <2> SUFFICES ASSUME D # {} PROVE FALSE OBVIOUS
  <2>1. D \in SUBSET Nodes OBVIOUS
  <2>2. PICK m \in D : \A c \in D : tree[d].parent[c] # m
    <3> HIDE DEF D
    <3> QED BY <2>1 DEF Grown, IsTree
  <2> QED BY <1>2, <2>2
<1>4. f = [m \in Nodes |-> f[m]] /\ g = [m \in Nodes |-> g[m]] BY DEF Nest
<1> QED BY <1>3, <1>4

LEMMA NestIs ==
  ASSUME NEW d, Grown(d), NEW q
  PROVE  (CHOOSE f : f = Nest(d, q, f))
           = [m \in Nodes |-> IF q.expand THEN Shown(d, m, q) ELSE {}]
<1> DEFINE w == [m \in Nodes |-> IF q.expand THEN Shown(d, m, q) ELSE {}]
<1>1. ASSUME NEW m \in Nodes
      PROVE  w[m] = Inner(d, m, q) \cup UNION {w[c] : c \in Inner(d, m, q)}
  <2>1. Inner(d, m, q) \subseteq Nodes BY ListedIs
  <2>2. CASE q.expand
    <3>1. w[m] = Shown(d, m, q) /\ \A c \in Inner(d, m, q) : w[c] = Shown(d, c, q)
      BY <2>1, <2>2
    <3> HIDE DEF w
    <3>2. UNION {w[c] : c \in Inner(d, m, q)}
            = UNION {Shown(d, c, q) : c \in Inner(d, m, q)}
      BY <3>1
    <3> QED BY <2>2, <3>1, <3>2, ShownUnfolds
  <2>3. CASE ~q.expand
    <3>1. Inner(d, m, q) = {} BY <2>3, ListedIs
    <3> QED BY <2>3, <3>1
  <2> QED BY <2>2, <2>3
<1>2. w = Nest(d, q, w)
  <2>1. w = [m \in Nodes |-> w[m]] OBVIOUS
  <2> HIDE DEF w
  <2> QED BY <1>1, <2>1 DEF Nest
<1> HIDE DEF w
<1>3. LET u == CHOOSE f : f = Nest(d, q, f) IN u = Nest(d, q, u) BY <1>2
<1>4. (CHOOSE f : f = Nest(d, q, f)) = w BY <1>2, <1>3, NestOnce
<1> QED BY <1>4 DEF w

(* What is asked for below r: its children, or all below, of what is shown *)
(* with all in between.                                                    *)
LEMMA GetNodeIs ==
  ASSUME NEW d, Grown(d), NEW q, NEW r \in Nodes
  PROVE  GetNode(d, r, q) = {m \in Shown(d, r, q) : q.expand \/ tree[d].parent[m] = r}
<1> DEFINE tops == Outer(d, r, q)
           u == CHOOSE f : f = Nest(d, q, f)
<1>1. GetNode(d, r, q) = tops \cup UNION {u[c] : c \in tops} BY DEF GetNode, Nest, Outer, Inner
<1>2. tops = {c \in Nodes : tree[d].parent[c] = r /\ Shows(d, c, q)} BY ListedIs
<1>3. u = [m \in Nodes |-> IF q.expand THEN Shown(d, m, q) ELSE {}] BY NestIs
<1> HIDE DEF tops, u
<1>4. CASE q.expand
  <2>1. tops = Inner(d, r, q) BY <1>4, <1>2, ListedIs
  <2>2. \A c \in tops : u[c] = Shown(d, c, q) BY <1>2, <1>3, <1>4
  <2>3. UNION {u[c] : c \in tops} = UNION {Shown(d, c, q) : c \in tops} BY <2>2
  <2>4. GetNode(d, r, q) = Shown(d, r, q) BY <1>1, <1>4, <2>1, <2>3, ShownUnfolds
  <2> QED BY <1>4, <2>4
<1>5. CASE ~q.expand
  <2>1. \A c \in tops : u[c] = {} BY <1>2, <1>3, <1>5
  <2>2. GetNode(d, r, q) = tops BY <1>1, <2>1
  <2>3. ASSUME NEW m \in tops PROVE m \in Shown(d, r, q)
    <3>1. m \in Nodes /\ tree[d].parent[m] = r /\ Shows(d, m, q) BY <1>2
    <3>2. Below(d, r, m) BY <3>1, BelowParent
    <3>3. ASSUME NEW n \in Nodes, Below(d, r, n), Below(d, n, m) PROVE FALSE
      <4>1. n = r \/ Below(d, n, r) BY <3>1, <3>3, BelowUnfolds
      <4> QED BY <3>3, <4>1, BelowIsTransitive, BelowNotItself
    <3> QED BY <3>1, <3>2, <3>3 DEF Shown
  <2> QED BY <1>2, <1>5, <2>2, <2>3 DEF Shown
<1> QED BY <1>4, <1>5

-----------------------------------------------------------------------------
(* What links lead to.                                                     *)

Links(d) == [m \in Nodes |-> NodesWith(d, tree[d].link[m])]

LEMMA ReachedIs ==
  ASSUME NEW d, tree[d] \in Trees
  PROVE  /\ Links(d) \in [Nodes -> SUBSET Nodes]
         /\ \A m \in Nodes : Links(d)[m] = NodesWith(d, tree[d].link[m])
         /\ \A m \in Nodes : Reached(d, m) = After(Links(d), m)
         /\ \A m \in Nodes : m \notin Aliases(d) => NodesWith(d, tree[d].link[m]) = {}
<1>1. \A m \in Nodes : m \notin Aliases(d) => NodesWith(d, tree[d].link[m]) = {}
  BY ContentAssumption DEF Trees, Aliases, NodesWith
<1> QED BY <1>1 DEF Links, Reached, NodesWith

LEMMA TargetOfPlain ==
  ASSUME NEW d, tree[d] \in Trees, NEW m \in Nodes, m \notin Aliases(d)
  PROVE  Targets(d, m) = {m}
<1>1. Reached(d, m) = {} BY ReachedIs, AfterUnfolds
<1> QED BY <1>1 DEF Targets

LEMMA TargetOfAlias ==
  ASSUME NEW d, tree[d] \in Trees, NEW m \in Aliases(d), NEW t \in Nodes,
         NodesWith(d, tree[d].link[m]) = {t}
  PROVE  Targets(d, m) = Targets(d, t)
<1>0. m \in Nodes BY DEF Aliases
<1>1. Reached(d, m) = {t} \cup UNION {Reached(d, x) : x \in {t}}
  <2>1. After(Links(d), m) = {t} \cup UNION {After(Links(d), x) : x \in {t}}
    BY <1>0, ReachedIs, AfterUnfolds
  <2> QED BY <1>0, <2>1, ReachedIs
<1>2. Reached(d, m) = {t} \cup Reached(d, t) BY <1>1
<1> QED BY <1>2 DEF Targets

(* In a dimension that is served an id stands for one node.                *)
LEMMA OneWithId ==
  ASSUME NEW d, Unique(d), NEW i, NEW t \in NodesWith(d, i)
  PROVE  NodesWith(d, i) = {t}
BY DEF Unique, NodesWith

-----------------------------------------------------------------------------
(* getURIForNode, level by level from the last one.                        *)

LEMMA FromZero ==
  ASSUME NEW S \in SUBSET Nat, 0 \in S, \A k \in S : k + 1 \in S
  PROVE  \A k \in Nat : k \in S
<1> SUFFICES ASSUME Nat \ S # {} PROVE FALSE OBVIOUS
<1>1. PICK k \in Nat \ S : \A j \in Nat \ S : ~(<<j, k>> \in OpToRel(<, Nat))
  <2> DEFINE T == Nat \ S
  <2>1. T \subseteq Nat /\ T # {} OBVIOUS
  <2> HIDE DEF T
  <2>2. \E k \in T : \A j \in T : ~(<<j, k>> \in OpToRel(<, Nat))
    BY <2>1, NatLessThanWellFounded, WFMin
  <2> QED BY <2>2 DEF T
<1>2. k - 1 \in Nat /\ k - 1 < k /\ k = (k - 1) + 1
  <2>1. k # 0 /\ k \in Nat OBVIOUS
  <2> QED BY <2>1
<1>3. <<k - 1, k>> \in OpToRel(<, Nat) BY <1>1, <1>2 DEF OpToRel
<1> QED BY <1>1, <1>2, <1>3

Row(d, level, at) ==
  [m \in Nodes |->
     IF m \notin Aliases(d) THEN uri[d][m]
     ELSE IF level > MaxLevel \/ NodesWith(d, tree[d].link[m]) = {} THEN NoURI
     ELSE at[level + 1][CHOOSE t \in NodesWith(d, tree[d].link[m]) : TRUE]]

Rows(d, at) == [level \in 0 .. MaxLevel + 1 |-> Row(d, level, at)]

LEMMA RowsExist ==
  ASSUME NEW d
  PROVE  \E at : at = Rows(d, at)
<1> DEFINE Last == MaxLevel + 1
           From(k, at) == at = [level \in (Last - k) .. Last |-> Row(d, level, at)]
           S == {k \in Nat : k <= Last => \E at : From(k, at)}
<1>0. MaxLevel \in Nat /\ Last \in Nat BY ContentAssumption
<1>1. 0 \in S
  <2> DEFINE none == [level \in {} |-> NoURI]
             at == [level \in (Last - 0) .. Last |-> Row(d, level, none)]
  <2>1. \A level \in (Last - 0) .. Last : level > MaxLevel BY <1>0
  <2>2. \A level \in (Last - 0) .. Last : Row(d, level, at) = Row(d, level, none)
    <3> HIDE DEF at, none
    <3> QED BY <2>1 DEF Row
  <2>3. From(0, at) BY <2>2
  <2> QED BY <2>3
<1>2. ASSUME NEW k \in S PROVE k + 1 \in S
  <2> SUFFICES ASSUME k + 1 <= Last PROVE \E at : From(k + 1, at) OBVIOUS
  <2>1. k \in Nat /\ k <= Last BY <1>0
  <2>2. PICK f : From(k, f) BY <2>1
  <2> DEFINE first == Last - (k + 1)
             g == [level \in first .. Last |-> IF level = first THEN Row(d, level, f) ELSE f[level]]
  <2>3. first \in Nat /\ first < Last /\ Last - k = first + 1 /\ first <= MaxLevel BY <1>0, <2>1
  <2>4. \A level \in (first + 1) .. Last : f[level] = Row(d, level, f)
    <3>1. f = [level \in (first + 1) .. Last |-> Row(d, level, f)] BY <2>2, <2>3
    <3> HIDE DEF first, Last
    <3> QED BY <3>1
  <2> HIDE DEF From, S
  <2>5. \A level \in (first + 1) .. Last : g[level] = f[level]
    <3> HIDE DEF first, Last
    <3> QED BY <1>0, <2>3
  <2>6. ASSUME NEW level \in first .. Last PROVE Row(d, level, f) = Row(d, level, g)
    <3>1. level \in Nat /\ (level > MaxLevel \/ level + 1 \in (first + 1) .. Last) BY <1>0, <2>3
    <3>2. level > MaxLevel \/ g[level + 1] = f[level + 1] BY <2>5, <3>1
    <3> HIDE DEF g, first, Last
    <3> QED BY <3>2 DEF Row
  <2>7. ASSUME NEW level \in first .. Last PROVE g[level] = Row(d, level, g)
    <3>1. CASE level = first BY <2>6, <3>1
    <3>2. CASE level # first
      <4>1. level \in (first + 1) .. Last BY <1>0, <2>3, <3>2
      <4>2. g[level] = f[level] BY <2>5, <4>1
      <4>3. f[level] = Row(d, level, f) BY <2>4, <4>1
      <4>4. Row(d, level, f) = Row(d, level, g) BY <2>6
      <4> HIDE DEF g, first, Last
      <4> QED BY <4>2, <4>3, <4>4
    <3> QED BY <3>1, <3>2
  <2>8. g = [level \in first .. Last |-> g[level]] OBVIOUS
  <2>9. g = [level \in first .. Last |-> Row(d, level, g)]
    <3> HIDE DEF g, first, Last
    <3> QED BY <2>7, <2>8
  <2> HIDE DEF g
  <2>10. From(k + 1, g) BY <2>9 DEF From
  <2> QED BY <2>10
<1>3. Last \in S
  <2>1. \A k \in S : k + 1 \in S BY <1>2
  <2>2. S \in SUBSET Nat OBVIOUS
  <2> HIDE DEF S
  <2> QED BY <1>0, <1>1, <2>1, <2>2, FromZero
<1>4. PICK at : From(Last, at) BY <1>0, <1>3
<1>5. Last - Last = 0 BY <1>0
<1> QED BY <1>4, <1>5 DEF Rows

(* A URI that is found is the field of the one node that is no alias and   *)
(* that the links lead to.                                                 *)
LEMMA URIIsOfTarget ==
  ASSUME NEW d, tree[d] \in Trees, Unique(d), NEW n \in Nodes, URIForNode(d, n) # NoURI
  PROVE  \E e \in Nodes \ Aliases(d) : Targets(d, n) = {e} /\ URIForNode(d, n) = uri[d][e]
<1> DEFINE at == CHOOSE f : f = Rows(d, f)
           Last == MaxLevel + 1
           Good(level, m) ==
             at[level][m] # NoURI =>
               \E e \in Nodes \ Aliases(d) : Targets(d, m) = {e} /\ at[level][m] = uri[d][e]
           S == {k \in Nat : k <= Last => \A m \in Nodes : Good(Last - k, m)}
<1>0. MaxLevel \in Nat /\ Last \in Nat BY ContentAssumption
<1>1. URIForNode(d, n) = at[0][n] BY DEF URIForNode, Rows, Row
<1>2. at = Rows(d, at) BY RowsExist
<1> HIDE DEF at
<1>3. ASSUME NEW level \in 0 .. Last, NEW m \in Nodes, m \notin Aliases(d) PROVE Good(level, m)
  <2>1. at[level][m] = uri[d][m] BY <1>2, <1>3 DEF Rows, Row
  <2>2. Targets(d, m) = {m} BY <1>3, TargetOfPlain
  <2> QED BY <1>3, <2>1, <2>2
<1>4. ASSUME NEW level \in 0 .. Last, NEW m \in Aliases(d), at[level][m] # NoURI
      PROVE  /\ level <= MaxLevel
             /\ \E t \in Nodes : Targets(d, m) = Targets(d, t) /\ at[level][m] = at[level + 1][t]
  <2>0. m \in Nodes BY DEF Aliases
  <2>1. /\ ~(level > MaxLevel) /\ NodesWith(d, tree[d].link[m]) # {}
        /\ at[level][m] = at[level + 1][CHOOSE t \in NodesWith(d, tree[d].link[m]) : TRUE]
    <3>1. at[level] = Row(d, level, at) BY <1>2 DEF Rows
    <3>2. at[level][m] # NoURI /\ m \in Aliases(d) BY <1>4
    <3> QED BY <2>0, <3>1, <3>2 DEF Row
  <2>2. PICK t \in NodesWith(d, tree[d].link[m]) :
          t = CHOOSE x \in NodesWith(d, tree[d].link[m]) : TRUE
    BY <2>1
  <2>3. t \in Nodes BY DEF NodesWith
  <2>4. Targets(d, m) = Targets(d, t) BY <2>3, OneWithId, TargetOfAlias
  <2>5. level <= MaxLevel BY <1>0, <2>1
  <2> QED BY <2>1, <2>2, <2>3, <2>4, <2>5
<1>5. 0 \in S
  <2>1. Last - 0 = Last /\ Last \in 0 .. Last /\ ~(Last <= MaxLevel) BY <1>0
  <2> HIDE DEF Last
  <2>2. \A m \in Nodes : Good(Last, m) BY <1>3, <1>4, <2>1
  <2> HIDE DEF Good
  <2> QED BY <2>1, <2>2
<1>6. ASSUME NEW k \in S PROVE k + 1 \in S
  <2> SUFFICES ASSUME k + 1 <= Last, NEW m \in Nodes PROVE Good(Last - (k + 1), m) OBVIOUS
  <2> DEFINE level == Last - (k + 1)
  <2>1. k \in Nat /\ k <= Last /\ level \in 0 .. Last /\ level + 1 = Last - k BY <1>0
  <2>2. \A x \in Nodes : Good(level + 1, x) BY <2>1
  <2> HIDE DEF level
  <2>3. Good(level, m) BY <1>3, <1>4, <2>1, <2>2
  <2> QED BY <2>3 DEF level
<1>7. Last \in S
  <2>1. \A k \in S : k + 1 \in S BY <1>6
  <2>2. S \in SUBSET Nat OBVIOUS
  <2> HIDE DEF S
  <2> QED BY <1>0, <1>5, <2>1, <2>2, FromZero
<1>8. Good(0, n)
  <2>1. Last - Last = 0 /\ Last <= Last BY <1>0
  <2> HIDE DEF Last, Good
  <2> QED BY <1>7, <2>1
<1> QED BY <1>1, <1>8
=============================================================================
