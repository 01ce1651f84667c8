------------------------------ MODULE Content -------------------------------
(***************************************************************************)
(* The content trees: what _updateDimension makes of the tree of each      *)
(* dimension, and what GetContent, GetURIs and GetNodes answer from them.  *)
(*                                                                         *)
(* A tree is a record of functions on its positions, Nodes; Root is its    *)
(* root.  A URI is the sequence of its segments, "/" the empty one; NoURI  *)
(* is the empty string.  Name, mime type, path and data fields are left    *)
(* out: they are copied into answers and decide nothing but one more       *)
(* filter.                                                                 *)
(*                                                                         *)
(* Answers are given from a directory at rest; what races with updates is  *)
(* the subject of Serving.  Who asks, and how, is that of Api.             *)
(***************************************************************************)
EXTENDS Naturals, Sequences, FiniteSets

CONSTANTS
  Dimensions,
  Nodes, Root,   \* positions in a tree
  Ids,           \* values of id, linkId and destinationId
  URIs,          \* sequences of segments
  Groups,
  Exports,       \* what may be loaded: a tree for each dimension
  Requests,      \* requests for content, with one for nodes, or for uris
  NoURI, None,
  MaxLevel       \* maxGetURIForNodeRecursionLevel

Trees ==
  [parent : [Nodes -> Nodes \cup {None}], id : [Nodes -> Ids],
   uri : [Nodes -> URIs \cup {NoURI}], link : [Nodes -> Ids \cup {None}],
   dest : [Nodes -> Ids \cup {None}], hidden : SUBSET Nodes,
   groups : [Nodes -> SUBSET Groups],
   unlisted : SUBSET Nodes,   \* not in the index of their parent
   dangling : SUBSET Nodes]   \* their index names a child they do not have

(* A request is what its JSON holds.  Without an env, or with a field left *)
(* out of a node request, that is a nil pointer or an empty string; beside *)
(* the node request described here, another may be null.                   *)
RequestsOf ==
  [uri : URIs \cup {NoURI},
   env : [dims : Seq(Dimensions \cup {None}), groups : SUBSET Groups] \cup {None},
   root : Ids \cup {None}, dim : Dimensions \cup {None}, groups : SUBSET Groups,
   expand : BOOLEAN, exposeHidden : BOOLEAN, null : BOOLEAN]

(* What is decoded from JSON is a tree: on every way down there is an end. *)
IsTree(parent) ==
  /\ \A n \in Nodes : parent[n] = None <=> n = Root
  /\ \A S \in SUBSET Nodes : S # {} => \E n \in S : \A m \in S : parent[m] # n

ASSUME ContentAssumption ==
  /\ Root \in Nodes
  /\ None \notin Nodes \cup Ids \cup Dimensions /\ NoURI \notin URIs
  /\ MaxLevel \in Nat
  /\ Exports \subseteq [Dimensions -> Trees] /\ Requests \subseteq RequestsOf
  /\ URIs \subseteq Seq(STRING)
  /\ \A x \in Exports : \A d \in Dimensions : IsTree(x[d].parent)

VARIABLES
  tree,          \* Dimension.Node of each dimension, as exported
  uri,           \* the URI field of its nodes
  pending,       \* the dimensions that have not been built yet
  loading,       \* the dimension wireAliases works on
  unwired,       \* its aliases that have not been visited
  directory,     \* the dimensions that are served
  reply          \* the answer of GetContent, GetNodes or GetURIs

vars == <<tree, uri, pending, loading, unwired, directory, reply>>

Init ==
  /\ tree \in Exports
  /\ uri = [d \in Dimensions |-> tree[d].uri]
  /\ pending = Dimensions /\ loading = None /\ unwired = {}
  /\ directory = {} /\ reply = None

-----------------------------------------------------------------------------
(* buildDirectory and wireAliases.                                         *)

NodesWith(d, id) == {n \in Nodes : tree[d].id[n] = id}
Aliases(d) == {n \in Nodes : tree[d].link[n] # None}

Unique(d) ==
  \A m, n \in Nodes : m # n =>
    tree[d].id[m] # tree[d].id[n] /\ tree[d].uri[m] # tree[d].uri[n]

Build(d) ==
  /\ d \in pending /\ loading = None
  /\ pending' = pending \ {d}
  /\ IF Unique(d) THEN loading' = d /\ unwired' = Aliases(d)
                  ELSE UNCHANGED <<loading, unwired>>
  /\ UNCHANGED <<tree, uri, directory, reply>>

(* Faulty: a dead link is skipped.                                         *)
WireAliasOrNot(n) ==
  /\ n \in unwired
  /\ LET there == NodesWith(loading, tree[loading].link[n])
     IN uri' = [uri EXCEPT ![loading][n] =
                  IF there = {} THEN @ ELSE uri[loading][CHOOSE m \in there : TRUE]]
  /\ unwired' = unwired \ {n}
  /\ UNCHANGED <<tree, pending, loading, directory, reply>>

(* Aliases are visited in the order of a map; the destination of one may   *)
(* be an alias that has been visited, or not yet.                          *)
WireAlias(n) ==
  /\ n \in unwired
  /\ LET there == NodesWith(loading, tree[loading].link[n]) IN
       IF there = {}
         THEN loading' = None /\ unwired' = {} /\ UNCHANGED uri
         ELSE /\ \E m \in there : uri' = [uri EXCEPT ![loading][n] = uri[loading][m]]
              /\ unwired' = unwired \ {n}
              /\ UNCHANGED loading
  /\ UNCHANGED <<tree, pending, directory, reply>>

Publish ==
  /\ loading # None /\ unwired = {}
  /\ directory' = directory \cup {loading}
  /\ loading' = None
  /\ UNCHANGED <<tree, uri, pending, unwired, reply>>

-----------------------------------------------------------------------------
(* getURI and getURIForNode.                                               *)

(* Faulty: the alias' own field is used.                                   *)
FieldOf(d, n) == uri[d][n]

URIForNode(d, n) ==
  LET at[level \in 0 .. MaxLevel + 1] ==
        [m \in Nodes |->
           IF m \notin Aliases(d) THEN uri[d][m]
           ELSE IF level > MaxLevel \/ NodesWith(d, tree[d].link[m]) = {} THEN NoURI
           ELSE at[level + 1][CHOOSE t \in NodesWith(d, tree[d].link[m]) : TRUE]]
  IN at[0][n]

GetURI(d, id) ==
  IF d \in directory /\ NodesWith(d, id) # {}
    THEN URIForNode(d, CHOOSE n \in NodesWith(d, id) : TRUE)
    ELSE NoURI

-----------------------------------------------------------------------------
(* resolveContent: the longest prefix of the URI that a dimension knows,   *)
(* the dimensions in their order, then the destination of its node.  The   *)
(* URI directory was built from the URIs as exported.                      *)

Prefix(u, k) == SubSeq(u, 1, k)

Known(d, u) == {n \in Nodes : d \in directory /\ tree[d].uri[n] = u}

(* The pairs of a prefix' length and a dimension's index that lead to a    *)
(* node, and those of them that no other comes before.                     *)
Found(dims, u) ==
  {p \in (0 .. Len(u)) \X DOMAIN dims : Known(dims[p[2]], Prefix(u, p[1])) # {}}
First(ps) ==
  {p \in ps : \A q \in ps : p[1] > q[1] \/ (p[1] = q[1] /\ p[2] <= q[2])}

Destination(d, n) ==
  LET there == NodesWith(d, tree[d].dest[n])
  IN IF there = {} THEN n ELSE CHOOSE m \in there : TRUE

-----------------------------------------------------------------------------
(* getNodes and getNode: the positions of the answer below the node that   *)
(* was asked for.  Nobody gives getNode a path, so what is not expanded    *)
(* ends with the children of that node.                                    *)

CanBeAccessed(d, n, groups) ==
  tree[d].groups[n] = {} \/ tree[d].groups[n] \cap groups # {}

Asked(q) == IF q.groups # {} THEN q.groups ELSE q.env.groups

(* Faulty: a hidden node is only left out, its children are not.           *)
VisibleOrFolder(d, n, q, top) ==
  (n \notin tree[d].hidden \/ q.exposeHidden \/ ~top) /\ CanBeAccessed(d, n, Asked(q))

Visible(d, n, q, top) ==
  (n \notin tree[d].hidden \/ q.exposeHidden) /\ CanBeAccessed(d, n, Asked(q))

Listed(d, n, q, top) ==
  {c \in Nodes \ tree[d].unlisted :
     tree[d].parent[c] = n /\ (top \/ q.expand) /\ Visible(d, c, q, top)}

GetNode(d, n, q) ==
  LET under[m \in Nodes] ==
        LET cs == Listed(d, m, q, FALSE) IN cs \cup UNION {under[c] : c \in cs}
      tops == Listed(d, n, q, TRUE)
  IN tops \cup UNION {under[c] : c \in tops}

MenuRoots(d, q) == IF d \in directory THEN NodesWith(d, q.root) ELSE {}

Menu(d, q) == UNION {GetNode(d, n, q) : n \in MenuRoots(d, q)}

(* Each node that is shown has its index read, to the end.                 *)
NilChild(d, q) ==
  \E n \in MenuRoots(d, q) : ({n} \cup GetNode(d, n, q)) \cap tree[d].dangling # {}

-----------------------------------------------------------------------------
(* GetContent, GetNodes and GetURIs.                                       *)

Answer(status, q) ==
  [status |-> status, request |-> q, uris |-> {}, menu |-> None, nodes |-> {}]
Panicked(q) == Answer("panic", q)

Invalid(q) ==
  \/ q.uri = NoURI \/ q.env = None
  \/ q.env.dims = <<>> \/ \E i \in DOMAIN q.env.dims : q.env.dims[i] \notin directory

(* The answer with the nodes asked for, from the dimension the request     *)
(* names, or from default.  Each node request is looked at, null or not.   *)
WithNodes(answer, default, q) ==
  LET d == IF q.dim = None THEN default ELSE q.dim
  IN IF q.null \/ NilChild(d, q) THEN Panicked(q)
     ELSE [answer EXCEPT !.menu = d, !.nodes = Menu(d, q)]

Resolved(q) ==
  LET p == CHOOSE p \in First(Found(q.env.dims, q.uri)) : TRUE
      d == q.env.dims[p[2]]
      n == Destination(d, CHOOSE m \in Known(d, Prefix(q.uri, p[1])) : TRUE)
      id == tree[d].id[n]
      status == IF CanBeAccessed(d, n, q.env.groups) THEN "ok" ELSE "forbidden"
  IN WithNodes([Answer(status, q) EXCEPT !.uris = {<<e, id, GetURI(e, id)>> : e \in directory}],
               d, q)

NotFound(q) == WithNodes(Answer("not found", q), q.env.dims[1], q)

ContentOf(q) ==
  IF Invalid(q) THEN Answer("error", q)
  ELSE IF Found(q.env.dims, q.uri) = {} THEN NotFound(q) ELSE Resolved(q)

(* Asked for without a dimension, nodes come from the first dimension of   *)
(* the environment that is served.                                         *)
NodesOf(q) ==
  IF q.null \/ (q.root # None /\ q.env = None) THEN Panicked(q)
  ELSE IF q.root = None THEN Answer("nodes", q)
  ELSE LET served == {i \in DOMAIN q.env.dims : q.env.dims[i] \in directory}
           default == IF served = {} THEN None
                      ELSE q.env.dims[CHOOSE i \in served : \A j \in served : i <= j]
       IN WithNodes(Answer("nodes", q), default, q)

URIsOf(q) == [Answer("uris", q) EXCEPT !.uris = {<<q.dim, id, GetURI(q.dim, id)>> : id \in Ids}]

Answering == pending = {} /\ loading = None /\ reply = None

Sent ==
  /\ reply # None
  /\ reply' = None
  /\ UNCHANGED <<tree, uri, pending, loading, unwired, directory>>

Load ==
  \/ \E d \in Dimensions : Build(d)
  \/ \E n \in Nodes : WireAlias(n)
  \/ Publish

-----------------------------------------------------------------------------
(* The nodes behind n, when succ says which are next.                      *)
After(succ, n) ==
  {m \in Nodes : \A S \in SUBSET Nodes :
     (\A x \in {n} \cup S : succ[x] \subseteq S) => m \in S}

(* The nodes an alias leads to, over one link or more, and those among     *)
(* them, or n itself, that are no alias: none if it leads around in        *)
(* circles.                                                                *)
Reached(d, n) == After([m \in Nodes |-> NodesWith(d, tree[d].link[m])], n)

Targets(d, n) == ({n} \cup Reached(d, n)) \ Aliases(d)

(* The URIs handed out, with content or by themselves, lead back: asked    *)
(* for one of them, the server answers with the node the id stands for,    *)
(* aliases followed, or with that node's destination.  It relates two      *)
(* indexes built before, and the URI fields written by, wireAliases        *)
(* (buildDirectory, getURIForNode, resolveContent).                        *)
URIsLeadBack ==
  reply # None => \A h \in reply.uris :
    h[3] # NoURI =>
      \E n \in NodesWith(h[1], h[2]) :
        LET p == CHOOSE p \in First(Found(<<h[1]>>, h[3])) : TRUE
        IN p[1] = Len(h[3]) /\ Known(h[1], h[3]) = Targets(h[1], n)

(* Links are not dead in what is served, and whatever order the map of     *)
(* aliases was visited in, the URI an alias ends up with is one that a     *)
(* node it leads to was exported with (wireAliases).                       *)
AliasURIs ==
  \A d \in directory : \A n \in Aliases(d) :
    \E m \in Reached(d, n) : uri[d][n] = tree[d].uri[m]

Below(d, n, m) == n \in After([x \in Nodes |-> {tree[d].parent[x]} \ {None}], m)

(* "Hidden nodes can be resolved by their uri, but are hidden on nodes"    *)
(* (README.md 50), and their subtrees with them: what is listed below a    *)
(* node is what can be reached from it over visible nodes their parents    *)
(* list (getNode).                                                         *)
MenuIsReachable ==
  reply # None =>
    LET d == reply.menu
        q == reply.request
        Shows(n) == /\ n \notin tree[d].unlisted
                    /\ n \notin tree[d].hidden \/ q.exposeHidden
                    /\ CanBeAccessed(d, n, Asked(q))
    IN reply.nodes =
         {m \in Nodes : d \in directory /\ \E r \in NodesWith(d, q.root) :
            /\ Below(d, r, m)
            /\ q.expand \/ tree[d].parent[m] = r
            /\ Shows(m)
            /\ \A n \in Nodes : Below(d, r, n) /\ Below(d, n, m) => Shows(n)}
=============================================================================
