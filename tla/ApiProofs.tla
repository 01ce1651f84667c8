----------------------------- MODULE ApiProofs ------------------------------
(***************************************************************************)
(* Proofs about Content and Api, for any trees, requests and dimensions.   *)
(***************************************************************************)
EXTENDS Api, ContentProofs

(* Answers depend on what has been loaded and on nothing else.             *)
LEMMA SameURIs ==
  ASSUME UNCHANGED <<tree, uri, directory>>
  PROVE  \A d, id : GetURI(d, id)' = GetURI(d, id)
BY DEF GetURI, URIForNode, Aliases, NodesWith

LEMMA SameMenu ==
  ASSUME UNCHANGED <<tree, uri, directory>>
  PROVE  \A d, q : Menu(d, q)' = Menu(d, q)
BY DEF Menu, MenuRoots, GetNode, Listed, Visible, CanBeAccessed, Asked, NodesWith

LEMMA SameNilChild ==
  ASSUME UNCHANGED <<tree, uri, directory>>
  PROVE  \A d, q : NilChild(d, q)' <=> NilChild(d, q)
BY DEF NilChild, MenuRoots, GetNode, Listed, Visible, CanBeAccessed, Asked, NodesWith

-----------------------------------------------------------------------------
(* What is being loaded is none of what waits and none of what is served;  *)
(* what is served has been found unique; answers are given when all has    *)
(* been loaded.                                                            *)
LoadInv ==
  /\ tree \in Exports
  /\ uri \in [Dimensions -> [Nodes -> URIs \cup {NoURI}]]
  /\ pending \subseteq Dimensions /\ directory \subseteq Dimensions \ pending
  /\ loading \in (Dimensions \ (pending \cup directory)) \cup {None}
  /\ loading = None => unwired = {}
  /\ loading # None => unwired \subseteq Aliases(loading) /\ Unique(loading)
  /\ \A d \in directory : Unique(d)
  /\ reply # None => pending = {} /\ loading = None

(* The URI field of a node is as exported, but for the aliases that have   *)
(* been visited: they have that of a node their links lead to.             *)
Exported(d, n) == uri[d][n] = tree[d].uri[n]
Wired(d, n) == \E m \in Reached(d, n) : uri[d][n] = tree[d].uri[m]

WiredInv ==
  /\ \A d \in Dimensions : \A n \in Nodes \ Aliases(d) : Exported(d, n)
  /\ \A d \in pending : \A n \in Nodes : Exported(d, n)
  /\ \A n \in unwired : Exported(loading, n)
  /\ \A d \in directory : \A n \in Aliases(d) : Wired(d, n)
  /\ loading # None => \A n \in Aliases(loading) \ unwired : Wired(loading, n)

(* What an answer holds was computed from the trees as they still are.     *)
Computed(a) ==
  /\ \A h \in a.uris : h[3] = GetURI(h[1], h[2])
  /\ a.nodes = Menu(a.menu, a.request)

(* The request, or what is served, makes getNodes or getNode panic.        *)
Breaks(q) == q.null \/ \E d \in directory : NilChild(d, q)

Excused(route, a) ==
  /\ a.status # "refused"
  /\ a.status = "error" => a.http = 500
  /\ a.status = "panic" =>
       \/ route = "getNodes" /\ a.request.env = None
       \/ route \in {"getNodes", "getContent"} /\ Breaks(a.request)
  /\ a.status = "garbage" => route = "getRepo"
ReplyInv ==
  /\ reply # None => Computed(reply)
  /\ Called => pending = {} /\ loading = None /\ Excused(call.route, reply)

LEMMA TreesAreTrees ==
  ASSUME tree \in Exports
  PROVE  \A d \in Dimensions : tree[d] \in Trees /\ Grown(d)
BY ContentAssumption DEF Grown

LEMMA InitLoad == ASSUME Init PROVE LoadInv /\ WiredInv
<1> USE DEF Init
<1>1. \A d \in Dimensions : tree[d].uri \in [Nodes -> URIs \cup {NoURI}]
  BY TreesAreTrees DEF Trees
<1>2. LoadInv BY <1>1, ContentAssumption DEF LoadInv
<1>3. WiredInv BY <1>1 DEF WiredInv, Exported
<1> QED BY <1>2, <1>3

(* Steps of clients and servers.                                           *)
LEMMA AskingLoadsNothing ==
  ASSUME LoadInv, WiredInv,
         UNCHANGED <<tree, uri, pending, loading, unwired, directory>>,
         reply' # None => reply # None \/ Answering
  PROVE  LoadInv' /\ WiredInv'
<1>1. LoadInv' BY DEF LoadInv, Answering, Aliases, Unique
<1>2. \A d, n : (Exported(d, n)' <=> Exported(d, n)) /\ (Wired(d, n)' <=> Wired(d, n))
  BY DEF Exported, Wired, Reached, NodesWith
<1>3. \A d : Aliases(d)' = Aliases(d) BY DEF Aliases
<1>4. WiredInv' BY <1>2, <1>3 DEF WiredInv
<1> QED BY <1>1, <1>4

LEMMA StepBuild ==
  ASSUME LoadInv, WiredInv, NEW d \in Dimensions, Build(d)
  PROVE  LoadInv' /\ WiredInv'
<1>0. UNCHANGED <<tree, uri, directory, reply>> /\ pending' = pending \ {d} /\ d \in pending
      /\ loading = None /\ unwired = {}
  BY DEF Build, LoadInv
<1>1. \A e, n : (Exported(e, n)' <=> Exported(e, n)) /\ (Wired(e, n)' <=> Wired(e, n))
  BY <1>0 DEF Exported, Wired, Reached, NodesWith
<1>2. \A e : Aliases(e)' = Aliases(e) /\ (Unique(e)' <=> Unique(e))
  BY <1>0 DEF Aliases, Unique
<1>3. CASE Unique(d)
  <2>1. loading' = d /\ unwired' = Aliases(d) BY <1>3 DEF Build
  <2>2. Unique(loading)' /\ (unwired \subseteq Aliases(loading))'
    BY <1>0, <1>3, <2>1 DEF Unique, Aliases
  <2>4. LoadInv' BY <1>0, <1>2, <2>1, <2>2, ContentAssumption DEF LoadInv
  <2>3. WiredInv' BY <1>0, <1>1, <1>2, <2>1 DEF WiredInv, Aliases
  <2> QED BY <2>3, <2>4
<1>4. CASE ~Unique(d)
  <2>1. UNCHANGED <<loading, unwired>> BY <1>4 DEF Build
  <2>2. LoadInv' BY <1>0, <1>2, <2>1 DEF LoadInv
  <2>3. WiredInv' BY <1>0, <1>1, <1>2, <2>1 DEF WiredInv
  <2> QED BY <2>2, <2>3
<1> QED BY <1>3, <1>4

LEMMA StepPublish ==
  ASSUME LoadInv, WiredInv, Publish
  PROVE  LoadInv' /\ WiredInv'
<1>0. UNCHANGED <<tree, uri, pending, unwired, reply>> /\ loading # None /\ unwired = {}
      /\ directory' = directory \cup {loading} /\ loading' = None
  BY DEF Publish
<1>1. \A e, n : (Exported(e, n)' <=> Exported(e, n)) /\ (Wired(e, n)' <=> Wired(e, n))
  BY <1>0 DEF Exported, Wired, Reached, NodesWith
<1>2. \A e : Aliases(e)' = Aliases(e) /\ (Unique(e)' <=> Unique(e))
  BY <1>0 DEF Aliases, Unique
<1>3. LoadInv' BY <1>0, <1>2 DEF LoadInv
<1>4. WiredInv' BY <1>0, <1>1, <1>2 DEF WiredInv
<1> QED BY <1>3, <1>4

(* The alias that is visited gets the URI its destination has by then: its *)
(* own as exported, if that has not been visited or is no alias, or else   *)
(* one it got from a node that is behind both.                             *)
LEMMA StepWireAlias ==
  ASSUME LoadInv, WiredInv, NEW n \in Nodes, WireAlias(n)
  PROVE  LoadInv' /\ WiredInv'
<1> DEFINE there == NodesWith(loading, tree[loading].link[n])
<1>0. UNCHANGED <<tree, pending, directory, reply>> /\ n \in unwired BY DEF WireAlias
<1>1. loading \in Dimensions /\ loading \notin directory /\ loading \notin pending
      /\ loading # None /\ n \in Aliases(loading)
  BY <1>0 DEF LoadInv
<1>2. \A e : Aliases(e)' = Aliases(e) /\ (Unique(e)' <=> Unique(e))
             /\ \A m : Reached(e, m)' = Reached(e, m)
  BY <1>0 DEF Aliases, Unique, Reached, NodesWith
<1>3. CASE there = {}
  <2>1. loading' = None /\ unwired' = {} /\ UNCHANGED uri BY <1>3 DEF WireAlias
  <2>2. \A e, m : (Exported(e, m)' <=> Exported(e, m)) /\ (Wired(e, m)' <=> Wired(e, m))
    BY <1>0, <1>2, <2>1 DEF Exported, Wired
  <2>3. LoadInv' BY <1>0, <1>2, <2>1 DEF LoadInv
  <2>4. WiredInv' BY <1>0, <1>2, <2>1, <2>2 DEF WiredInv
  <2> QED BY <2>3, <2>4
<1>4. CASE there # {}
  <2>1. unwired' = unwired \ {n} /\ UNCHANGED loading BY <1>4 DEF WireAlias
  <2>2. PICK m \in there : uri' = [uri EXCEPT ![loading][n] = uri[loading][m]]
    BY <1>4 DEF WireAlias
  <2>3. m \in Nodes BY DEF NodesWith
  <2>4. uri \in [Dimensions -> [Nodes -> URIs \cup {NoURI}]] BY DEF LoadInv
  <2>5. /\ uri' \in [Dimensions -> [Nodes -> URIs \cup {NoURI}]]
        /\ uri'[loading][n] = uri[loading][m]
        /\ \A e \in Dimensions, x \in Nodes : e # loading \/ x # n => uri'[e][x] = uri[e][x]
    BY <1>0, <1>1, <2>2, <2>3, <2>4
  <2>6. \A e \in Dimensions, x \in Nodes : e # loading \/ x # n =>
          (Exported(e, x)' <=> Exported(e, x)) /\ (Wired(e, x)' <=> Wired(e, x))
    BY <1>0, <1>2, <2>5 DEF Exported, Wired
  <2>7. Wired(loading, n)'
    <3>1. tree[loading] \in Trees BY <1>1, TreesAreTrees DEF LoadInv
    <3>2. m \in Reached(loading, n) BY <2>3, <3>1, ReachedIs, NextIsAfter
    <3>3. \A x \in Reached(loading, m) : x \in Reached(loading, n)
      BY <2>3, <3>1, <3>2, ReachedIs, AfterIsTransitive
    <3>4. \E x \in Reached(loading, n) : uri[loading][m] = tree[loading].uri[x]
      <4>1. CASE Exported(loading, m) BY <3>2, <4>1 DEF Exported
      <4>2. CASE Wired(loading, m) BY <3>3, <4>2 DEF Wired
      <4> QED BY <1>1, <2>3, <4>1, <4>2 DEF WiredInv
    <3>5. \E x \in Reached(loading, n) : uri'[loading][n] = tree'[loading].uri[x]
      BY <1>0, <2>5, <3>4
    <3> QED BY <1>0, <2>1, <3>5 DEF Wired, Reached, NodesWith
  <2>8. LoadInv' BY <1>0, <1>2, <2>1, <2>5 DEF LoadInv
  <2>9. WiredInv'
    <3>1. \A d \in Dimensions : \A x \in Nodes \ Aliases(d) : Exported(d, x)'
      BY <1>1, <2>6 DEF WiredInv
    <3>2. \A d \in pending : \A x \in Nodes : Exported(d, x)'
      BY <1>1, <2>6 DEF WiredInv, LoadInv
    <3>3. \A x \in unwired' : Exported(loading, x)'
      BY <1>1, <2>1, <2>6 DEF WiredInv, LoadInv, Aliases
    <3>4. \A d \in directory : \A x \in Aliases(d) : Wired(d, x)'
      BY <1>1, <2>6 DEF WiredInv, LoadInv, Aliases
    <3>5. \A x \in Aliases(loading) \ unwired' : Wired(loading, x)'
      BY <1>1, <2>1, <2>6, <2>7 DEF WiredInv, Aliases
    <3>6. loading' = loading /\ pending' = pending /\ directory' = directory BY <1>0, <2>1
    <3>7. \A d : Aliases(d)' = Aliases(d) BY <1>2
    <3> QED BY <3>1, <3>2, <3>3, <3>4, <3>5, <3>6, <3>7 DEF WiredInv
  <2> QED BY <2>8, <2>9
<1> QED BY <1>3, <1>4

-----------------------------------------------------------------------------
(* Answers.                                                                *)

LEMMA NoMenu ==
  ASSUME LoadInv
  PROVE  \A q : Menu(None, q) = {}
<1>1. None \notin directory BY ContentAssumption DEF LoadInv
<1> QED BY <1>1 DEF Menu, MenuRoots

LEMMA Plain ==
  ASSUME LoadInv
  PROVE  \A status, q : Computed(Answer(status, q)) /\ Answer(status, q).status = status
                        /\ Answer(status, q).request = q
BY NoMenu DEF Computed, Answer

LEMMA MenuAnswer ==
  ASSUME LoadInv, NEW status, NEW q, NEW uris, NEW answer, NEW default, NEW a,
         answer = [status |-> status, request |-> q, uris |-> uris, menu |-> None, nodes |-> {}],
         \A h \in uris : h[3] = GetURI(h[1], h[2]),
         a = WithNodes(answer, default, q)
  PROVE  /\ Computed(a) /\ a.request = q
         /\ a.status = status \/ (a.status = "panic" /\ Breaks(q))
<1> DEFINE d == IF q.dim = None THEN default ELSE q.dim
<1>1. a = IF q.null \/ NilChild(d, q) THEN Panicked(q) ELSE [answer EXCEPT !.menu = d, !.nodes = Menu(d, q)]
  BY DEF WithNodes
<1> HIDE DEF d
<1>2. CASE q.null \/ NilChild(d, q)
  <2>1. a = Answer("panic", q) BY <1>1, <1>2 DEF Panicked
  <2>2. Breaks(q) BY <1>2 DEF Breaks, NilChild, MenuRoots
  <2> QED BY <1>2, <2>1, <2>2, Plain
<1>3. CASE ~(q.null \/ NilChild(d, q))
  <2>1. a = [status |-> status, request |-> q, uris |-> uris, menu |-> d, nodes |-> Menu(d, q)]
    BY <1>1, <1>3
  <2>2. a.status = status /\ a.request = q /\ a.uris = uris /\ a.menu = d /\ a.nodes = Menu(d, q)
    BY <2>1
  <2>3. Computed(a) BY <2>2 DEF Computed
  <2> QED BY <2>2, <2>3
<1> QED BY <1>2, <1>3

LEMMA ContentIsComputed ==
  ASSUME LoadInv, NEW q, NEW a, a = ContentOf(q)
  PROVE  /\ Computed(a) /\ a.request = q
         /\ \/ a.status \in {"error", "not found", "ok", "forbidden"}
            \/ a.status = "panic" /\ Breaks(q)
<1>1. CASE Invalid(q) BY <1>1, Plain DEF ContentOf
<1>2. CASE ~Invalid(q) /\ Found(q.env.dims, q.uri) = {}
  <2> DEFINE first == q.env.dims[1]
             status == "not found"
             answer == Answer(status, q)
             uris == {}
  <2>1. a = WithNodes(answer, first, q) BY <1>2 DEF ContentOf, NotFound
  <2>2. answer =
          [status |-> status, request |-> q, uris |-> uris, menu |-> None, nodes |-> {}]
    BY DEF Answer
  <2>4. \A h \in uris : h[3] = GetURI(h[1], h[2]) OBVIOUS
  <2> HIDE DEF first, answer, uris, status
  <2>3. /\ Computed(a) /\ a.request = q
        /\ a.status = status \/ (a.status = "panic" /\ Breaks(q))
    BY <2>1, <2>2, <2>4, MenuAnswer
  <2> QED BY <2>3 DEF status
<1>3. CASE ~Invalid(q) /\ Found(q.env.dims, q.uri) # {}
  <2>1. a = Resolved(q) BY <1>3 DEF ContentOf
  <2> DEFINE p == CHOOSE p \in First(Found(q.env.dims, q.uri)) : TRUE
             d == q.env.dims[p[2]]
             n == Destination(d, CHOOSE m \in Known(d, Prefix(q.uri, p[1])) : TRUE)
             id == tree[d].id[n]
             status == IF CanBeAccessed(d, n, q.env.groups) THEN "ok" ELSE "forbidden"
             uris == {<<e, id, GetURI(e, id)>> : e \in directory}
  <2>7. \A i : \A h \in {<<e, i, GetURI(e, i)>> : e \in directory} : h[3] = GetURI(h[1], h[2])
    OBVIOUS
  <2>2. a = WithNodes([Answer(status, q) EXCEPT !.uris = uris], d, q) BY <2>1 DEF Resolved
  <2>6. status \in {"ok", "forbidden"} OBVIOUS
  <2>3. \A h \in uris : h[3] = GetURI(h[1], h[2])
    <3> HIDE DEF id
    <3> QED BY <2>7
  <2> HIDE DEF uris, status, d
  <2>4. [Answer(status, q) EXCEPT !.uris = uris]
          = [status |-> status, request |-> q, uris |-> uris, menu |-> None, nodes |-> {}]
    BY DEF Answer
  <2>5. /\ Computed(a) /\ a.request = q
        /\ a.status = status \/ (a.status = "panic" /\ Breaks(q))
    BY <2>2, <2>3, <2>4, MenuAnswer
  <2> QED BY <2>5, <2>6
<1> QED BY <1>1, <1>2, <1>3

LEMMA NodesAreComputed ==
  ASSUME LoadInv, NEW q, NEW a, a = NodesOf(q)
  PROVE  /\ Computed(a) /\ a.request = q
         /\ \/ a.status = "nodes"
            \/ a.status = "panic" /\ (q.env = None \/ Breaks(q))
<1>1. CASE q.null \/ (q.root # None /\ q.env = None)
  BY <1>1, Plain DEF NodesOf, Panicked, Breaks
<1>2. CASE ~q.null /\ q.root = None BY <1>2, Plain DEF NodesOf
<1>3. CASE ~q.null /\ q.root # None /\ q.env # None
  <2>1. PICK default : a = WithNodes(Answer("nodes", q), default, q) BY <1>3 DEF NodesOf
  <2>2. Answer("nodes", q) =
          [status |-> "nodes", request |-> q, uris |-> {}, menu |-> None, nodes |-> {}]
    BY DEF Answer
  <2> QED BY <2>1, <2>2, MenuAnswer
<1> QED BY <1>1, <1>2, <1>3

LEMMA URIsAreComputed ==
  ASSUME LoadInv, NEW q, NEW a, a = URIsOf(q)
  PROVE  Computed(a) /\ a.request = q /\ a.status = "uris"
<1> DEFINE uris == {<<q.dim, id, GetURI(q.dim, id)>> : id \in Ids}
<1>1. a = [status |-> "uris", request |-> q, uris |-> uris, menu |-> None, nodes |-> {}]
  BY DEF URIsOf, Answer
<1>2. \A h \in uris : h[3] = GetURI(h[1], h[2]) OBVIOUS
<1> HIDE DEF uris
<1> QED BY <1>1, <1>2, NoMenu DEF Computed

LEMMA ErrorsAreComputed ==
  ASSUME LoadInv, NEW q, NEW code, NEW a, a = NewError(code, q)
  PROVE  Computed(a) /\ a.request = q /\ a.status = "error" /\ a.http = 500
<1>1. a.uris = {} /\ a.nodes = {} /\ a.menu = None /\ a.request = q /\ a.status = "error" /\ a.http = 500
  BY DEF NewError
<1> QED BY <1>1, NoMenu DEF Computed

LEMMA ExecuteRequestAnswers ==
  ASSUME LoadInv, NEW route, NEW form, NEW q, NEW a \in ExecuteRequest(route, form, q)
  PROVE  Computed(a) /\ (form # "null" => Excused(route, a))
<1>1. CASE \E code : a = NewError(code, q) BY <1>1, ErrorsAreComputed DEF Excused
<1>2. CASE \E status \in {"repo", "updated", "not updated"} : a = Answer(status, q)
  <2>1. PICK status \in {"repo", "updated", "not updated"} : a = Answer(status, q) BY <1>2
  <2>2. Computed(a) /\ a.status = status BY <2>1, Plain
  <2> QED BY <2>2 DEF Excused
<1>3. CASE route = "getRepo" /\ \E status \in {"other", "garbage"} : a = Answer(status, q)
  <2>1. PICK status \in {"other", "garbage"} : a = Answer(status, q) BY <1>3
  <2>2. Computed(a) /\ a.status = status BY <2>1, Plain
  <2> QED BY <1>3, <2>2 DEF Excused
<1>4. CASE form = "null" /\ a = Answer("panic", q) BY <1>4, Plain
<1>5. CASE route = "getURIs" /\ a = URIsOf(q) BY <1>5, URIsAreComputed DEF Excused
<1>6. CASE route = "getContent" /\ a = ContentOf(q) /\ a.status # "error"
  BY <1>6, ContentIsComputed DEF Excused
<1>7. CASE route = "getNodes" /\ a = NodesOf(q) BY <1>7, NodesAreComputed DEF Excused
<1>8. \/ \E code : a = NewError(code, q)
      \/ \E status \in {"repo", "updated", "not updated"} : a = Answer(status, q)
      \/ route = "getURIs" /\ a = URIsOf(q)
      \/ route = "getContent" /\ a = ContentOf(q) /\ a.status # "error"
      \/ route = "getNodes" /\ a = NodesOf(q)
      \/ route = "getRepo" /\ \E status \in {"other", "garbage"} : a = Answer(status, q)
      \/ form = "null" /\ a = Answer("panic", q)
  BY DEF ExecuteRequest, Repo, Update, Panicked, Routes
<1> QED BY <1>1, <1>2, <1>3, <1>4, <1>5, <1>6, <1>7, <1>8

-----------------------------------------------------------------------------
IInv == LoadInv /\ WiredInv /\ ReplyInv

LEMMA InitIInv == ASSUME ApiInit PROVE IInv
<1>1. ~Called BY ApiAssumption DEF ApiInit, NoCall, Called
<1>2. reply = None BY DEF ApiInit, Init
<1> QED BY <1>1, <1>2, InitLoad DEF ApiInit, IInv, ReplyInv

(* While something is left to load nothing has been answered.              *)
LEMMA StepLoad ==
  ASSUME IInv, Load, UNCHANGED call
  PROVE  IInv'
<1>1. reply = None /\ ~Called /\ UNCHANGED reply
  BY DEF Load, Build, WireAlias, Publish, IInv, LoadInv, ReplyInv
<1>2. ReplyInv' BY <1>1 DEF ReplyInv, Called
<1>3. LoadInv' /\ WiredInv'
  BY StepBuild, StepWireAlias, StepPublish DEF Load, IInv
<1> QED BY <1>2, <1>3 DEF IInv

LEMMA StepAsk ==
  ASSUME IInv, NEW route, NEW form, NEW q, Post(route, form, q) \/ Frame(route, form, q)
  PROVE  IInv'
<1>1. /\ UNCHANGED <<tree, uri, pending, loading, unwired, directory>> /\ Answering
      /\ call'.route = route /\ call'.form = form
  BY DEF Post, Frame
<1>2. LoadInv' /\ WiredInv' BY <1>1, AskingLoadsNothing DEF IInv
<1>3. Computed(reply') /\ (form = "json" => Excused(route, reply'))
  <2>1. CASE reply' \in ExecuteRequest(route, form, q)
    BY <2>1, ExecuteRequestAnswers DEF IInv
  <2>2. CASE form # "json" /\ reply' = Answer("refused", q)
    BY <2>2, Plain DEF IInv
  <2> QED BY <2>1, <2>2 DEF Post, Frame
<1>4. Computed(reply)' BY <1>1, <1>3, SameURIs, SameMenu DEF Computed
<1>5. Called' => Excused(call.route, reply)'
  BY <1>1, <1>3, SameNilChild DEF Called, Excused, Breaks
<1>6. ReplyInv' BY <1>1, <1>4, <1>5 DEF ReplyInv, Answering
<1> QED BY <1>2, <1>6 DEF IInv

LEMMA StepReplied == ASSUME IInv, Replied PROVE IInv'
<1>1. reply' = None /\ call' = NoCall
      /\ UNCHANGED <<tree, uri, pending, loading, unwired, directory>>
  BY DEF Replied, Sent
<1>2. ~Called' BY <1>1, ApiAssumption DEF NoCall, Called
<1>3. LoadInv' /\ WiredInv' BY <1>1, AskingLoadsNothing DEF IInv
<1>4. ReplyInv' BY <1>1, <1>2 DEF ReplyInv
<1> QED BY <1>3, <1>4 DEF IInv

LEMMA StepStutter == ASSUME IInv, UNCHANGED apiVars PROVE IInv'
<1>1. UNCHANGED <<tree, uri, pending, loading, unwired, directory, reply, call>>
  BY DEF apiVars, vars
<1>2. LoadInv' /\ WiredInv' BY <1>1, AskingLoadsNothing DEF IInv
<1>3. reply # None => Computed(reply)'
  BY <1>1, SameURIs, SameMenu DEF IInv, ReplyInv, Computed
<1>4. Called => Excused(call.route, reply)'
  BY <1>1, SameNilChild DEF IInv, ReplyInv, Excused, Breaks
<1>5. ReplyInv' BY <1>1, <1>3, <1>4 DEF ReplyInv, Called, IInv
<1> QED BY <1>2, <1>5 DEF IInv

LEMMA Inductive == ApiSpec => []IInv
<1>1. ApiInit => IInv BY InitIInv
<1>2. IInv /\ [ApiNext]_apiVars => IInv'
  BY StepLoad, StepAsk, StepReplied, StepStutter DEF ApiNext
<1> QED BY <1>1, <1>2, PTL DEF ApiSpec

-----------------------------------------------------------------------------
(* In what is served, an alias has the URI of a node that its links lead   *)
(* to, in whatever order the aliases have been visited.                    *)
THEOREM AliasesAreWired == ApiSpec => []AliasURIs
<1>1. IInv => AliasURIs BY DEF IInv, WiredInv, Wired, AliasURIs
<1> QED BY <1>1, Inductive, PTL

(* Whatever is asked, both transports return the same.                     *)
THEOREM TransportsReturnTheSame == ApiSpec => []TransportsAgree
<1>1. IInv => TransportsAgree
  <2> SUFFICES ASSUME IInv, Called
               PROVE  HTTPCall(call.route, reply) = SocketCall(call.route, reply)
    BY DEF TransportsAgree
  <2>1. reply.status # "refused" BY DEF IInv, ReplyInv, Excused
  <2> QED BY <2>1 DEF HTTPCall, SocketCall, OK, Fits
<1> QED BY <1>1, Inductive, PTL

(* What a server failed at is not taken for an answer by its client.       *)
THEOREM NoErrorIsAnAnswer == ApiSpec => []ErrorsAreSeen
<1>1. IInv => ErrorsAreSeen
  <2> SUFFICES ASSUME IInv, Called, reply.status \in {"error", "panic", "other", "garbage"}
               PROVE  \/ ClientGets.error
                      \/ call.route = "update" /\ ~ClientGets.success
                      \/ call.route = "getContent" /\ ClientGets.status \notin {200, 403, 404}
    BY DEF ErrorsAreSeen
  <2>1. reply.status = "error" => reply.http = 500 BY DEF IInv, ReplyInv, Excused
  <2>2. ClientGets \in {HTTPCall(call.route, reply), SocketCall(call.route, reply)}
    BY DEF ClientGets
  <2>3. CASE reply.status = "panic" \/ ~Fits(call.route, reply)
    <3>1. ClientGets = Failed BY <2>2, <2>3 DEF HTTPCall, SocketCall, OK
    <3> QED BY <3>1 DEF Failed
  <2>4. CASE reply.status = "error" /\ Fits(call.route, reply)
    <3>1. call.route \in {"getContent", "update"} BY <2>4 DEF Fits
    <3>2. ClientGets = Unmarshalled(call.route, reply)
      BY <2>2, <2>4, <3>1 DEF HTTPCall, SocketCall, OK
    <3>3. CASE call.route = "update"
      <4>1. ClientGets = [error |-> FALSE, success |-> FALSE]
        BY <2>4, <3>2, <3>3 DEF Unmarshalled
      <4> QED BY <3>3, <4>1
    <3>4. CASE call.route = "getContent"
      <4>1. ClientGets = [error |-> FALSE, status |-> 500]
        BY <2>1, <2>4, <3>2, <3>4 DEF Unmarshalled
      <4> QED BY <3>4, <4>1
    <3> QED BY <3>1, <3>3, <3>4
  <2> QED BY <2>3, <2>4 DEF Fits
<1> QED BY <1>1, Inductive, PTL

LEMMA ServedIsGrown ==
  ASSUME IInv, NEW d \in directory
  PROVE  Grown(d) /\ tree[d] \in Trees /\ Unique(d) /\ d \in Dimensions
BY TreesAreTrees DEF IInv, LoadInv

(* What is listed is what is visible, is below a node that was asked for   *)
(* and has only visible nodes in between.                                  *)
THEOREM MenusAreReachable == ApiSpec => []MenuIsReachable
<1>1. IInv => MenuIsReachable
  <2> SUFFICES ASSUME IInv, reply # None PROVE MenuIsReachable BY DEF MenuIsReachable
  <2> DEFINE d == reply.menu
             q == reply.request
             Seen(n) == /\ n \notin tree[d].unlisted
                        /\ n \notin tree[d].hidden \/ q.exposeHidden
                        /\ CanBeAccessed(d, n, Asked(q))
             Reachable ==
               {m \in Nodes : d \in directory /\ \E r \in NodesWith(d, q.root) :
                  /\ Below(d, r, m)
                  /\ q.expand \/ tree[d].parent[m] = r
                  /\ Seen(m)
                  /\ \A n \in Nodes : Below(d, r, n) /\ Below(d, n, m) => Seen(n)}
  <2>1. reply.nodes = Menu(d, q) BY DEF IInv, ReplyInv, Computed
  <2>2. \A n : Seen(n) <=> Shows(d, n, q) BY DEF Shows, Visible
  <2>3. CASE d \notin directory
    <3>1. Menu(d, q) = {} BY <2>3 DEF Menu, MenuRoots
    <3>2. Reachable = {} BY <2>3
    <3>3. reply.nodes = Reachable BY <2>1, <3>1, <3>2
    <3> QED BY <3>3 DEF MenuIsReachable
  <2>4. CASE d \in directory
    <3>1. Menu(d, q) = UNION {GetNode(d, r, q) : r \in NodesWith(d, q.root)}
      BY <2>4 DEF Menu, MenuRoots
    <3>2. \A r \in NodesWith(d, q.root) :
            GetNode(d, r, q) = {m \in Shown(d, r, q) : q.expand \/ tree[d].parent[m] = r}
      BY <2>4, ServedIsGrown, GetNodeIs DEF NodesWith
    <3> HIDE DEF d, q, Seen
    <3>3. Menu(d, q) = Reachable BY <2>2, <2>4, <3>1, <3>2 DEF Shown
    <3>4. reply.nodes = Reachable BY <2>1, <3>3
    <3> QED BY <3>4 DEF MenuIsReachable, d, q, Seen
  <2> QED BY <2>3, <2>4
<1> QED BY <1>1, Inductive, PTL

(* What costs a client its connection is an export that is no JSON, a      *)
(* request for nodes without an environment, a null node or an index, on   *)
(* the way, with a child that is not there.                                *)
THEOREM PanicsAreKnown == ApiSpec => []ConnLostOnly
<1>1. IInv => ConnLostOnly
  <2> SUFFICES ASSUME IInv, Called, ~ReturnsConn(call.route, reply),
                      call.route # "getRepo" \/ reply.status # "garbage",
                      call.route # "getNodes" \/ reply.request.env # None,
                      call.route \notin {"getNodes", "getContent"} \/ ~reply.request.null
               PROVE  /\ call.route \in {"getNodes", "getContent"}
                      /\ \E d \in directory : \E n \in tree[d].dangling, r \in NodesWith(d, reply.request.root) :
                           n = r \/ Below(d, r, n)
    BY DEF ConnLostOnly
  <2>1. call.route \in {"getNodes", "getContent"} /\ \E d \in directory : NilChild(d, reply.request)
    BY DEF IInv, ReplyInv, Excused, Breaks, ReturnsConn
  <2>2. PICK d \in directory : NilChild(d, reply.request) BY <2>1
  <2>3. PICK r \in NodesWith(d, reply.request.root) :
          ({r} \cup GetNode(d, r, reply.request)) \cap tree[d].dangling # {}
    BY <2>2 DEF NilChild, MenuRoots
  <2>4. \A n \in GetNode(d, r, reply.request) : Below(d, r, n)
    BY ServedIsGrown, GetNodeIs DEF Shown, NodesWith
  <2> QED BY <2>1, <2>3, <2>4
<1> QED BY <1>1, Inductive, PTL

(* In a dimension that is served a URI stands for one node, and the URI    *)
(* handed out for an id for the node its links lead to.                    *)
LEMMA LeadsBack ==
  ASSUME IInv, NEW d, NEW id, NEW u, u = GetURI(d, id), u # NoURI
  PROVE  \E n \in NodesWith(d, id) :
           LET p == CHOOSE p \in First(Found(<<d>>, u)) : TRUE
           IN p[1] = Len(u) /\ Known(d, u) = Targets(d, n)
<1>1. d \in directory /\ NodesWith(d, id) # {} BY DEF GetURI
<1>2. PICK n \in NodesWith(d, id) : u = URIForNode(d, n) BY <1>1 DEF GetURI
<1>3. n \in Nodes BY DEF NodesWith
<1>4. PICK e \in Nodes \ Aliases(d) : Targets(d, n) = {e} /\ u = uri[d][e]
  BY <1>1, <1>2, <1>3, ServedIsGrown, URIIsOfTarget
<1>5. u = tree[d].uri[e] BY <1>1, <1>4, ServedIsGrown DEF IInv, WiredInv, Exported
<1>6. Known(d, u) = {e}
  BY <1>1, <1>4, <1>5, ServedIsGrown DEF Known, Unique
<1>7. u \in Seq(STRING)
  <2>1. u \in URIs \cup {NoURI} BY <1>1, <1>4, <1>5, ServedIsGrown DEF Trees
  <2> QED BY <2>1, ContentAssumption
<1>8. Prefix(u, Len(u)) = u BY <1>7 DEF Prefix
<1>9. Len(u) \in Nat BY <1>7
<1> DEFINE ps == Found(<<d>>, u)
           first == <<Len(u), 1>>
<1>10. ps \subseteq (0 .. Len(u)) \X {1} BY DEF Found
<1>11. first \in ps
  <2>1. first \in (0 .. Len(u)) \X DOMAIN <<d>> /\ first[1] = Len(u) /\ <<d>>[first[2]] = d BY <1>9
  <2> QED BY <1>6, <1>8, <2>1 DEF Found
<1> HIDE DEF ps, first
<1>12. first[1] = Len(u) /\ first[2] = 1 BY DEF first
<1>13. \A q \in ps : q[1] \in 0 .. Len(u) /\ q[2] = 1 BY <1>10
<1>14. first \in First(ps) BY <1>9, <1>11, <1>12, <1>13 DEF First
<1>15. \A p \in First(ps) : p[1] = Len(u)
  BY <1>9, <1>11, <1>12, <1>13 DEF First
<1>16. (CHOOSE p \in First(ps) : TRUE)[1] = Len(u) BY <1>14, <1>15
<1> QED BY <1>4, <1>6, <1>16 DEF ps

(* The URIs that are handed out lead back to where their id's links lead.  *)
THEOREM URIsAreResolved == ApiSpec => []URIsLeadBack
<1>1. IInv => URIsLeadBack
  BY LeadsBack DEF IInv, ReplyInv, Computed, URIsLeadBack
<1> QED BY <1>1, Inductive, PTL
=============================================================================
