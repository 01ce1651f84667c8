------------------------------- MODULE Serving ------------------------------
(***************************************************************************)
(* A request that reads the repo while it is being updated.                *)
(*                                                                         *)
(* The methods of Repo that answer requests call Directory() anew for each *)
(* look into it, and each call is a step of its own here, between which    *)
(* the goroutines of module Repo move on.  Readers change nothing anybody  *)
(* reads, so one of them stands for all.                                   *)
(*                                                                         *)
(* Of the trees in an export two nodes matter: the page a request asks for *)
(* by its URI, and the root of the tree, whose URI is a prefix of the      *)
(* page's and at which requests for nodes begin.  Either may be missing;   *)
(* the page may be an alias, which links to the root.  Both are named by   *)
(* their ids, "page" and "root"; module Content has the whole trees.       *)
(***************************************************************************)
EXTENDS Repo, Sequences

CONSTANTS
  Asked,         \* the dimensions of an environment: non-empty sequences
  HasPage,       \* the dimensions of an export whose tree has the page,
  HasRoot,       \* those whose tree has the root,
  IsAlias,       \* and those whose page is an alias
  Blank          \* the exports without a byte

Ids == {"page", "root"}

ASSUME ServingAssumption ==
  /\ None \notin Ids
  /\ Asked \subseteq Seq(Dimensions) \ {<<>>}
  /\ HasPage \in [Exports -> SUBSET Dimensions]
  /\ HasRoot \in [Exports -> SUBSET Dimensions]
  /\ IsAlias \in [Exports -> SUBSET Dimensions]
  /\ Blank \subseteq Malformed

VARIABLES
  at,            \* the statement the reader executes next
  route,         \* what it was asked
  env,           \* requests.Env.Dimensions
  rest,          \* the dimensions a loop has yet to look at
  id,            \* the id of the node resolved or asked for
  dim,           \* the dimension it was resolved in
  left,          \* the dimensions whose URI is yet to be found
  link,          \* the dimension getURIForNode is called for
  uris,          \* SiteContent.URIs: the exports they come from
  reply,
  during,        \* history: what each dimension was served from meanwhile,
  loads,         \* the exports that were completely loaded meanwhile,
  calm,          \* whether there was no update at all,
  stored         \* and whether something was persisted when it arrived

locate == <<rest, id, dim>>
reader == <<at, route, env, locate, left, link, uris, reply>>
history == <<during, loads, calm, stored>>
allVars == <<vars, reader, history>>

Stages == {"idle", "check", "resolve", "dims", "uris", "link", "search", "copy", "storage", "done"}
Routes == {"getContent", "getURIs", "getNodes", "getRepo"}

ReaderTypeOK ==
  /\ at \in Stages
  /\ route \in Routes \cup {None} /\ env \in Asked \cup {<<>>}
  /\ rest \in Seq(Dimensions)
  /\ id \in Ids \cup {None} /\ dim \in Dimensions \cup {None}
  /\ left \subseteq Dimensions /\ link \in Dimensions \cup {None}
  /\ uris \in [Dimensions -> Export]
  /\ IF at = "done" THEN "status" \in DOMAIN reply ELSE reply = None
  /\ during \in [Dimensions -> SUBSET Export]
  /\ loads \subseteq Exports /\ calm \in BOOLEAN /\ stored \in BOOLEAN

NoRequest ==
  /\ at = "idle" /\ route = None /\ env = <<>>
  /\ rest = <<>> /\ id = None /\ dim = None
  /\ left = {} /\ link = None /\ uris = Empty /\ reply = None
  /\ during = [d \in Dimensions |-> {}] /\ loads = {} /\ calm = FALSE
  /\ stored = FALSE

ServingInit == Init /\ NoRequest

-----------------------------------------------------------------------------
(* A request arrives, and is answered.                                     *)

Begin(what, stage, dims) ==
  /\ at = "idle"
  /\ at' = stage /\ route' = what /\ env' = dims /\ rest' = dims
  /\ during' = [d \in Dimensions |-> {directory[d]}] /\ calm' = Quiet
  /\ stored' = ~NoSnapshot
  /\ UNCHANGED <<vars, dim, link, uris, reply, loads>>

GetContent(dims) == Begin("getContent", "check", dims) /\ UNCHANGED <<id, left>>
GetNodes(dims) == Begin("getNodes", "search", dims) /\ UNCHANGED <<id, left>>
WriteRepoBytes == Begin("getRepo", "copy", <<>>) /\ UNCHANGED <<id, left>>
GetURIs(d, i) == Begin("getURIs", "uris", <<>>) /\ id' = i /\ left' = {d}

Answers(r) ==
  /\ reply' = r /\ at' = "done"
  /\ UNCHANGED <<route, env, locate, left, link, uris>>

(* Faulty: the next request finds the answer of the last.                  *)
ClearBut ==
  /\ at' = "idle" /\ route' = None /\ env' = <<>>
  /\ rest' = <<>> /\ id' = None /\ dim' = None
  /\ left' = {} /\ link' = None /\ uris' = Empty /\ UNCHANGED reply
  /\ during' = [d \in Dimensions |-> {}] /\ loads' = {} /\ calm' = FALSE
  /\ stored' = FALSE

Clear ==
  /\ at' = "idle" /\ route' = None /\ env' = <<>>
  /\ rest' = <<>> /\ id' = None /\ dim' = None
  /\ left' = {} /\ link' = None /\ uris' = Empty /\ reply' = None
  /\ during' = [d \in Dimensions |-> {}] /\ loads' = {} /\ calm' = FALSE
  /\ stored' = FALSE

Sent == at = "done" /\ Clear /\ UNCHANGED vars

-----------------------------------------------------------------------------
(* getURI for the dimensions that are left, in any order, and              *)
(* getURIForNode, which looks the dimension up again to follow a link.     *)

Has(e, d, i) == e # None /\ d \in (IF i = "page" THEN HasPage[e] ELSE HasRoot[e])
Alias(e, d, i) == i = "page" /\ d \in IsAlias[e]

Found(d, e) ==
  /\ uris' = [uris EXCEPT ![d] = e] /\ left' = left \ {d}
  /\ link' = None /\ at' = "uris"
  /\ UNCHANGED <<route, env, locate, reply>>

GetURI(d) ==
  /\ at = "uris" /\ d \in left
  /\ LET e == directory[d] IN
       IF ~Has(e, d, id) THEN Found(d, None)
       ELSE IF ~Alias(e, d, id) THEN Found(d, e)
       ELSE link' = d /\ at' = "link" /\ UNCHANGED <<route, env, locate, left, uris, reply>>

Linked ==
  /\ at = "link"
  /\ LET e == directory[link] IN
       IF e = None THEN Answers([status |-> "panic", dim |-> link])
       ELSE Found(link, IF Has(e, link, "root") THEN e ELSE None)

URIsFound ==
  /\ at = "uris" /\ left = {} /\ route = "getURIs"
  /\ Answers([status |-> "ok", uris |-> uris])

-----------------------------------------------------------------------------
(* GetContent: validateContentRequest, resolveContent, the URIs in all     *)
(* dimensions, getNodes in the dimension the content was found in.         *)

Check ==
  /\ at = "check"
  /\ IF directory[Head(rest)] = None
       THEN Answers([status |-> "error"])
       ELSE /\ IF Tail(rest) # <<>>
                 THEN rest' = Tail(rest) /\ UNCHANGED <<at, id>>
                 ELSE rest' = env /\ id' = "page" /\ at' = "resolve"
            /\ UNCHANGED <<route, env, dim, left, link, uris, reply>>

(* Faulty: every prefix is tried in one dimension before the next.         *)
DimensionsFirst ==
  IF id = "page" THEN <<"root", rest>>
  ELSE IF Tail(rest) # <<>> THEN <<"page", Tail(rest)>> ELSE <<None, <<>>>>

(* Every dimension is tried for one prefix before the next.                *)
NextTry ==
  IF Tail(rest) # <<>> THEN <<id, Tail(rest)>>
  ELSE IF id = "page" THEN <<"root", env>> ELSE <<None, <<>>>>

Resolve ==
  /\ at = "resolve"
  /\ LET d == Head(rest) IN
       IF Has(directory[d], d, id)
         THEN dim' = d /\ rest' = <<>> /\ id' = id /\ at' = "dims"
         ELSE /\ id' = NextTry[1] /\ rest' = NextTry[2]
              /\ dim' = IF NextTry[1] = None THEN env[1] ELSE dim
              /\ at' = IF NextTry[1] = None THEN "uris" ELSE "resolve"
  /\ UNCHANGED <<route, env, left, link, uris, reply>>

ForDimensions ==
  /\ at = "dims"
  /\ left' = {d \in Dimensions : directory[d] # None}
  /\ at' = "uris"
  /\ UNCHANGED <<route, env, locate, link, uris, reply>>

Nodes(d) == IF Has(directory[d], d, "root") THEN directory[d] ELSE None

ContentNodes ==
  /\ at = "uris" /\ left = {} /\ route = "getContent"
  /\ Answers([status |-> IF id = None THEN "not found" ELSE "ok",
              id |-> id, uris |-> uris, nodes |-> Nodes(dim)])

(* GetNodes without a dimension: the first one that is there.              *)
Search ==
  /\ at = "search"
  /\ IF rest = <<>> \/ directory[Head(rest)] # None
       THEN Answers([status |-> "ok",
                     nodes |-> IF rest = <<>> THEN None ELSE Nodes(Head(rest))])
       ELSE rest' = Tail(rest) /\ UNCHANGED <<at, route, env, id, dim, left, link, uris, reply>>

-----------------------------------------------------------------------------
(* WriteRepoBytes: the buffer, or else what is persisted.                  *)

(* Faulty: there is no fallback.                                           *)
CopyOnly ==
  /\ at = "copy"
  /\ Answers(IF jsonBuffer = None THEN [status |-> "error"]
             ELSE [status |-> "ok", repo |-> jsonBuffer])

Copy ==
  /\ at = "copy"
  /\ IF jsonBuffer \in {None} \cup Blank
       THEN at' = "storage" /\ UNCHANGED <<route, env, locate, left, link, uris, reply>>
       ELSE Answers([status |-> "ok", repo |-> jsonBuffer])

FromStorage ==
  /\ at = "storage"
  /\ \/ ~NoSnapshot /\ Answers([status |-> "ok", repo |-> current])
     \/ (NoSnapshot \/ "unreadable" \in Events) /\ Answers([status |-> "error"])

-----------------------------------------------------------------------------
Read ==
  /\ \/ Check \/ Resolve \/ ForDimensions \/ ContentNodes
     \/ \E d \in Dimensions : GetURI(d)
     \/ Linked \/ URIsFound \/ Search \/ Copy \/ FromStorage
  /\ UNCHANGED <<vars, history>>

Arrive ==
  \/ \E dims \in Asked : GetContent(dims) \/ GetNodes(dims)
  \/ \E d \in Dimensions, i \in Ids : GetURIs(d, i)
  \/ WriteRepoBytes

(* The server goes on; a reader that is under way can observe it.          *)
Swapped == {nodes[p] : p \in {q \in Loaders : At(q, "swap") /\ pc'[q] = "bytes"}}

Meanwhile ==
  /\ Run
  /\ IF at = "idle" THEN UNCHANGED history
     ELSE /\ during' = [d \in Dimensions |-> during[d] \cup {directory'[d]}]
          /\ loads' = loads \cup Swapped
          /\ calm' = (calm /\ Quiet')
          /\ UNCHANGED stored
  /\ UNCHANGED reader

(* Requests under way are lost with the process.                           *)
Lost == (NilAtStart \/ Restart) /\ Clear

ServingNext == Meanwhile \/ Lost \/ Arrive \/ Read \/ Sent

ServingSpec == ServingInit /\ [][ServingNext]_allVars

-----------------------------------------------------------------------------
(* A page that one of the dimensions asked for has all the time is         *)
(* resolved by its own URI, not by a prefix, whatever other dimensions do  *)
(* meanwhile, and so is its URI in each dimension that has it all the      *)
(* time; a request is refused only if a dimension was missing.  The        *)
(* prefix and dimension loops of resolveContent and the loop over URIs     *)
(* each look at a different directory.                                     *)
StaysKnown ==
  LET Always(d, i) == \A e \in during[d] : Has(e, d, i)
  IN at = "done" /\ route = "getContent" /\ reply.status # "panic" =>
       IF reply.status = "error" THEN \E n \in DOMAIN env : None \in during[env[n]]
       ELSE /\ \A n \in DOMAIN env : Always(env[n], "page") => reply.id = "page"
            /\ reply.id # None => \A d \in Dimensions :
                 Always(d, reply.id) /\ Always(d, "root") => reply.uris[d] # None

(* getURIForNode dereferences the dimension it looks up without a check.   *)
(* That fails only if an export without the dimension has been loaded      *)
(* since getURI found it there: neither a failing update nor the copies of *)
(* the directory _updateDimension makes ever take a dimension away         *)
(* (_updateDimension, loadNodes).                                          *)
DiesOnlyOnRemoval ==
  at = "done" /\ reply.status = "panic" => \E e \in loads : reply.dim \notin DimsOf[e]

(* Without an update under way, all parts of an answer come from one       *)
(* export, the persisted one: URIs, nodes, the bytes of the whole repo.    *)
QuietAnswers ==
  at = "done" /\ calm /\ current # None =>
    /\ route = "getRepo" => reply = [status |-> "ok", repo |-> current]
    /\ route = "getNodes" => reply.nodes \in {current, None}
    /\ route \in {"getContent", "getURIs"} /\ reply.status # "error" =>
         /\ reply.status # "panic"
         /\ \A d \in Dimensions : reply.uris[d] \in {current, None}
         /\ route = "getContent" => reply.nodes \in {current, None}

(* Once something has been persisted, the whole repo is always available:  *)
(* through a crash, in the gap between a restart and its first load, while *)
(* updates fail, are restored or are persisted half-way, a request never   *)
(* finds neither a buffer nor a snapshot (WriteRepoBytes).                 *)
RepoSurvives ==
  at = "done" /\ route = "getRepo" /\ stored =>
    reply.status = "ok" /\ reply.repo \in Exports

(* "WriteRepoBytes writes the whole repo in all dimensions" (repo.go 221): *)
(* an export that is in no dimension because it cannot be loaded is not    *)
(* the repo.                                                               *)
WrittenIsRepo == at = "done" /\ route = "getRepo" /\ reply.status = "ok" => reply.repo \in Loadable
=============================================================================
