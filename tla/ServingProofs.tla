---------------------------- MODULE ServingProofs ---------------------------
(***************************************************************************)
(* Proofs about Serving: what a request is answered while the goroutines   *)
(* of Repo move on between its looks into the directory, for any number of *)
(* dimensions, any exports, and any environment of the request.            *)
(***************************************************************************)
EXTENDS Serving, SequentialProofs

-----------------------------------------------------------------------------
(* The server is the one of module Repo: a reader changes nothing of it.   *)

LEMMA ServerStep == ASSUME [ServingNext]_allVars PROVE [Next]_vars
BY DEF ServingNext, allVars, Meanwhile, Lost, Arrive, GetContent, GetNodes, GetURIs,
  WriteRepoBytes, Begin, Read, Sent, Next

(* Whatever is proved of Repo holds while requests are answered            *)
(* (GetContent, GetNodes, GetURIs, WriteRepoBytes only read).              *)
THEOREM ServingUsesRepo == ServingSpec => Spec
<1>1. ServingInit => Init BY DEF ServingInit
<1>2. [ServingNext]_allVars => [Next]_vars BY ServerStep
<1> QED BY <1>1, <1>2, PTL DEF ServingSpec, Spec

-----------------------------------------------------------------------------
(* The dimensions of a sequence.                                           *)
Among(s) == {s[n] : n \in DOMAIN s}

LEMMA HeadAndTail ==
  ASSUME NEW s \in Seq(Dimensions), s # <<>>
  PROVE  /\ Head(s) \in Dimensions /\ Tail(s) \in Seq(Dimensions)
         /\ Among(s) = {Head(s)} \cup Among(Tail(s))
<1>1. Head(s) \in Dimensions /\ Tail(s) \in Seq(Dimensions) /\ Len(s) > 0 /\ Head(s) = s[1]
  OBVIOUS
<1>2. ASSUME NEW n \in DOMAIN s PROVE s[n] \in {Head(s)} \cup Among(Tail(s))
  <2>1. CASE n = 1 BY <1>1, <2>1
  <2>2. CASE n # 1
    <3>1. n - 1 \in DOMAIN Tail(s) /\ Tail(s)[n - 1] = s[n] BY <1>2, <2>2
    <3> QED BY <3>1 DEF Among
  <2> QED BY <2>1, <2>2
<1>3. ASSUME NEW n \in DOMAIN Tail(s) PROVE Tail(s)[n] \in Among(s)
  <2>1. n + 1 \in DOMAIN s /\ Tail(s)[n] = s[n + 1] BY <1>3
  <2> QED BY <2>1 DEF Among
<1>4. Head(s) \in Among(s) BY <1>1 DEF Among
<1> QED BY <1>1, <1>2, <1>3, <1>4 DEF Among

-----------------------------------------------------------------------------
(* What a request knows at each of its statements.                         *)
ReaderInv ==
  /\ ReaderTypeOK
  /\ at = "idle" => uris = Empty /\ id = None
  /\ at = "check" => route = "getContent" /\ id = None
  /\ at = "resolve" => route = "getContent" /\ id \in Ids
  /\ at \in {"check", "resolve"} =>
       env \in Asked /\ rest # <<>> /\ Among(rest) \subseteq Among(env)
  /\ at = "dims" => route = "getContent" /\ id \in Ids /\ dim \in Dimensions
  /\ at \in {"uris", "link"} =>
       route \in {"getContent", "getURIs"} /\ (route = "getContent" => dim \in Dimensions)
  /\ at = "link" => link \in left /\ id = "page"
  /\ at = "search" => route = "getNodes"
  /\ at \in {"copy", "storage"} => route = "getRepo"

USE DEF TypeInv, TypeOK, Loaders, Requesters, Goroutines, Export, Directory,
        Empty, At, Goto, Remember, shared, context, request, locals, job, vars
USE DEF allVars, reader, locate, history, Stages, Routes, Ids

(* An environment names a dimension, and asks for what it names.           *)
LEMMA AskedFor ==
  ASSUME NEW dims \in Asked
  PROVE  dims \in Seq(Dimensions) /\ dims # <<>> /\ dims[1] \in Dimensions
BY ServingAssumption

(* A load that replaces the directory has parsed its export.               *)
LEMMA SwapsExports ==
  ASSUME IInv
  PROVE  Swapped \subseteq Exports
BY DEF IInv, NodesInv, Swapped

LEMMA NoneLeft == <<>> \in Seq(Dimensions)
OBVIOUS

LEMMA ReaderInit == ASSUME ServingInit PROVE ReaderInv
<1> USE RepoAssumption DEF ServingInit, NoRequest
<1>1. rest \in Seq(Dimensions) BY NoneLeft
<1>2. calm \in BOOLEAN OBVIOUS
<1>3. ReaderTypeOK BY <1>1, <1>2 DEF ReaderTypeOK
<1> QED BY <1>3 DEF ReaderInv

LEMMA ReadStep ==
  ASSUME TypeOK, ReaderInv, Read
  PROVE  ReaderInv'
<1> USE RepoAssumption DEF ReaderInv, ReaderTypeOK
<1>0. UNCHANGED <<vars, history>> BY DEF Read
<1>1. ASSUME NEW r, Answers(r), "status" \in DOMAIN r PROVE ReaderInv'
  BY <1>0, <1>1 DEF Answers
<1>2. CASE Check
  <2>1. CASE directory[Head(rest)] = None BY <1>1, <1>2, <2>1 DEF Check
  <2>2. CASE directory[Head(rest)] # None
    <3>1. /\ Tail(rest) \in Seq(Dimensions) /\ Among(Tail(rest)) \subseteq Among(env)
          /\ env \in Seq(Dimensions) /\ env # <<>>
      BY <1>2, HeadAndTail, AskedFor DEF Check
    <3>2. /\ at = "check" /\ UNCHANGED <<route, env, dim, left, link, uris, reply>>
          /\ \/ Tail(rest) # <<>> /\ rest' = Tail(rest) /\ UNCHANGED <<at, id>>
             \/ rest' = env /\ id' = "page" /\ at' = "resolve"
      BY <1>2, <2>2 DEF Check
    <3>3. rest' \in Seq(Dimensions) /\ rest' # <<>> /\ Among(rest') \subseteq Among(env)
      BY <3>1, <3>2
    <3> QED BY <1>0, <3>2, <3>3
  <2> QED BY <2>1, <2>2
<1>3. CASE Resolve
  <2>1. CASE Has(directory[Head(rest)], Head(rest), id)
    BY <1>0, <1>3, <2>1, HeadAndTail DEF Resolve
  <2>2. CASE ~Has(directory[Head(rest)], Head(rest), id)
    <3>1. /\ Tail(rest) \in Seq(Dimensions) /\ Among(Tail(rest)) \subseteq Among(env)
          /\ env \in Seq(Dimensions) /\ env # <<>> /\ env[1] \in Dimensions
      BY <1>3, HeadAndTail, AskedFor DEF Resolve
    <3>2. /\ at = "resolve" /\ UNCHANGED <<route, env, left, link, uris, reply>>
          /\ \/ /\ Tail(rest) # <<>> /\ rest' = Tail(rest)
                /\ id' = id /\ dim' = dim /\ at' = "resolve"
             \/ rest' = env /\ id' = "root" /\ dim' = dim /\ at' = "resolve"
             \/ rest' = <<>> /\ id' = None /\ dim' = env[1] /\ at' = "uris"
      BY <1>3, <2>2, ServingAssumption DEF Resolve, NextTry
    <3>3. rest' \in Seq(Dimensions)
          /\ (at' = "resolve" => rest' # <<>> /\ Among(rest') \subseteq Among(env))
      BY <3>1, <3>2, NoneLeft
    <3> QED BY <1>0, <3>1, <3>2, <3>3
  <2> QED BY <2>1, <2>2
<1>4. CASE ForDimensions BY <1>0, <1>4 DEF ForDimensions
<1>5. CASE ContentNodes BY <1>1, <1>5 DEF ContentNodes
<1>6. ASSUME NEW d \in Dimensions, NEW e \in Export, at \in {"uris", "link"}, Found(d, e)
      PROVE  ReaderInv'
  BY <1>0, <1>6 DEF Found
<1>7. CASE \E d \in Dimensions : GetURI(d)
  <2>1. PICK d \in Dimensions : GetURI(d) BY <1>7
  <2>2. CASE \E e \in Export : Found(d, e)
    BY <1>6, <2>1, <2>2 DEF GetURI
  <2>3. CASE link' = d /\ at' = "link" /\ UNCHANGED <<route, env, locate, left, uris, reply>>
    <3>1. id = "page" \/ Found(d, directory[d]) \/ Found(d, None)
      BY <2>1 DEF GetURI, Alias
    <3>2. CASE id = "page" BY <1>0, <2>1, <2>3, <3>2 DEF GetURI
    <3> QED BY <2>2, <3>1, <3>2
  <2> QED BY <2>1, <2>2, <2>3 DEF GetURI
<1>8. CASE Linked
  BY <1>1, <1>6, <1>8 DEF Linked
<1>9. CASE URIsFound BY <1>1, <1>9 DEF URIsFound
<1>10. CASE Search
  <2>1. CASE rest = <<>> \/ directory[Head(rest)] # None BY <1>1, <1>10, <2>1 DEF Search
  <2>2. CASE ~(rest = <<>> \/ directory[Head(rest)] # None)
    <3>1. /\ at = "search" /\ rest # <<>> /\ rest' = Tail(rest)
          /\ UNCHANGED <<at, route, env, id, dim, left, link, uris, reply>>
      BY <1>10, <2>2 DEF Search
    <3>2. rest' \in Seq(Dimensions) BY <3>1, HeadAndTail
    <3> QED BY <1>0, <3>1, <3>2
  <2> QED BY <2>1, <2>2
<1>11. CASE Copy
  <2>1. CASE jsonBuffer \in {None} \cup Blank BY <1>0, <1>11, <2>1 DEF Copy
  <2>2. CASE jsonBuffer \notin {None} \cup Blank BY <1>1, <1>11, <2>2 DEF Copy
  <2> QED BY <2>1, <2>2
<1>12. CASE FromStorage BY <1>1, <1>12 DEF FromStorage
<1> QED
  BY <1>2, <1>3, <1>4, <1>5, <1>7, <1>8, <1>9, <1>10, <1>11, <1>12 DEF Read

LEMMA ArriveStep ==
  ASSUME TypeOK, ReaderInv, Arrive
  PROVE  ReaderInv'
<1> USE RepoAssumption DEF ReaderInv, ReaderTypeOK
<1>1. Quiet \in BOOLEAN BY DEF Quiet
<1>2. ASSUME NEW what \in Routes, NEW stage \in Stages \ {"idle", "done"},
             NEW dims \in Asked \cup {<<>>}, Begin(what, stage, dims)
      PROVE  /\ UNCHANGED <<vars, dim, link, uris, reply>>
             /\ at' = stage /\ route' = what /\ env' = dims /\ rest' = dims
             /\ rest' \in Seq(Dimensions) /\ uris' = Empty /\ reply' = None
             /\ during' \in [Dimensions -> SUBSET Export]
             /\ loads' \subseteq Exports /\ calm' \in BOOLEAN /\ stored' \in BOOLEAN
  <2>1. dims \in Seq(Dimensions) BY NoneLeft, AskedFor
  <2>2. calm' \in BOOLEAN BY <1>1, <1>2 DEF Begin
  <2>3. during' \in [Dimensions -> SUBSET Export] BY <1>2 DEF Begin
  <2>4. stored' \in BOOLEAN BY <1>2 DEF Begin, NoSnapshot
  <2> QED BY <1>2, <2>1, <2>2, <2>3, <2>4 DEF Begin
<1>3. ASSUME NEW dims \in Asked, GetContent(dims) PROVE ReaderInv'
  <2>1. Begin("getContent", "check", dims) /\ UNCHANGED <<id, left>> BY <1>3 DEF GetContent
  <2>2. id = None BY <2>1 DEF Begin
  <2> QED BY <1>2, <2>1, <2>2, AskedFor
<1>4. ASSUME NEW dims \in Asked, GetNodes(dims) PROVE ReaderInv'
  BY <1>2, <1>4 DEF GetNodes
<1>5. ASSUME NEW d \in Dimensions, NEW i \in Ids, GetURIs(d, i) PROVE ReaderInv'
  BY <1>2, <1>5 DEF GetURIs
<1>6. CASE WriteRepoBytes BY <1>2, <1>6 DEF WriteRepoBytes
<1> QED BY <1>3, <1>4, <1>5, <1>6 DEF Arrive

LEMMA ReaderStep ==
  ASSUME IInv, IInv', ReaderInv, [ServingNext]_allVars
  PROVE  ReaderInv'
<1> USE RepoAssumption
<1>1. TypeOK /\ TypeOK' BY DEF IInv
<1>2. ASSUME Clear PROVE ReaderInv'
  <2>1. rest' \in Seq(Dimensions) BY <1>2, NoneLeft DEF Clear
  <2>2. calm' \in BOOLEAN BY <1>2 DEF Clear
  <2>3. ReaderTypeOK' BY <1>2, <2>1, <2>2 DEF Clear, ReaderTypeOK
  <2> QED BY <1>2, <2>3 DEF Clear, ReaderInv
<1>3. CASE Meanwhile
  <2>1. UNCHANGED reader BY <1>3 DEF Meanwhile
  <2>2. /\ during' \in [Dimensions -> SUBSET Export]
        /\ loads' \subseteq Exports /\ calm' \in BOOLEAN /\ stored' \in BOOLEAN
    <3>1. during \in [Dimensions -> SUBSET Export] /\ loads \subseteq Exports /\ calm \in BOOLEAN
      BY DEF ReaderInv, ReaderTypeOK
    <3>2. calm' \in BOOLEAN BY <1>3, <3>1, Zenon DEF Meanwhile
    <3>3. loads' \subseteq Exports BY <1>3, <3>1, SwapsExports DEF Meanwhile
    <3>4. during' \in [Dimensions -> SUBSET Export] BY <1>1, <1>3, <3>1 DEF Meanwhile
    <3>5. stored' \in BOOLEAN BY <1>3, Zenon DEF Meanwhile, ReaderInv, ReaderTypeOK
    <3> QED BY <3>2, <3>3, <3>4, <3>5
  <2> QED BY <2>1, <2>2 DEF ReaderInv, ReaderTypeOK
<1>4. CASE Read BY <1>1, <1>4, ReadStep
<1>5. CASE Arrive BY <1>1, <1>5, ArriveStep
<1>6. CASE UNCHANGED allVars BY <1>6 DEF ReaderInv, ReaderTypeOK
<1> QED BY <1>2, <1>3, <1>4, <1>5, <1>6 DEF ServingNext, Lost, Sent

LEMMA ReaderInvariant == ServingSpec => [](IInv /\ ReaderInv)
<1>1. ServingInit => ReaderInv BY ReaderInit
<1>2. IInv /\ IInv' /\ ReaderInv /\ [ServingNext]_allVars => ReaderInv' BY ReaderStep
<1>3. ServingSpec => []IInv BY ServingUsesRepo, Inductive, PTL
<1> HIDE DEF allVars
<1> QED BY <1>1, <1>2, <1>3, PTL DEF ServingSpec

(* A request keeps its types at each of its statements.                    *)
THEOREM ReaderTypes == ServingSpec => []ReaderTypeOK
<1>1. ReaderInv => ReaderTypeOK BY DEF ReaderInv
<1> QED BY <1>1, ReaderInvariant, PTL

-----------------------------------------------------------------------------
(* What has been persisted stays so: an Add may leave what was there, or a *)
(* file that does not parse, but never none.                               *)
LEMMA PersistedStays ==
  ASSUME IInv, [Next]_vars, ~NoSnapshot
  PROVE  (~NoSnapshot)'
<1> USE RepoAssumption DEF NoSnapshot
<1>1. ASSUME NEW p \in Loaders, HistoryAdd(p) PROVE current' # None
  <2>1. At(p, "add") /\ current' \in Added(bytes[p]) BY <1>1 DEF HistoryAdd
  <2>2. bytes[p] # None BY <2>1 DEF IInv, BufferInv
  <2> QED BY <2>1, <2>2 DEF Added
<1>2. CASE current' # current BY <1>1, <1>2, OnlyAdds
<1> QED BY <1>2

(* A request that found something persisted still does.                    *)
StoredInv ==
  /\ at # "idle" /\ stored => ~NoSnapshot
  /\ RepoSurvives

LEMMA StoredStep ==
  ASSUME "unreadable" \notin Events, IInv, ReaderInv, StoredInv, [ServingNext]_allVars
  PROVE  StoredInv'
<1> USE RepoAssumption DEF StoredInv, RepoSurvives
<1>1. CASE Meanwhile /\ at # "idle"
  <2>1. UNCHANGED <<at, route, reply, stored>> BY <1>1 DEF Meanwhile
  <2>2. stored => (~NoSnapshot)' BY <1>1, ServerStep, PersistedStays
  <2> QED BY <2>1, <2>2
<1>2. CASE Read
  <2>1. UNCHANGED <<vars, history>> /\ at # "idle"
    BY <1>2 DEF Read, Check, Resolve, ForDimensions, ContentNodes, GetURI, Linked, URIsFound,
       Search, Copy, FromStorage
  <2>2. UNCHANGED <<NoSnapshot, stored>> BY <2>1 DEF NoSnapshot
  <2>3. ASSUME at' = "done", route' = "getRepo", stored PROVE RepoSurvives'
    <3>1. Copy \/ FromStorage
      BY <1>2, <2>3 DEF ReaderInv, Read, Check, Resolve, ForDimensions, ContentNodes, GetURI,
         Linked, URIsFound, Search, Answers, Found
    <3>2. jsonBuffer \in Export /\ current \in Export BY DEF IInv
    <3>3. CASE Copy BY <2>3, <3>2, <3>3 DEF Copy, Answers
    <3>4. CASE FromStorage BY <2>1, <2>3, <3>2, <3>4 DEF FromStorage, Answers, NoSnapshot
    <3> QED BY <3>1, <3>3, <3>4
  <2> QED BY <2>1, <2>2, <2>3
<1>3. CASE Arrive
  <2>1. at' # "done" /\ UNCHANGED vars /\ stored' = ~NoSnapshot
    BY <1>3 DEF Arrive, GetContent, GetNodes, GetURIs, WriteRepoBytes, Begin
  <2>2. UNCHANGED NoSnapshot BY <2>1 DEF NoSnapshot
  <2> QED BY <2>1, <2>2
<1>4. ASSUME Clear PROVE StoredInv' BY <1>4 DEF Clear
<1>5. CASE UNCHANGED allVars BY <1>5 DEF NoSnapshot
<1>6. CASE Meanwhile /\ at = "idle" BY <1>6 DEF Meanwhile
<1> QED BY <1>1, <1>2, <1>3, <1>4, <1>5, <1>6 DEF ServingNext, Lost, Sent

(* Once something has been persisted, a request for the whole repo never   *)
(* fails, whatever crashes, fails, is restored or is persisted half-way    *)
(* before it is answered, if storage can be read (WriteRepoBytes).         *)
THEOREM WholeRepoSurvives ==
  ASSUME "unreadable" \notin Events
  PROVE  ServingSpec => []RepoSurvives
<1>1. ServingInit => StoredInv BY DEF ServingInit, NoRequest, StoredInv, RepoSurvives
<1>2. IInv /\ ReaderInv /\ StoredInv /\ [ServingNext]_allVars => StoredInv' BY StoredStep
<1>3. StoredInv => RepoSurvives BY DEF StoredInv
<1> HIDE DEF allVars
<1> QED BY <1>1, <1>2, <1>3, ReaderInvariant, PTL DEF ServingSpec

-----------------------------------------------------------------------------
(* What a dimension has had since the request arrived is found in it.      *)
Always(d, i) == \A e \in during[d] : Has(e, d, i)

KnownInv ==
  /\ at # "idle" => \A d \in Dimensions : directory[d] \in during[d]
  /\ at = "resolve" /\ id = "page" => \A d \in Among(env) \ Among(rest) : ~Always(d, "page")
  /\ at \in {"resolve", "dims", "uris", "link"} /\ route = "getContent" /\ id # "page" =>
       \A d \in Among(env) : ~Always(d, "page")
  /\ at \in {"uris", "link"} /\ route = "getContent" /\ id # None => \A d \in Dimensions :
       Always(d, id) /\ Always(d, "root") => uris[d] # None \/ d \in left
  /\ StaysKnown

(* What a dimension has had all the time it still has.                     *)
LEMMA StillThere ==
  ASSUME TypeOK, KnownInv, at # "idle", NEW d \in Dimensions, NEW i, Always(d, i)
  PROVE  Has(directory[d], d, i) /\ directory[d] # None
BY DEF KnownInv, Always, Has

LEMMA KnownRead ==
  ASSUME TypeOK, ReaderInv, KnownInv, Read
  PROVE  KnownInv'
<1> USE RepoAssumption, ServingAssumption DEF ReaderInv, ReaderTypeOK
<1>0. UNCHANGED <<vars, history>> /\ at # "idle"
  BY DEF Read, Check, Resolve, ForDimensions, ContentNodes, GetURI, Linked, URIsFound, Search,
     Copy, FromStorage
<1>a. \A d, i : (Always(d, i))' <=> Always(d, i)
  BY <1>0 DEF Always, Has
<1>b. \A d \in Dimensions : directory'[d] \in during'[d]
  BY <1>0 DEF KnownInv
<1>1. ASSUME at' = "done", UNCHANGED route, route # "getContent" \/ reply'.status = "panic"
      PROVE  KnownInv'
  BY <1>b, <1>1 DEF KnownInv, StaysKnown
<1>2. CASE Check
  <2>1. CASE directory[Head(rest)] = None
    <3>1. /\ reply' = [status |-> "error"] /\ at' = "done" /\ UNCHANGED <<route, env>>
      BY <1>2, <2>1 DEF Check, Answers
    <3>2. Head(rest) \in Among(env) /\ Head(rest) \in Dimensions
      BY <1>2, HeadAndTail DEF Check
    <3>3. None \in during[Head(rest)] BY <1>0, <2>1, <3>2 DEF KnownInv
    <3>4. \E n \in DOMAIN env : None \in during[env[n]] BY <3>2, <3>3 DEF Among
    <3> QED BY <1>0, <1>b, <3>1, <3>4 DEF KnownInv, StaysKnown
  <2>2. CASE directory[Head(rest)] # None
    <3>1. \/ UNCHANGED <<at, id>>
          \/ rest' = env /\ id' = "page" /\ at' = "resolve"
      BY <1>2, <2>2 DEF Check
    <3>2. at = "check" /\ UNCHANGED env BY <1>2, <2>2 DEF Check
    <3> QED BY <1>b, <3>1, <3>2 DEF KnownInv, StaysKnown
  <2> QED BY <2>1, <2>2
<1>3. CASE Resolve
  <2>1. /\ Head(rest) \in Dimensions /\ Among(rest) = {Head(rest)} \cup Among(Tail(rest))
        /\ at = "resolve" /\ route = "getContent" /\ UNCHANGED <<route, env, left, uris>>
    BY <1>3, HeadAndTail DEF Resolve
  <2>2. CASE Has(directory[Head(rest)], Head(rest), id)
    <3>1. at' = "dims" /\ id' = id BY <1>3, <2>2 DEF Resolve
    <3> QED BY <1>a, <1>b, <2>1, <3>1 DEF KnownInv, StaysKnown
  <2>3. CASE ~Has(directory[Head(rest)], Head(rest), id)
    <3>1. id = "page" => ~Always(Head(rest), "page")
      BY <1>0, <2>1, <2>3, StillThere
    <3>2. \/ Tail(rest) # <<>> /\ rest' = Tail(rest) /\ id' = id /\ at' = "resolve"
          \/ Tail(rest) = <<>> /\ rest' = env /\ id' = "root" /\ at' = "resolve"
          \/ Tail(rest) = <<>> /\ id # "page" /\ id' = None /\ at' = "uris"
      BY <1>3, <2>3 DEF Resolve, NextTry
    <3>3. Tail(rest) = <<>> => Among(Tail(rest)) = {} BY DEF Among
    <3>4. id = "page" => \A d \in Among(env) \ Among(Tail(rest)) : ~Always(d, "page")
      BY <2>1, <3>1 DEF KnownInv
    <3>5. id # "page" => \A d \in Among(env) : ~Always(d, "page")
      BY <2>1 DEF KnownInv
    <3> QED BY <1>a, <1>b, <2>1, <3>2, <3>3, <3>4, <3>5 DEF KnownInv, StaysKnown
  <2> QED BY <2>2, <2>3
<1>4. CASE ForDimensions
  <2>1. /\ at = "dims" /\ at' = "uris" /\ left' = {d \in Dimensions : directory[d] # None}
        /\ UNCHANGED <<route, env, id, uris>>
    BY <1>4 DEF ForDimensions
  <2>2. \A d \in Dimensions : Always(d, id) => d \in left'
    BY <1>0, <2>1, StillThere
  <2> QED BY <1>a, <1>b, <2>1, <2>2 DEF KnownInv, StaysKnown
<1>5. CASE ContentNodes
  <2>1. /\ at = "uris" /\ left = {} /\ route = "getContent"
        /\ at' = "done" /\ UNCHANGED <<route, env>>
        /\ reply'.status \in {"ok", "not found"} /\ reply'.id = id /\ reply'.uris = uris
    BY <1>5 DEF ContentNodes, Answers
  <2>2. \A n \in DOMAIN env : Always(env[n], "page") => id = "page"
    BY <2>1 DEF KnownInv, Among
  <2>3. id # None => \A d \in Dimensions : Always(d, id) /\ Always(d, "root") => uris[d] # None
    BY <2>1 DEF KnownInv
  <2> QED BY <1>0, <1>a, <1>b, <2>1, <2>2, <2>3 DEF KnownInv, StaysKnown, Always, Has
<1>6. ASSUME NEW d \in Dimensions, NEW e \in Export, Found(d, e), at \in {"uris", "link"},
             Always(d, id) /\ Always(d, "root") => e # None
      PROVE  KnownInv'
  BY <1>a, <1>b, <1>6 DEF Found, KnownInv, StaysKnown
<1>7. CASE \E d \in Dimensions : GetURI(d)
  <2>1. PICK d \in Dimensions : GetURI(d) BY <1>7
  <2>2. at = "uris" BY <2>1 DEF GetURI
  <2>3. CASE Found(d, None) /\ ~Has(directory[d], d, id)
    BY <1>0, <1>6, <2>2, <2>3, StillThere
  <2>4. CASE Found(d, directory[d]) /\ Has(directory[d], d, id)
    BY <1>6, <2>2, <2>4 DEF Has
  <2>5. CASE at' = "link" /\ UNCHANGED <<route, env, locate, left, uris, reply>>
    BY <1>a, <1>b, <2>2, <2>5 DEF KnownInv, StaysKnown
  <2> QED BY <2>1, <2>3, <2>4, <2>5 DEF GetURI
<1>8. CASE Linked
  <2>1. at = "link" /\ link \in Dimensions BY <1>8 DEF Linked
  <2>2. CASE directory[link] = None
    BY <1>1, <1>8, <2>2 DEF Linked, Answers
  <2>3. CASE directory[link] # None
    <3>1. Found(link, IF Has(directory[link], link, "root") THEN directory[link] ELSE None)
      BY <1>8, <2>3 DEF Linked
    <3>2. Always(link, "root") => Has(directory[link], link, "root")
      BY <1>0, <2>1, StillThere
    <3> QED BY <1>6, <2>1, <2>3, <3>1, <3>2
  <2> QED BY <2>2, <2>3
<1>9. CASE URIsFound BY <1>1, <1>9 DEF URIsFound, Answers
<1>10. CASE Search
  <2>1. CASE at' = "done" BY <1>1, <1>10, <2>1 DEF Search, Answers
  <2>2. CASE at' # "done" BY <1>b, <1>10, <2>2 DEF Search, Answers, KnownInv, StaysKnown
  <2> QED BY <2>1, <2>2
<1>11. CASE Copy
  <2>1. CASE at' = "done" BY <1>1, <1>11, <2>1 DEF Copy, Answers
  <2>2. CASE at' # "done" BY <1>b, <1>11, <2>2 DEF Copy, Answers, KnownInv, StaysKnown
  <2> QED BY <2>1, <2>2
<1>12. CASE FromStorage BY <1>1, <1>12 DEF FromStorage, Answers
<1> QED
  BY <1>2, <1>3, <1>4, <1>5, <1>7, <1>8, <1>9, <1>10, <1>11, <1>12 DEF Read

LEMMA KnownStep ==
  ASSUME TypeOK, TypeOK', ReaderInv, KnownInv, [ServingNext]_allVars
  PROVE  KnownInv'
<1> USE RepoAssumption DEF ReaderInv, ReaderTypeOK
<1>1. ASSUME at' = "idle" PROVE KnownInv' BY <1>1 DEF KnownInv, StaysKnown
<1>2. CASE Meanwhile /\ at # "idle"
  <2>1. /\ UNCHANGED reader
        /\ \A d \in Dimensions : during'[d] = during[d] \cup {directory'[d]}
    BY <1>2 DEF Meanwhile
  <2>2. \A i : \A d \in Dimensions : (Always(d, i))' => Always(d, i)
    BY <2>1 DEF Always, Has
  <2>3. \A d \in Dimensions : directory'[d] \in during'[d] BY <2>1
  <2>4. at # "idle" /\ env \in Seq(Dimensions) /\ Among(env) \subseteq Dimensions
    <3>1. env \in Seq(Dimensions) BY ServingAssumption, NoneLeft
    <3> QED BY <1>2, <3>1 DEF Among
  <2>5. StaysKnown'
    <3> SUFFICES ASSUME at = "done", route = "getContent", reply.status # "panic"
                 PROVE  StaysKnown'
      BY <2>1 DEF StaysKnown
    <3>1. CASE reply.status = "error"
      <4>1. PICK n \in DOMAIN env : None \in during[env[n]]
        BY <3>1 DEF KnownInv, StaysKnown
      <4>2. None \in during'[env[n]] BY <2>1, <2>4, <4>1 DEF Among
      <4> QED BY <2>1, <3>1, <4>2 DEF StaysKnown
    <3>2. CASE reply.status # "error"
      <4>1. \A n \in DOMAIN env : Always(env[n], "page") => reply.id = "page"
        BY <3>2 DEF KnownInv, StaysKnown, Always
      <4>2. reply.id # None => \A d \in Dimensions :
              Always(d, reply.id) /\ Always(d, "root") => reply.uris[d] # None
        BY <3>2 DEF KnownInv, StaysKnown, Always
      <4>3. \A n \in DOMAIN env : (Always(env[n], "page"))' => reply.id = "page"
        BY <2>1, <2>2, <2>4, <4>1 DEF Among
      <4>4. reply.id # None => \A d \in Dimensions :
              (Always(d, reply.id))' /\ (Always(d, "root"))' => reply.uris[d] # None
        BY <2>1, <2>2, <4>2
      <4> QED BY <2>1, <3>2, <4>3, <4>4 DEF StaysKnown, Always
    <3> QED BY <3>1, <3>2
  <2> QED BY <2>1, <2>2, <2>3, <2>4, <2>5 DEF KnownInv
<1>3. CASE Read BY <1>3, KnownRead
<1>4. CASE Arrive
  <2>1. /\ at' \in {"check", "search", "copy", "uris"}
        /\ at' = "uris" => route' # "getContent"
        /\ UNCHANGED vars /\ during' = [d \in Dimensions |-> {directory[d]}]
    BY <1>4 DEF Arrive, GetContent, GetNodes, GetURIs, WriteRepoBytes, Begin
  <2> QED BY <2>1 DEF KnownInv, StaysKnown
<1>5. CASE UNCHANGED allVars BY <1>5 DEF KnownInv, StaysKnown, Always, Has
<1>6. Meanwhile /\ at = "idle" => at' = "idle" BY DEF Meanwhile
<1>7. Clear => at' = "idle" BY DEF Clear
<1> QED BY <1>1, <1>2, <1>3, <1>4, <1>5, <1>6, <1>7 DEF ServingNext, Lost, Sent

(* A page that one of the dimensions asked for has all the time is found   *)
(* by its own URI, and so are its URIs, whatever is loaded meanwhile and   *)
(* by however many callers; only a missing dimension makes a request fail  *)
(* (resolveContent, validateContentRequest, getURIs).                      *)
THEOREM PagesStayKnown == ServingSpec => []StaysKnown
<1>1. ServingInit => KnownInv BY DEF ServingInit, NoRequest, KnownInv, StaysKnown
<1>2. IInv /\ IInv' /\ ReaderInv /\ KnownInv /\ [ServingNext]_allVars => KnownInv'
  BY KnownStep DEF IInv
<1>3. KnownInv => StaysKnown BY DEF KnownInv
<1> HIDE DEF allVars
<1> QED BY <1>1, <1>2, <1>3, ReaderInvariant, PTL DEF ServingSpec

-----------------------------------------------------------------------------
(* While a link is followed, the dimension goes away only with an export   *)
(* that does not have it.                                                  *)
LinkInv ==
  /\ at = "link" => directory[link] # None \/ \E e \in loads : link \notin DimsOf[e]
  /\ DiesOnlyOnRemoval

LEMMA RemovedBySwap ==
  ASSUME OneAtATime, OneInv, Run, NEW d \in Dimensions, directory[d] # None, directory'[d] = None
  PROVE  \E e \in Swapped : d \notin DimsOf[e]
<1> USE RepoAssumption DEF OneInv, IInv
<1>1. (\E p \in Loaders : PruneSwap(p)) \/ DimStore
  BY DEF Run, UpdaterStep, CallerStep, DimStep, LoadStep, TakePoll, Park, PollFails,
  PollUpToDate, GetFails, Answer, PollNewVersion, Get, Parse, AllSent, PruneRead,
  ReadBytes, HistoryAdd, DimBuild, DimReply, Tick, Launch, TryUpdate, Rejected,
  GetCurrentFails, GetCurrent, SetJSONBuffer, Send, Cancel, Exit, NilBuffer
<1>2. ~DimStore
  <2> SUFFICES ASSUME DimStore PROVE FALSE OBVIOUS
  <2>1. At(Dim, "store") /\ directory' = [directory EXCEPT ![jobDim] = jobNodes]
    BY DEF DimStore, AloneInv
  <2>2. jobNodes # None BY <2>1, JobTyped DEF Busy
  <2> QED BY <2>1, <2>2
<1>3. PICK p \in Loaders : PruneSwap(p) BY <1>1, <1>2
<1>4. /\ At(p, "swap") /\ pc'[p] = "bytes" /\ directory' = Keep(seen[p], nodes[p])
      /\ seen[p] = directory
  BY <1>3 DEF PruneSwap, LoadingInv, Loading
<1>5. d \notin DimsOf[nodes[p]] BY <1>4 DEF Keep
<1> QED BY <1>4, <1>5 DEF Swapped

LEMMA LinkStep ==
  ASSUME OneAtATime, OneInv, ReaderInv, LinkInv, [ServingNext]_allVars
  PROVE  LinkInv'
<1> USE RepoAssumption DEF LinkInv, DiesOnlyOnRemoval
<1>0. ReaderInv /\ ReaderTypeOK BY DEF ReaderInv
<1>1. CASE at' \notin {"link", "done"} BY <1>1
<1>2. CASE Meanwhile /\ at # "idle"
  <2>1. UNCHANGED reader /\ loads' = loads \cup Swapped /\ Run
    BY <1>2 DEF Meanwhile
  <2>2. at = "link" /\ directory[link] # None /\ directory'[link] = None =>
          \E e \in Swapped : link \notin DimsOf[e]
    BY <1>0, <2>1, RemovedBySwap DEF ReaderInv, ReaderTypeOK
  <2> QED BY <2>1, <2>2
<1>3. CASE Read
  <2>1. UNCHANGED <<vars, history>> BY <1>3 DEF Read
  <2>2. ASSUME NEW r, Answers(r), r.status # "panic" PROVE LinkInv'
    BY <2>1, <2>2 DEF Answers
  <2>3. CASE Linked
    <3>1. at = "link" BY <2>3 DEF Linked
    <3>2. CASE directory[link] = None
      BY <2>1, <2>3, <3>1, <3>2 DEF Linked, Answers
    <3>3. CASE directory[link] # None BY <1>1, <2>3, <3>3 DEF Linked, Found
    <3> QED BY <3>2, <3>3
  <2>4. CASE \E d \in Dimensions : GetURI(d)
    <3>1. PICK d \in Dimensions : GetURI(d) BY <2>4
    <3>2. CASE at' = "uris" BY <1>1, <3>2
    <3>3. CASE at' = "link" /\ link' = d /\ Has(directory[d], d, id)
      BY <2>1, <3>3 DEF Has
    <3> QED BY <3>1, <3>2, <3>3 DEF GetURI, Found
  <2>5. CASE Check \/ Search \/ Copy
    BY <1>1, <2>2, <2>5 DEF Check, Search, Copy
  <2>6. CASE Resolve \/ ForDimensions
    BY <1>1, <2>6 DEF Resolve, ForDimensions
  <2>7. CASE ContentNodes \/ URIsFound \/ FromStorage
    BY <2>2, <2>7 DEF ContentNodes, URIsFound, FromStorage
  <2> QED BY <1>3, <2>3, <2>4, <2>5, <2>6, <2>7 DEF Read
<1>4. CASE UNCHANGED allVars BY <1>4
<1>5. Meanwhile /\ at = "idle" => at' = "idle" BY DEF Meanwhile
<1>6. Clear => at' = "idle" BY DEF Clear
<1>7. Arrive => at' \in {"check", "search", "copy", "uris"}
  BY DEF Arrive, GetContent, GetNodes, GetURIs, WriteRepoBytes, Begin
<1> QED BY <1>1, <1>2, <1>3, <1>4, <1>5, <1>6, <1>7 DEF ServingNext, Lost, Sent

(* The unchecked look at a dimension fails only if an export without the   *)
(* dimension has been loaded since it was seen there, for one caller at a  *)
(* time, whatever fails (getURIForNode, _updateDimension, loadNodes).      *)
THEOREM PanicNeedsRemoval ==
  ASSUME OneAtATime
  PROVE  ServingSpec => []DiesOnlyOnRemoval
<1>1. ServingInit => LinkInv BY DEF ServingInit, NoRequest, LinkInv, DiesOnlyOnRemoval
<1>2. OneInv /\ ReaderInv /\ LinkInv /\ [ServingNext]_allVars => LinkInv' BY LinkStep
<1>3. LinkInv => DiesOnlyOnRemoval BY DEF LinkInv
<1>4. ServingSpec => []OneInv BY ServingUsesRepo, OneInvariant, PTL
<1> HIDE DEF allVars
<1> QED BY <1>1, <1>2, <1>3, <1>4, ReaderInvariant, PTL DEF ServingSpec

-----------------------------------------------------------------------------
(* While there is no update, what a request has found is of the persisted  *)
(* export, and the dimension of a link stays.                              *)
CalmInv ==
  /\ calm = TRUE => at # "idle" /\ Quiet
  /\ calm = TRUE /\ current # None => \A d \in Dimensions : uris[d] \in {current, None}
  /\ calm = TRUE /\ at = "link" => directory[link] # None
  /\ QuietAnswers

Restored == OneInv /\ CurrentLoadable /\ RestoredInv

(* Between the requests to update, what is persisted stays.                *)
LEMMA QuietCurrent ==
  ASSUME TypeOK, [Next]_vars, Quiet
  PROVE  current' = current
<1> SUFFICES ASSUME current' # current PROVE FALSE OBVIOUS
<1>1. PICK p \in Loaders : HistoryAdd(p) BY OnlyAdds
<1> QED BY <1>1 DEF HistoryAdd, Quiet

LEMMA CalmRead ==
  ASSUME Reliable, Restored, ReaderInv, CalmInv, Read
  PROVE  CalmInv'
<1> USE RepoAssumption, ServingAssumption DEF CalmInv, QuietAnswers
<1>0. /\ UNCHANGED <<vars, history>> /\ at # "idle" /\ ReaderTypeOK /\ Quiet' = Quiet
      /\ TypeOK
  BY DEF Read, ReaderInv, Restored, OneInv, IInv, Quiet, Check, Resolve, ForDimensions, ContentNodes,
     GetURI, Linked, URIsFound, Search, Copy, FromStorage
<1> SUFFICES ASSUME calm = TRUE PROVE CalmInv'
  BY <1>0 DEF ReaderTypeOK
<1>1. current # None =>
        /\ \A d \in Dimensions : directory[d] \in {current, None}
        /\ jsonBuffer = current /\ current \notin Malformed
  BY QuietIsRestored DEF Restored, RestoredWorld, Tree, CurrentLoadable, Loadable
<1>2. ASSUME at' = "done", UNCHANGED <<route, uris>>,
             current # None =>
               /\ route = "getRepo" => reply' = [status |-> "ok", repo |-> current]
               /\ route = "getNodes" => reply'.nodes \in {current, None}
               /\ route \in {"getContent", "getURIs"} /\ reply'.status # "error" =>
                    /\ reply'.status # "panic"
                    /\ \A d \in Dimensions : reply'.uris[d] \in {current, None}
                    /\ route = "getContent" => reply'.nodes \in {current, None}
      PROVE  CalmInv'
  BY <1>0, <1>2
<1>3. ASSUME at' \notin {"done", "link", "idle"}, UNCHANGED uris PROVE CalmInv'
  BY <1>0, <1>3
<1>4. current # None => \A d \in Dimensions : Nodes(d) \in {current, None}
  BY <1>1 DEF Nodes
<1>5. CASE Check
  <2>1. CASE directory[Head(rest)] = None
    <3>1. /\ at' = "done" /\ UNCHANGED <<route, uris>> /\ route = "getContent"
          /\ reply'.status = "error"
      BY <1>5, <2>1 DEF Check, Answers, ReaderInv
    <3> QED BY <1>2, <3>1
  <2>2. CASE directory[Head(rest)] # None
    BY <1>3, <1>5, <2>2 DEF Check
  <2> QED BY <2>1, <2>2
<1>6. CASE Resolve BY <1>3, <1>6 DEF Resolve
<1>7. CASE ForDimensions BY <1>3, <1>7 DEF ForDimensions
<1>8. CASE ContentNodes
  <2>1. /\ at' = "done" /\ UNCHANGED <<route, uris>> /\ route = "getContent" /\ dim \in Dimensions
        /\ reply'.status \in {"ok", "not found"} /\ reply'.uris = uris /\ reply'.nodes = Nodes(dim)
    BY <1>8 DEF ContentNodes, Answers, ReaderInv
  <2> QED BY <1>2, <1>4, <2>1
<1>9. ASSUME NEW d \in Dimensions, NEW e, Found(d, e), current # None => e \in {current, None}
      PROVE  CalmInv'
  BY <1>0, <1>9 DEF Found, ReaderTypeOK
<1>10. CASE \E d \in Dimensions : GetURI(d)
  <2>1. PICK d \in Dimensions : GetURI(d) BY <1>10
  <2>2. CASE Found(d, None) \/ Found(d, directory[d]) BY <1>1, <1>9, <2>2
  <2>3. CASE /\ link' = d /\ at' = "link" /\ Has(directory[d], d, id)
             /\ UNCHANGED <<route, env, locate, left, uris, reply>>
    BY <1>0, <2>3 DEF Has
  <2> QED BY <2>1, <2>2, <2>3 DEF GetURI
<1>11. CASE Linked
  <2>1. directory[link] # None /\ link \in Dimensions
    BY <1>0, <1>11 DEF Linked, ReaderInv, ReaderTypeOK
  <2>2. Found(link, IF Has(directory[link], link, "root") THEN directory[link] ELSE None)
    BY <1>11, <2>1 DEF Linked
  <2> QED BY <1>1, <1>9, <2>1, <2>2
<1>12. CASE URIsFound
  <2>1. /\ at' = "done" /\ UNCHANGED <<route, uris>> /\ route = "getURIs"
        /\ reply'.status = "ok" /\ reply'.uris = uris
    BY <1>12 DEF URIsFound, Answers
  <2> QED BY <1>2, <2>1
<1>13. CASE Search
  <2>1. CASE rest = <<>> \/ directory[Head(rest)] # None
    <3>1. /\ at' = "done" /\ UNCHANGED <<route, uris>> /\ route = "getNodes"
          /\ reply'.nodes = IF rest = <<>> THEN None ELSE Nodes(Head(rest))
      BY <1>13, <2>1 DEF Search, Answers, ReaderInv
    <3>2. rest # <<>> => Head(rest) \in Dimensions
      BY <1>0, HeadAndTail DEF ReaderTypeOK
    <3> QED BY <1>2, <1>4, <3>1, <3>2
  <2>2. CASE ~(rest = <<>> \/ directory[Head(rest)] # None)
    BY <1>3, <1>13, <2>2 DEF Search
  <2> QED BY <2>1, <2>2
<1>14. CASE Copy
  <2>1. CASE jsonBuffer \in {None} \cup Blank BY <1>3, <1>14, <2>1 DEF Copy
  <2>2. CASE jsonBuffer \notin {None} \cup Blank
    <3>1. /\ at' = "done" /\ UNCHANGED <<route, uris>> /\ route = "getRepo"
          /\ reply' = [status |-> "ok", repo |-> jsonBuffer]
      BY <1>14, <2>2 DEF Copy, Answers, ReaderInv
    <3> QED BY <1>1, <1>2, <3>1
  <2> QED BY <2>1, <2>2
<1>15. CASE FromStorage
  <2>1. /\ at' = "done" /\ UNCHANGED <<route, uris>> /\ route = "getRepo"
        /\ current # None => reply' = [status |-> "ok", repo |-> current]
    BY <1>15 DEF FromStorage, Answers, NoSnapshot, Reliable, ReaderInv
  <2> QED BY <1>2, <2>1
<1> QED
  BY <1>5, <1>6, <1>7, <1>8, <1>10, <1>11, <1>12, <1>13, <1>14, <1>15 DEF Read

LEMMA CalmStep ==
  ASSUME OneAtATime, Reliable, Restored, ReaderInv, CalmInv, [ServingNext]_allVars
  PROVE  CalmInv'
<1>0. ReaderTypeOK /\ TypeOK /\ OneInv BY DEF ReaderInv, Restored, OneInv, IInv
<1>1. CASE Clear BY <1>1 DEF Clear, CalmInv, QuietAnswers
<1>2. CASE Meanwhile
  <2>1. UNCHANGED reader BY <1>2 DEF Meanwhile
  <2>2. CASE calm' # TRUE
    <3>1. calm' = FALSE
      BY <1>0, <1>2, <2>2, Zenon DEF Meanwhile, ReaderTypeOK
    <3> QED BY <3>1 DEF CalmInv, QuietAnswers
  <2>3. CASE calm' = TRUE
    <3>1. at # "idle" /\ calm = TRUE /\ Quiet /\ Quiet'
      BY <1>0, <1>2, <2>3 DEF Meanwhile, CalmInv, ReaderTypeOK
    <3>2. current' = current /\ directory' = directory
      BY <1>0, <3>1, ServerStep, QuietStep, QuietCurrent
    <3> QED BY <2>1, <2>3, <3>1, <3>2 DEF CalmInv, QuietAnswers
  <2> QED BY <2>2, <2>3
<1>3. CASE Read BY <1>3, CalmRead
<1>4. CASE Arrive
  <2>1. /\ at' \in {"check", "search", "copy", "uris"} /\ uris' = Empty
        /\ UNCHANGED vars /\ (calm' = TRUE => Quiet)
    BY <1>4 DEF Arrive, GetContent, GetNodes, GetURIs, WriteRepoBytes, Begin, ReaderInv
  <2> QED BY <2>1 DEF CalmInv, QuietAnswers, Quiet
<1>5. CASE UNCHANGED allVars BY <1>5 DEF CalmInv, QuietAnswers, Quiet
<1> QED BY <1>1, <1>2, <1>3, <1>4, <1>5 DEF ServingNext, Lost, Sent

(* Without an update under way, an answer is of one export, the persisted  *)
(* one, for one caller and a storage that works (GetContent, GetURIs,      *)
(* GetNodes, WriteRepoBytes).                                              *)
THEOREM AnswersAreOfOneExport ==
  ASSUME OneAtATime, Reliable
  PROVE  ServingSpec => []QuietAnswers
<1>1. ServingInit => CalmInv BY DEF ServingInit, NoRequest, CalmInv, QuietAnswers
<1>2. Restored /\ ReaderInv /\ CalmInv /\ [ServingNext]_allVars => CalmInv' BY CalmStep
<1>3. CalmInv => QuietAnswers BY DEF CalmInv
<1>4. ServingSpec => []Restored BY ServingUsesRepo, RestoredInvariant, PTL DEF Restored
<1> HIDE DEF allVars
<1> QED BY <1>1, <1>2, <1>3, <1>4, ReaderInvariant, PTL DEF ServingSpec
=============================================================================
