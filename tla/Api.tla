-------------------------------- MODULE Api ---------------------------------
(***************************************************************************)
(* What a client gets to see: the routes of the two servers (handler.HTTP  *)
(* and handler.Socket, which share executeRequest's shape but not its      *)
(* code) and what HTTPTransport.Call and SocketTransport.Call make of the  *)
(* reply.  Contents are those of Content; how connections are lent, read   *)
(* and lost is the subject of Sessions.                                    *)
(*                                                                         *)
(* An update loads the export that is served once more, or fails: what a   *)
(* new one does is the subject of Repo.                                    *)
(***************************************************************************)
EXTENDS Content

Routes == {"getURIs", "getContent", "getNodes", "update", "getRepo"}

(* What comes with a route: JSON of its type, something else or, over HTTP *)
(* alone, null, a body that cannot be read, or no POST at all.             *)
Forms == {"json", "malformed", "null", "unread", "get"}

ASSUME ApiAssumption == None \notin Routes \cup Forms

VARIABLE call    \* over what, to which route and in which form was asked

apiVars == <<vars, call>>

NoCall == [via |-> None, route |-> None, form |-> None]

ApiInit == Init /\ call = NoCall

-----------------------------------------------------------------------------
(* executeRequest, the same in both servers.                               *)

(* Faulty: the status says how the request went, not the answer.           *)
NewErrorOK(code, q) ==
  [status |-> "error", request |-> q, uris |-> {}, menu |-> None, nodes |-> {},
   code |-> code, http |-> 200]

NewError(code, q) ==
  [status |-> "error", request |-> q, uris |-> {}, menu |-> None, nodes |-> {},
   code |-> code, http |-> 500]

(* With success or without.                                                *)
Update(q) == {Answer("updated", q), Answer("not updated", q)}

(* WriteRepoBytes wraps what the buffer or, if that is empty, a file of    *)
(* the history holds, unread: an export, JSON of another type, or bytes    *)
(* that are no JSON, as none at all are.  It fails without both.           *)
Repo(q) ==
  {Answer("repo", q), Answer("other", q), Answer("garbage", q), NewError(5, q)}

(* From null a nil request is decoded.  GetContent finds it invalid.       *)
ExecuteRequest(route, form, q) ==
  IF route \notin Routes THEN {NewError(1, q)}
  ELSE IF route = "getRepo" THEN Repo(q)
  ELSE IF form = "malformed" THEN {NewError(2, q)}
  ELSE IF form = "null" /\ route = "getContent" THEN {NewError(3, q)}
  ELSE IF form = "null" /\ route \in {"getURIs", "getNodes"} THEN {Panicked(q)}
  ELSE CASE route = "getURIs" -> {URIsOf(q)}
         [] route = "getContent" -> {IF ContentOf(q).status = "error" THEN NewError(3, q)
                                     ELSE ContentOf(q)}
         [] route = "getNodes" -> {NodesOf(q)}
         [] route = "update" -> Update(q)

Post(route, form, q) ==
  /\ Answering
  /\ reply' \in IF form \in {"get", "unread"} THEN {Answer("refused", q)}
               ELSE ExecuteRequest(route, form, q)
  /\ call' = [via |-> "http", route |-> route, form |-> form]
  /\ UNCHANGED <<tree, uri, pending, loading, unwired, directory>>

(* A frame whose json has been read.                                       *)
Frame(route, form, q) ==
  /\ Answering /\ form \in {"json", "malformed"}
  /\ reply' \in ExecuteRequest(route, form, q)
  /\ call' = [via |-> "socket", route |-> route, form |-> form]
  /\ UNCHANGED <<tree, uri, pending, loading, unwired, directory>>

Replied == Sent /\ call' = NoCall

-----------------------------------------------------------------------------
(* What the clients make of a reply.  An error in {"reply": ...} is a      *)
(* content with its status, or an update without success; a map it cannot  *)
(* be, and what getRepo wraps may be no map either.                        *)

Failed == [error |-> TRUE]

Fits(route, a) ==
  /\ a.status \notin {"other", "garbage"}
  /\ a.status # "error" \/ route \in {"getContent", "update"}

Unmarshalled(route, a) ==
  IF a.status # "error" THEN [error |-> FALSE, answer |-> a]
  ELSE IF route = "update" THEN [error |-> FALSE, success |-> FALSE]
  ELSE [error |-> FALSE, status |-> a.http]

(* Faulty: what the repo refuses is an error of the HTTP server.           *)
OKUnlessError(route, a) == a.status \notin {"refused", "panic", "error"}

(* The status of an HTTP response is 200.  Middleware recovers from panics *)
(* with 500; a reply that says error is as good as any, but for getRepo.   *)
OK(route, a) ==
  a.status \notin {"refused", "panic"} /\ ~(route = "getRepo" /\ a.status = "error")

HTTPCall(route, a) ==
  IF OK(route, a) /\ Fits(route, a) THEN Unmarshalled(route, a) ELSE Failed

(* After a panic Serve closes the connection without a reply.              *)
SocketCall(route, a) ==
  IF a.status = "panic" \/ ~Fits(route, a) THEN Failed ELSE Unmarshalled(route, a)

(* Faulty: only answers give the connection back.                          *)
ReturnsAfterAnswer(route, a) == ~SocketCall(route, a).error

(* Whether Call gives its connection back.  What is not of the type of the *)
(* route, but an object, is taken for an error of the server; of what is   *)
(* no JSON nothing can be made.                                            *)
ReturnsConn(route, a) == a.status \notin {"panic", "garbage"}

ClientGets ==
  IF call.via = "http" THEN HTTPCall(call.route, reply) ELSE SocketCall(call.route, reply)

-----------------------------------------------------------------------------
(* Where nobody looks at the request, one is as good as another.           *)
Bodies(route, form) ==
  IF form = "json" /\ route \in {"getURIs", "getContent", "getNodes"}
    THEN Requests ELSE {CHOOSE q \in Requests : TRUE}

ApiNext ==
  \/ Load /\ UNCHANGED call
  \/ \E route \in Routes \cup {"unknown"}, form \in Forms : \E q \in Bodies(route, form) :
       Post(route, form, q) \/ Frame(route, form, q)
  \/ Replied

ApiSpec == ApiInit /\ [][ApiNext]_apiVars
-----------------------------------------------------------------------------
Called == call.form = "json" /\ call.route \in Routes

(* A client may be given either transport: whatever request it sends, in   *)
(* whatever state the trees are, both return the same, value or error,     *)
(* though one server says 500 where the other replies, closes or goes on.  *)
(* A nil request is none of these: HTTP answers it, and the socket server, *)
(* which waits for a "{", does not (executeRequest, encodeReply, Call).    *)
TransportsAgree ==
  Called => HTTPCall(call.route, reply) = SocketCall(call.route, reply)

(* Nothing the server refused, failed at or panicked over, and no export   *)
(* that is none, is taken for an answer: the client has an error, an       *)
(* update without success or a content with a status no content has        *)
(* (executeRequest, NewError, WriteRepoBytes, Call).                       *)
ErrorsAreSeen ==
  Called /\ reply.status \in {"error", "panic", "other", "garbage"} =>
    \/ ClientGets.error
    \/ call.route = "update" /\ ~ClientGets.success
    \/ call.route = "getContent" /\ ClientGets.status \notin {200, 403, 404}

(* What costs a SocketTransport an entry of its pool, while the server is  *)
(* up, is a repo whose export is no JSON, a request for nodes without an   *)
(* env, one with a null node, or a menu over a node whose index names a    *)
(* child it does not have; neither errors nor the rest of what is asked do *)
(* (WriteRepoBytes, GetContent, getNodes, getNode, Call).                  *)
ConnLostOnly ==
  Called /\ call.via = "socket" /\ ~ReturnsConn(call.route, reply) =>
    \/ call.route = "getRepo" /\ reply.status = "garbage"
    \/ call.route = "getNodes" /\ reply.request.env = None
    \/ call.route \in {"getNodes", "getContent"} /\ reply.request.null
    \/ /\ call.route \in {"getNodes", "getContent"}
       /\ \E d \in directory : \E n \in tree[d].dangling, r \in NodesWith(d, reply.request.root) :
            n = r \/ Below(d, r, n)
=============================================================================
