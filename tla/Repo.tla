-------------------------------- MODULE Repo --------------------------------
(***************************************************************************)
(* The update machinery of pkg/repo: the goroutines that fetch an export,  *)
(* load it dimension by dimension into the directory, persist it in the    *)
(* history and, after a failed update, restore the last persisted one.     *)
(*                                                                         *)
(* UpdateRoutine (Updater) serves update requests one at a time,           *)
(* DimensionUpdateRoutine (Dim) builds one dimension at a time,            *)
(* PollRoutine (Poller) requests an update at every tick, and the members  *)
(* of Callers call Repo.Update; one of them, Starter, first enters through *)
(* Repo.Start.  pc names the statement a goroutine executes next;          *)
(* statements that touch no shared state are merged with their neighbours. *)
(*                                                                         *)
(* An export is the JSON document the content source answers with.  Only   *)
(* three things about it matter: whether it parses (Malformed), which      *)
(* dimensions it has (DimsOf), and which of those buildDirectory or        *)
(* wireAliases refuses (FaultyIn).  The tree of a dimension is named by    *)
(* the export it came from.                                                *)
(***************************************************************************)
EXTENDS Naturals

CONSTANTS
  Callers,       \* goroutines that call Repo.Update
  Starter,       \* the caller that executes Repo.Start
  Updater,       \* the goroutine of UpdateRoutine
  Dim,           \* the goroutine of DimensionUpdateRoutine
  Poller,        \* the goroutine of PollRoutine
  Dimensions,
  Exports,
  Malformed,     \* the exports json.Unmarshal refuses
  DimsOf,        \* the dimensions of an export
  FaultyIn,      \* those of them with a duplicate id or uri, or a dead link
  None,          \* nil, an absent dimension, a missing file
  Poll,          \* the repo is created WithPoll(true)
  Events         \* which of Environment may happen

Environment == {"crash", "shutdown", "unreadable", "refused", "torn", "empty"}

ASSUME RepoAssumption ==
  /\ Starter \in Callers
  /\ Updater \notin Callers /\ Poller \notin Callers /\ Dim \notin Callers
  /\ Updater # Poller /\ Updater # Dim /\ Poller # Dim
  /\ Malformed \subseteq Exports
  /\ DimsOf \in [Exports -> SUBSET Dimensions]
  /\ FaultyIn \in [Exports -> SUBSET Dimensions]
  /\ None \notin Exports \cup Dimensions \cup Callers \cup {Updater, Dim, Poller}
  /\ Poll \in BOOLEAN
  /\ Events \subseteq Environment

Loaders == Callers \cup {Updater}
Requesters == Callers \cup {Poller}
Goroutines == Callers \cup {Updater, Dim, Poller}
Export == Exports \cup {None}
Directory == [Dimensions -> Export]

VARIABLES
  jsonBuffer,    \* Repo.jsonBuffer
  directory,     \* Repo.directory: the export each dimension came from
  pollVersion,   \* Repo.pollVersion: a download url, named by its export
  loaded,        \* Repo.loaded
  current,       \* what storage holds under CurrentKey
  booting,       \* Start has not yet got past its restore
  cancelled,     \* the context passed to Start is done
  pc,            \* the statement each goroutine executes next
  client,        \* the requester whose response channel the updater holds
  repoURL,       \* local of update(): the url the poll answered with
  nodes,         \* local of each loading goroutine: the parsed export
  todo,          \* its dimensions that have not been sent yet
  failed,        \* the goroutines whose load has met an error
  seen,          \* the directory the pruning loop ranges over
  bytes,         \* the slice about to be put into buffer or storage
  jobDim,        \* locals of _updateDimension: the dimension,
  jobNodes,      \* the export it is taken from,
  jobSeen,       \* the directory the copying loop ranges over,
  jobErr         \* and the result

shared == <<jsonBuffer, directory, pollVersion, loaded, current>>
context == <<booting, cancelled>>
request == <<client, repoURL>>
locals == <<nodes, todo, failed, seen, bytes>>
job == <<jobDim, jobNodes, jobSeen, jobErr>>
vars == <<shared, context, pc, request, locals, job>>

Empty == [d \in Dimensions |-> None]

LoadLabels == {"parse", "send", "wait", "prune", "swap", "bytes", "add"}
CallerLabels ==
  LoadLabels \cup {"idle", "call", "await", "current", "buffer", "launch"}
UpdaterLabels ==
  LoadLabels \cup {"between", "parked", "poll", "get", "answer", "exited"}
DimLabels == {"idle", "build", "store", "reply", "exited"}
PollerLabels == {"off", "ticker", "sending", "await", "exited"}
Labels == CallerLabels \cup UpdaterLabels \cup DimLabels \cup PollerLabels

TypeOK ==
  /\ jsonBuffer \in Export /\ directory \in Directory
  /\ pollVersion \in Export /\ loaded \in BOOLEAN /\ current \in Export
  /\ booting \in BOOLEAN /\ cancelled \in BOOLEAN
  /\ pc \in [Goroutines -> Labels]
  /\ \A c \in Callers : pc[c] \in CallerLabels
  /\ pc[Updater] \in UpdaterLabels
  /\ pc[Dim] \in DimLabels
  /\ pc[Poller] \in PollerLabels
  /\ client \in Requesters \cup {None} /\ repoURL \in Export
  /\ nodes \in [Loaders -> Export] /\ todo \in [Loaders -> SUBSET Dimensions]
  /\ failed \subseteq Loaders
  /\ seen \in [Loaders -> Directory] /\ bytes \in [Loaders -> Export]
  /\ jobDim \in Dimensions \cup {None} /\ jobNodes \in Export
  /\ jobSeen \in Directory /\ jobErr \in BOOLEAN

StartPC == [g \in Goroutines |->
             IF g = Starter THEN "current"
             ELSE IF g = Updater THEN "between"
             ELSE IF g = Poller THEN "off" ELSE "idle"]

(* New, and Start up to the point where both routines have been launched.  *)
Init ==
  /\ jsonBuffer = None /\ directory = Empty /\ pollVersion = None
  /\ loaded = FALSE /\ current = None
  /\ booting = TRUE /\ cancelled = FALSE
  /\ pc = StartPC
  /\ client = None /\ repoURL = None
  /\ nodes = [p \in Loaders |-> None] /\ todo = [p \in Loaders |-> {}]
  /\ failed = {}
  /\ seen = [p \in Loaders |-> Empty] /\ bytes = [p \in Loaders |-> None]
  /\ jobDim = None /\ jobNodes = None /\ jobSeen = Empty /\ jobErr = FALSE

At(g, label) == pc[g] = label
Goto(g, label) == pc' = [pc EXCEPT ![g] = label]

-----------------------------------------------------------------------------
(* Requests for an update: tryUpdate, PollRoutine, the receive of          *)
(* UpdateRoutine.  The channel is unbuffered: a send that does not wait    *)
(* succeeds only while the updater is parked in its select, and a sender   *)
(* that waits is served before the updater parks.                          *)

Receiving == At(Updater, "parked") /\ ~cancelled

Accept(r) ==
  /\ client' = r
  /\ pc' = [pc EXCEPT ![r] = "await", ![Updater] = IF Poll THEN "poll" ELSE "get"]

TryUpdate(c) ==
  /\ pc[c] \in {"idle", "call"}
  /\ Receiving
  /\ Accept(c)
  /\ UNCHANGED <<shared, context, repoURL, locals, job>>

Rejected(c) ==
  /\ pc[c] \in {"idle", "call"}
  /\ ~Receiving
  /\ Goto(c, "idle")
  /\ UNCHANGED <<shared, context, request, locals, job>>

Tick ==
  /\ At(Poller, "ticker")
  /\ IF Receiving THEN Accept(Poller) ELSE Goto(Poller, "sending") /\ UNCHANGED client
  /\ UNCHANGED <<shared, context, repoURL, locals, job>>

TakePoll ==
  /\ At(Updater, "between") /\ At(Poller, "sending")
  /\ Accept(Poller)
  /\ UNCHANGED <<shared, context, repoURL, locals, job>>

Park ==
  /\ At(Updater, "between") /\ ~At(Poller, "sending")
  /\ Goto(Updater, "parked")
  /\ UNCHANGED <<shared, context, request, locals, job>>

-----------------------------------------------------------------------------
(* update(): ask for the version when polling, fetch the export.           *)

Fail ==
  /\ failed' = failed \cup {Updater}
  /\ Goto(Updater, "answer")
  /\ UNCHANGED <<nodes, todo, seen, bytes>>

PollFails ==
  /\ At(Updater, "poll")
  /\ Fail
  /\ UNCHANGED <<shared, context, request, job>>

(* The answer is the remembered version; pollVersion is empty at first, so *)
(* an empty answer is one, too.                                            *)
PollUpToDate ==
  /\ At(Updater, "poll")
  /\ pollVersion # None \/ "empty" \in Events
  /\ Goto(Updater, "answer")
  /\ UNCHANGED <<shared, context, request, locals, job>>

PollNewVersion(e) ==
  /\ At(Updater, "poll")
  /\ e # pollVersion
  /\ repoURL' = e
  /\ Goto(Updater, "get")
  /\ UNCHANGED <<shared, context, client, locals, job>>

GetFails ==
  /\ At(Updater, "get")
  /\ Fail
  /\ UNCHANGED <<shared, context, request, job>>

Get(e) ==
  /\ At(Updater, "get")
  /\ Poll => e = repoURL
  /\ jsonBuffer' = e
  /\ Goto(Updater, "parse")
  /\ UNCHANGED <<directory, pollVersion, loaded, current, context, request, locals, job>>

-----------------------------------------------------------------------------
(* Loading the buffer: loadNodesFromJSON, loadNodes and the history.Add    *)
(* that follows, executed by the updater and by every restoring caller.    *)

(* Faulty: a restore ends like an update.                                  *)
AfterAnyLoad(p) == "answer"

AfterLoad(p) ==
  IF p = Updater THEN "answer"
  ELSE IF p = Starter /\ booting THEN "launch" ELSE "idle"

(* A load ends; only the updater still has a use for its error.            *)
EndLoad(p, err) ==
  /\ nodes' = [nodes EXCEPT ![p] = None] /\ todo' = [todo EXCEPT ![p] = {}]
  /\ seen' = [seen EXCEPT ![p] = Empty] /\ bytes' = [bytes EXCEPT ![p] = None]
  /\ failed' = IF err /\ p = Updater THEN failed \cup {p} ELSE failed \ {p}
  /\ Goto(p, AfterLoad(p))

Parse(p) ==
  /\ At(p, "parse")
  /\ IF jsonBuffer \in Malformed
       THEN EndLoad(p, TRUE)
       ELSE /\ nodes' = [nodes EXCEPT ![p] = jsonBuffer]
            /\ todo' = [todo EXCEPT ![p] = DimsOf[jsonBuffer]]
            /\ Goto(p, "send")
            /\ UNCHANGED <<failed, seen, bytes>>
  /\ UNCHANGED <<shared, context, request, job>>

(* Faulty: results are sent from a goroutine of their own.                 *)
DimReceivesEarly == pc[Dim] \in {"idle", "reply"}

DimReceives == At(Dim, "idle")

(* updateDimension: the send on dimensionUpdateChannel meets its receive.  *)
Send(p, d) ==
  /\ At(p, "send") /\ d \in todo[p]
  /\ DimReceives
  /\ todo' = [todo EXCEPT ![p] = @ \ {d}]
  /\ jobDim' = d /\ jobNodes' = nodes[p]
  /\ pc' = [pc EXCEPT ![p] = "wait", ![Dim] = "build"]
  /\ UNCHANGED <<shared, context, request, nodes, failed, seen, bytes, jobSeen, jobErr>>

(* Faulty: the errors of the dimensions are dropped.                       *)
NeverFailed(p) == FALSE

HasFailed(p) == p \in failed

AllSent(p) ==
  /\ At(p, "send") /\ todo[p] = {}
  /\ IF HasFailed(p)
       THEN EndLoad(p, TRUE)
       ELSE Goto(p, "prune") /\ UNCHANGED locals
  /\ UNCHANGED <<shared, context, request, job>>

(* The pruning of orphaned dimensions reads the directory, then sets it.   *)
PruneRead(p) ==
  /\ At(p, "prune")
  /\ seen' = [seen EXCEPT ![p] = directory]
  /\ Goto(p, "swap")
  /\ UNCHANGED <<shared, context, request, nodes, todo, failed, bytes, job>>

(* Faulty: orphaned dimensions stay.                                       *)
KeepAll(dir, e) == dir

Keep(dir, e) == [d \in Dimensions |-> IF d \in DimsOf[e] THEN dir[d] ELSE None]

(* update() notes the version it has loaded; a restore does not.           *)
Remember(p) == pollVersion' = IF Poll /\ p = Updater THEN repoURL ELSE pollVersion

PruneSwap(p) ==
  /\ At(p, "swap")
  /\ directory' = Keep(seen[p], nodes[p])
  /\ Remember(p)
  /\ nodes' = [nodes EXCEPT ![p] = None] /\ seen' = [seen EXCEPT ![p] = Empty]
  /\ Goto(p, "bytes")
  /\ UNCHANGED <<jsonBuffer, loaded, current, context, request, todo, failed, bytes, job>>

(* history.Add(ctx, r.JSONBufferBytes()): the argument is evaluated before *)
(* Add gets the history's lock.                                            *)
ReadBytes(p) ==
  /\ At(p, "bytes") /\ jsonBuffer # None
  /\ bytes' = [bytes EXCEPT ![p] = jsonBuffer]
  /\ Goto(p, "add")
  /\ UNCHANGED <<shared, context, request, nodes, todo, failed, seen, job>>

(* What CurrentKey may hold after an Add of e: an error of the storage is  *)
(* logged and ignored, and a write that stops half-way leaves a file that  *)
(* does not parse.                                                         *)
Added(e) ==
  {e} \cup (IF "refused" \in Events THEN {current} ELSE {})
      \cup (IF "torn" \in Events THEN Malformed ELSE {})

HistoryAdd(p) ==
  /\ At(p, "add")
  /\ current' \in Added(bytes[p])
  /\ EndLoad(p, FALSE)
  /\ UNCHANGED <<jsonBuffer, directory, pollVersion, loaded, context, request, job>>

LoadStep(p) ==
  Parse(p) \/ AllSent(p) \/ PruneRead(p) \/ PruneSwap(p) \/ ReadBytes(p) \/ HistoryAdd(p)

-----------------------------------------------------------------------------
(* DimensionUpdateRoutine and _updateDimension.                            *)

(* Faulty: duplicate ids, duplicate uris and dead links are let through.   *)
RefusesNothing(d, e) == FALSE

Refuses(d, e) == d \in FaultyIn[e]

(* Faulty: a refused dimension gets no answer.                             *)
DimBuildSilent ==
  /\ At(Dim, "build")
  /\ IF Refuses(jobDim, jobNodes)
       THEN jobErr' = FALSE /\ Goto(Dim, "idle") /\ UNCHANGED jobSeen
       ELSE jobSeen' = directory /\ Goto(Dim, "store") /\ UNCHANGED jobErr
  /\ UNCHANGED <<shared, context, request, locals, jobDim, jobNodes>>

(* The new tree is built; unless that fails, the directory is copied ...   *)
DimBuild ==
  /\ At(Dim, "build")
  /\ IF Refuses(jobDim, jobNodes)
       THEN jobErr' = TRUE /\ Goto(Dim, "reply") /\ UNCHANGED jobSeen
       ELSE jobSeen' = directory /\ Goto(Dim, "store") /\ UNCHANGED jobErr
  /\ UNCHANGED <<shared, context, request, locals, jobDim, jobNodes>>

(* Faulty: the other dimensions are not copied.                            *)
DimStoreAlone ==
  /\ At(Dim, "store")
  /\ directory' = [Empty EXCEPT ![jobDim] = jobNodes]
  /\ jobSeen' = Empty
  /\ Goto(Dim, "reply")
  /\ UNCHANGED <<jsonBuffer, pollVersion, loaded, current, context, request, locals,
                 jobDim, jobNodes, jobErr>>

(* ... and the copy, with the new dimension added, replaces it.            *)
DimStore ==
  /\ At(Dim, "store")
  /\ directory' = [jobSeen EXCEPT ![jobDim] = jobNodes]
  /\ jobSeen' = Empty
  /\ Goto(Dim, "reply")
  /\ UNCHANGED <<jsonBuffer, pollVersion, loaded, current, context, request, locals,
                 jobDim, jobNodes, jobErr>>

(* Any goroutine that waits on dimensionUpdateDoneChannel may receive.     *)
DimReply(p) ==
  /\ At(Dim, "reply") /\ At(p, "wait")
  /\ failed' = IF jobErr THEN failed \cup {p} ELSE failed
  /\ jobDim' = None /\ jobNodes' = None /\ jobErr' = FALSE
  /\ pc' = [pc EXCEPT ![p] = "send", ![Dim] = "idle"]
  /\ UNCHANGED <<shared, context, request, nodes, todo, seen, bytes, jobSeen>>

-----------------------------------------------------------------------------
(* The end of a run of UpdateRoutine, and what Repo.Update does with it.   *)

(* Faulty: a failed update is persisted like a successful one.             *)
AfterAnyAnswer(err) == IF client = Poller THEN "ticker" ELSE "bytes"

(* Faulty: the poll routine returns the error of a failed update.          *)
PollOnce(err) ==
  IF client = Poller THEN IF err THEN "exited" ELSE "ticker"
  ELSE IF err THEN "current" ELSE "bytes"

AfterAnswer(err) ==
  IF client = Poller THEN "ticker" ELSE IF err THEN "current" ELSE "bytes"

Answer ==
  /\ At(Updater, "answer")
  /\ loaded' = (loaded \/ Updater \notin failed)
  /\ pc' = [pc EXCEPT ![client] = AfterAnswer(Updater \in failed),
                      ![Updater] = "between"]
  /\ failed' = failed \ {Updater}
  /\ client' = None /\ repoURL' = None
  /\ UNCHANGED <<jsonBuffer, directory, pollVersion, current, context, nodes, todo, seen,
                 bytes, job>>

(* tryToRestoreCurrent: read the snapshot, put it into the buffer, load.   *)

(* Faulty: a missing file is read as an empty one.                         *)
ReadsMissing == FALSE

NoSnapshot == current = None

GetCurrentFails(c) ==
  /\ At(c, "current")
  /\ NoSnapshot \/ "unreadable" \in Events
  /\ EndLoad(c, TRUE)
  /\ UNCHANGED <<shared, context, request, job>>

GetCurrent(c) ==
  /\ At(c, "current")
  /\ ~NoSnapshot
  /\ bytes' = [bytes EXCEPT ![c] = current]
  /\ Goto(c, "buffer")
  /\ UNCHANGED <<shared, context, request, nodes, todo, failed, seen, job>>

SetJSONBuffer(c) ==
  /\ At(c, "buffer")
  /\ jsonBuffer' = bytes[c]
  /\ bytes' = [bytes EXCEPT ![c] = None]
  /\ Goto(c, "parse")
  /\ UNCHANGED <<directory, pollVersion, loaded, current, context, request, nodes, todo,
                 failed, seen, job>>

(* Start after its restore: launch the poll routine, then update unless a  *)
(* request has already loaded something.                                   *)
Launch ==
  /\ At(Starter, "launch")
  /\ booting' = FALSE
  /\ pc' = [pc EXCEPT ![Starter] = IF loaded THEN "idle" ELSE "call",
                      ![Poller] = IF ~Poll THEN "off"
                                  ELSE IF cancelled THEN "exited" ELSE "ticker"]
  /\ UNCHANGED <<shared, cancelled, request, locals, job>>

(* The process ends and is started again; storage keeps what it holds.     *)
Die ==
  /\ jsonBuffer' = None /\ directory' = Empty /\ pollVersion' = None /\ loaded' = FALSE
  /\ booting' = TRUE /\ cancelled' = FALSE
  /\ pc' = StartPC
  /\ client' = None /\ repoURL' = None
  /\ nodes' = [p \in Loaders |-> None] /\ todo' = [p \in Loaders |-> {}]
  /\ failed' = {}
  /\ seen' = [p \in Loaders |-> Empty] /\ bytes' = [p \in Loaders |-> None]
  /\ jobDim' = None /\ jobNodes' = None /\ jobSeen' = Empty /\ jobErr' = FALSE
  /\ UNCHANGED current

(* JSONBufferBytes on a buffer that has never been set: the handler of the *)
(* request recovers ...                                                    *)
NilBuffer(c) ==
  /\ At(c, "bytes") /\ jsonBuffer = None
  /\ EndLoad(c, TRUE)
  /\ UNCHANGED <<shared, context, request, job>>

(* ... but nobody does around the update that Start makes.                 *)
NilAtStart ==
  /\ At(Starter, "bytes") /\ jsonBuffer = None
  /\ Die

-----------------------------------------------------------------------------
(* The environment: the context is cancelled, the process is killed.       *)

Cancel ==
  /\ "shutdown" \in Events /\ ~cancelled
  /\ cancelled' = TRUE
  /\ UNCHANGED <<shared, booting, pc, request, locals, job>>

(* Faulty: DimensionUpdateRoutine does not look at the context.            *)
ExitExceptDim(g) ==
  /\ cancelled
  /\ \/ g = Updater /\ pc[g] \in {"between", "parked"}
     \/ g = Poller /\ At(g, "ticker")
  /\ Goto(g, "exited")
  /\ UNCHANGED <<shared, context, request, locals, job>>

Exit(g) ==
  /\ cancelled
  /\ \/ g = Updater /\ pc[g] \in {"between", "parked"}
     \/ g = Dim /\ At(g, "idle")
     \/ g = Poller /\ At(g, "ticker")
  /\ Goto(g, "exited")
  /\ UNCHANGED <<shared, context, request, locals, job>>

Restart == "crash" \in Events /\ Die

-----------------------------------------------------------------------------
UpdaterStep ==
  \/ TakePoll \/ Park \/ PollFails \/ PollUpToDate \/ GetFails \/ Answer
  \/ \E e \in Exports : PollNewVersion(e) \/ Get(e)
  \/ LoadStep(Updater)

CallerStep(c) ==
  GetCurrentFails(c) \/ GetCurrent(c) \/ SetJSONBuffer(c) \/ NilBuffer(c) \/ LoadStep(c)

DimStep == DimBuild \/ DimStore \/ \E p \in Loaders : DimReply(p)

Run ==
  \/ UpdaterStep
  \/ DimStep
  \/ Tick
  \/ Launch
  \/ \E c \in Callers : TryUpdate(c) \/ Rejected(c) \/ CallerStep(c)
  \/ \E p \in Loaders, d \in Dimensions : Send(p, d)
  \/ Cancel
  \/ \E g \in {Updater, Dim, Poller} : Exit(g)

Next == Run \/ NilAtStart \/ Restart

Spec == Init /\ [][Next]_vars

(* Every goroutine keeps running: each step it can take without waiting is *)
(* weakly fair.  The runtime queues the senders blocked on a channel first *)
(* in, first out, so a send on dimensionUpdateChannel is strongly fair,    *)
(* and a select with several ready cases picks one at random, so leaving a *)
(* loop whose context is done is too.  Nobody has to call Update, except   *)
(* Start; no request has to fail and nothing has to crash.                 *)
Fairness ==
  /\ WF_vars(UpdaterStep)
  /\ WF_vars(DimStep)
  /\ WF_vars(Tick)
  /\ WF_vars(Launch)
  /\ \A c \in Callers : WF_vars(CallerStep(c))
  /\ WF_vars(At(Starter, "call") /\ (TryUpdate(Starter) \/ Rejected(Starter)))
  /\ \A p \in Loaders : SF_vars(\E d \in Dimensions : Send(p, d))
  /\ \A g \in {Updater, Dim, Poller} : SF_vars(Exit(g))

FairSpec == Spec /\ Fairness

-----------------------------------------------------------------------------
(* Properties, whatever the callers do concurrently.                       *)

Loadable == {e \in Exports \ Malformed : FaultyIn[e] \cap DimsOf[e] = {}}
Tree(e) == [d \in Dimensions |-> IF d \in DimsOf[e] THEN e ELSE None]

(* dimensionUpdateDoneChannel is shared by every goroutine that loads, and *)
(* nothing in a result says whose it is.  Still, a loader's accumulated    *)
(* error is exactly that of the dimensions it sent itself: at most one     *)
(* goroutine waits at a time (updateDimension, _updateDimension).          *)
VerdictIsOwn ==
  /\ \A p \in Loaders : At(p, "send") =>
       (p \in failed <=> (DimsOf[nodes[p]] \ todo[p]) \cap FaultyIn[nodes[p]] # {})
  /\ \A p, q \in Loaders : At(p, "wait") /\ At(q, "wait") => p = q

(* Whatever copies of the directory race with each other, a dimension is   *)
(* only ever served from an export that parsed, that has it, and in which  *)
(* buildDirectory and wireAliases accepted it.                             *)
OnlyValidTrees ==
  \A d \in Dimensions : directory[d] # None =>
    LET e == directory[d] IN e \notin Malformed /\ d \in DimsOf[e] \ FaultyIn[e]

(* JSONBufferBytes dereferences the buffer without a check.  Nobody gets   *)
(* to it before a fetch or a restore has set one, but for a caller whose   *)
(* update was up to date with the empty version nothing was loaded from.   *)
NoNilBuffer ==
  jsonBuffer = None =>
    /\ pollVersion = None
    /\ \A p \in Loaders : pc[p] \in {"parse", "bytes"} =>
         "empty" \in Events /\ p # Updater /\ At(p, "bytes") /\ loaded

(* The version remembered for "up to date" only moves to a version every   *)
(* dimension of which was accepted when the updater loaded it, or of what  *)
(* replaced it in the buffer (update, PruneSwap).                          *)
VersionNeedsCleanLoad ==
  [][pollVersion' \notin {pollVersion, None} => nodes[Updater] \in Loadable]_vars

-----------------------------------------------------------------------------
(* Properties of a server whose requests come one after the other.         *)

Quiet ==
  /\ \A c \in Callers : At(c, "idle")
  /\ pc[Updater] \in {"between", "parked", "exited"}
  /\ pc[Poller] \in {"off", "ticker", "sending", "exited"}
  /\ pc[Dim] \in {"idle", "exited"}

(* What is persisted can be loaded again: the buffer that history.Add gets *)
(* after an update or a restore is the export that has just been accepted, *)
(* never one that failed (Update, update, loadJSONBytes).  "persist the    *)
(* currently loaded one" (repo.go 289) claims it for concurrent calls too. *)
CurrentLoadable == current # None => current \in Loadable

(* Once something has been persisted, every call of Update or Start leaves *)
(* exactly the persisted export served and in the buffer: a failed update  *)
(* undoes the dimensions it had already replaced or removed.               *)
RestoredWorld == Quiet /\ current # None =>
  jsonBuffer = current /\ directory = Tree(current)

Served == IF Quiet THEN directory ELSE None

(* The server implements Publication: it serves one persisted export, and  *)
(* replaces it only by one it could load.                                  *)
Promise == INSTANCE Publication WITH world <- current, served <- Served
Publishes == Promise!Spec

-----------------------------------------------------------------------------
(* Liveness.                                                               *)

(* Until the context is done, every accepted request is answered, every    *)
(* restore ends, and the poller gets back to its ticker, however the loads *)
(* compete for the dimension routine: no goroutine waits for a message     *)
(* nobody will send.                                                       *)
CallsReturn ==
  /\ \A c \in Callers : ~At(c, "idle") ~> At(c, "idle") \/ cancelled
  /\ At(Poller, "sending") ~> At(Poller, "ticker") \/ cancelled

(* A load that sends a dimension nobody is left to receive.                *)
Stranded(p) == At(p, "send") /\ todo[p] # {}

(* Whoever awaits the answer of a stranded update.                         *)
Unanswered(r) == At(r, "await") /\ client = r /\ Stranded(Updater)

(* When the context is done, everything ends or returns, but for two ways  *)
(* to hang, after which Start's g.Wait does not return.  A load that is    *)
(* under way when DimensionUpdateRoutine has ended, an update or a         *)
(* restore, waits for ever, and with an update the one who asked for it.   *)
(* And PollRoutine, whose send has no case for the context (loader.go 39), *)
(* waits for ever if UpdateRoutine has left, or is stranded, before it     *)
(* receives.                                                               *)
ShutdownOutcome ==
  cancelled ~> [](/\ At(Dim, "exited")
                  /\ At(Updater, "exited") \/ Stranded(Updater)
                  /\ \A c \in Callers : At(c, "idle") \/ Stranded(c) \/ Unanswered(c)
                  /\ \/ pc[Poller] \in {"exited", "sending"} \/ Unanswered(Poller)
                     \/ At(Poller, "off") /\ (Poll => booting /\ Stranded(Starter)))

(* From some time on the content source answers, and with exports that     *)
(* can be loaded.                                                          *)
SourceRecovers ==
  <>[][/\ ~PollFails /\ ~GetFails
       /\ \A e \in Exports \ Loadable : ~Get(e)]_vars

(* A polling server whose first update has failed does not stay down: once *)
(* the source recovers, an update succeeds without anybody asking for one, *)
(* and with it the socket server gets to listen and the HTTP server is     *)
(* ready, unless the server is stopped before (UpdateRoutine, PollRoutine, *)
(* cmd/socket.go 80-84, cmd/http.go).                                      *)
ComesUp == Poll /\ SourceRecovers => <>(loaded \/ cancelled)

-----------------------------------------------------------------------------
(* What the code says of itself and does not keep.                         *)

(* "already up to date": an update that is skipped because the version is  *)
(* the last one loaded leaves that version served (update, loader.go 273). *)
UpToDate == [][PollUpToDate => directory = Tree(pollVersion)]_vars
=============================================================================
