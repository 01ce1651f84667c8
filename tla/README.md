# Verification of contentserver

TLA+ models of contentserver, TLC configurations that check them on small instances, and TLAPS proofs
of the theorems that hold for every instance. `PROJECT.json` lists the runs, the lines each definition
stands for, the faulty variants every property is tried on, the hazards, the findings and the theorems.

## 1. The system

contentserver keeps content trees ("dimensions") in memory and answers queries about them over HTTP and
over a plain TCP socket. A content source is asked for an *export*, one JSON document with a tree for each
dimension; what has been loaded is persisted so that a restart or a failed update can go back to it.

| Component | State | Operations | Talks to | What is hard | What makes it correct |
|---|---|---|---|---|---|
| Update machinery (`pkg/repo/loader.go`, `repo.go`) | `jsonBuffer`, `directory`, `pollVersion`, `loaded`; three channels | `Update`, `Start`, the update, dimension and poll routines, `tryToRestoreCurrent` | each other over unbuffered channels; the content source; History | one result channel for all loaders; restores run beside updates; copies of `directory` written back; cancellation | only accepted trees served; each loader gets its own results; a failed update is undone; what is persisted can be loaded; everybody gets an answer, and but for two known hangs every goroutine ends at shutdown |
| History (`history.go`, `storage_*.go`) | a current file, backups, a lock | `Add`, `GetCurrent`, cleanup | a directory or a bucket | death inside a write, failing calls, names that order time | readers see whole snapshots or a damage that was reported as such; a whole backup survives; the newest backups are kept |
| Content trees and queries (`loader.go` 121-201, `repo.go` 137-219, 365-530, `content/`) | nothing of their own: indexes by id and by URI of each dimension | `buildDirectory`, `wireAliases`, `GetContent`, `GetNodes`, `GetURIs` | read `directory` | duplicates, alias chains and circles, random map order, updates while reading | URIs handed out resolve to what they stand for; hidden and restricted nodes stay out of menus |
| Socket client (`client/connectionpool.go`, `sockettransport.go`) | pool entries, wait pool | `Call`, `Close`, the loop of `run` | the socket server; callers over channels | timeouts, broken connections, draining | one user per connection; no idle connection beside a waiter; no connection lost; no endless wait |
| Socket server (`handler/socket.go`, `cmd/socket.go`) | open connections, a gauge | listen, wait for a first update that succeeds, accept, `Serve` | Repo; the socket client | partial reads, panics, early ends, restarts, no deadlines | the gauge never says less than what is open; every request is answered or its connection closed, once the server accepts; no goroutine outlives its connection |
| Whole-repo export (`repo.go` 221-252) | none of its own | `WriteRepoBytes` | reads `jsonBuffer`, or the history | the buffer is replaced before its export is accepted | what is written between updates is what is served; a restart does not make it unavailable |
| Handlers and clients (`handler/`, `client/`) | none | `executeRequest`, `ServeHTTP`, `Call` of both transports | Repo | two servers and two transports with rules of their own for errors and panics; an export that is passed on unread | both transports return the same; no error is taken for an answer; what costs the socket client a connection is known |
| Commands, metrics, data types | flags, counters | wiring | - | - | - |

## 2. Modules

| Module | Models | Depends on |
|---|---|---|
| `Publication` | abstract: one persisted export, served whenever nobody is updating | |
| `Repo`, `MCRepo`, `RepoProofs`, `SequentialProofs` | the update machinery; implements `Publication` when requests come one after the other | `Publication` |
| `SnapshotRegister` | abstract: a register that an interrupted write can damage | |
| `History`, `MCHistory`, `HistoryProofs` | history and its storages, call by call; implements `SnapshotRegister` | `SnapshotRegister` |
| `Serving`, `MCServing`, `ServingProofs` | a request that reads the repo while it is being updated | `Repo` |
| `ConnectionPool`, `MCConnectionPool`, `ConnectionPoolProofs` | the socket client | |
| `SocketServer` | the socket command and `Serve` | |
| `Sessions`, `MCSessions`, `SessionsProofs` | clients, pool, network and server together | `ConnectionPool`, `SocketServer` |
| `Content`, `ContentProofs` | trees, aliases, resolution, menus | |
| `Api`, `ApiProofs`, `MCContent` | the routes of both servers and what both transports make of the replies | `Content` |

**Repo.** `pc` maps every goroutine to the statement it executes next: the callers of `Repo.Update` (one of
them in `Repo.Start`), `UpdateRoutine`, `DimensionUpdateRoutine` and `PollRoutine`. An unbuffered channel
operation is one action of both sides (`TryUpdate`/`Tick`/`TakePoll` hand a request to the updater, `Send` hands
a dimension to the dimension routine, `DimReply` the result to *whoever* waits, `Answer` the response to the
requester). Each read and each write of a shared field is an action of its own, so all races are there:
`PruneRead` and `PruneSwap`, `DimBuild` (which copies the directory) and `DimStore`, `ReadBytes` and
`HistoryAdd`. An export is a model value with three attributes: does it parse, which dimensions has it, which
of them are refused; a dimension in `directory` is named by the export it came from. `Restart` keeps only what
storage holds; `Cancel` cancels the context. The event `empty` is a source that names the empty version, which
equals the initial `pollVersion`: the poll is up to date with nothing, and the next caller persists a nil buffer
(`NilBuffer`; in `Start`, where nobody recovers, it ends the process: `NilAtStart`).

**Serving.** `Repo` with one reader. Every call of `Directory()` and every look at `jsonBuffer` is a step of its
own: validation dimension by dimension, each prefix and dimension of `resolveContent`, the URI of each dimension
and, for an alias, the second look-up of `getURIForNode`, the nodes. An export says of each dimension whether it
has the page asked for, the root (whose URI is a prefix of the page's) and whether the page links to the root.
Readers write nothing, so one stands for all. `during`, `loads` and `calm` are history variables: what was served
meanwhile, which exports were completely loaded meanwhile, whether there was an update at all. `stored` says of a
request for the whole repo whether something had been persisted when it began: `RepoSurvives` promises it a reply
that is not an error, whatever happens to the buffer and the process before it is written, and no more: whether
what is written was ever loaded is the subject of `WrittenIsRepo`, which does not hold.

**History.** One action per storage call of `Add` under the history's lock, and two for a write: on the
filesystem `os.WriteFile` truncates first, so a file is torn until it is filled. `Refused` fails any call,
`Crash` kills the process anywhere. Backups are named by `time.RFC3339Nano`, of which the model keeps the
fraction of a second: two digits below `Base`, trailing zeros dropped, followed by `Zone`, compared as strings.

**ConnectionPool.** One turn of the loop in `run` is one action: take an event, dial what is missing, lend what
is free, tell who has waited too long. Dialling and lending choose any outcome Go's maps and the network
permit. `Garbled` is the end of `Call` that does not return its connection. The channel fields that `run` sets
to nil are read by callers without synchronisation; a send blocks for ever on a channel nobody reads and on a
nil channel alike, so the model needs no more than `drained`.

**SocketServer, Sessions.** A connection carries frames one way and replies the other. A frame is a well-formed
request, one that announces more bytes than follow, one that announces none, or one whose header cannot be read;
`Serve` reads header and json, executes, replies, and ends in all the ways the code does, with or without the
gauge. The command accepts connections only once an update has succeeded: if the first one fails or is rejected
(`NotLoaded`) it is `waiting`, for an update of the poller or for ever, while the kernel goes on to fill the
backlog; a restore does not end the wait. `Execute` is atomic: what it reads is the subject of Serving, what it
answers that of Api, and all that matters here is whether a client can decode it (`ReplyKinds`). Sessions joins
this to the pool: a dial succeeds while the server listens, an exchange ends as the server and the network make it
end, so `Broken` and `Garbled` of ConnectionPool are consequences here. Other programs (`Guests`) send frames of
every kind; `Mishap` is a restart of the server, a panic of a handler, a reset by the network. `Closers` is empty:
closing the pool is checked in ConnectionPool.

**Content, Api.** Trees are records of functions on positions; what is decoded from JSON is a tree, so going down
always comes to an end (`IsTree`). `Build`, `WireAlias` (in any order) and `Publish`
make a dimension; `ContentOf`, `NodesOf` and `URIsOf` are the answers from it, a panic among them: a request for
nodes without an env, a null node in a request, and an index that names a missing child, dereference nil. Api asks
for them over HTTP (`Post`) and over the socket (`Frame`), on every route, with json that cannot be read and
without, over HTTP also with null, and says what `HTTPTransport.Call` and `SocketTransport.Call` return for each
reply. getRepo passes on bytes that nobody has looked at: they may be JSON of another type, which neither client
accepts, or none at all, over which the socket client keeps its connection from the pool. Mime types, data fields, bread crumbs and
the order of children are left out.

## 3. Runs

| Run | Instance | Shows |
|---|---|---|
| `repo_safety` | 2 callers, poller, 2 dimensions, exports good / partly refused / not parsing, storage faults, crashes, empty versions | `TypeOK`, `VerdictIsOwn`, `OnlyValidTrees`, `NoNilBuffer`, `VersionNeedsCleanLoad` |
| `repo_live` | 1 caller, poller, shutdown, fairness | `CallsReturn`; `ShutdownOutcome`: at shutdown all goroutines end but for a load the dimension routine has left behind or a poll the updater has; `ComesUp` |
| `serving` | 1 caller, 1 reader, no poller, 5 exports (dropping either dimension, partly refused, not parsing), crashes | `CurrentLoadable`, `RestoredWorld`, and `Publishes`: Repo implements Publication; for the reader `StaysKnown`, `DiesOnlyOnRemoval`, `QuietAnswers`, `RepoSurvives`, `ReaderTypeOK` |
| `serving_unserved` | 1 caller, 1 reader | violated: getRepo writes an export that is not served and never will be |
| `repo_persist_race` | 2 callers | violated: a snapshot that cannot be loaded is persisted |
| `repo_poll_stale` | 1 caller, poller | violated: an update is skipped as up to date while what a failed poll has replaced is served |
| `history_fs` | 2 adders, 1 reader, 2 backups, filesystem, zone `+hh:mm` | `BackupOfDamaged`, `Register`, `WithinLimit`, `KeepsItsBackup` |
| `history_utc` | as above, zone `Z` | violated: cleanup deletes the newest backup |
| `pool_lending` | 3 callers, 2 entries, 1 closer, all faults | `LentOnce`, `NoIdleConnection`, `LostWhenGarbled`, `WaitEnds` |
| `sessions` | 2 callers, 1 pool entry, 1 connection for it and 1 of another program, restarts, first updates that fail, panics, resets, undecodable replies, fairness | `AnswerIsOwn`, `CallsEnd`, `GoroutinesEnd`, `GaugeCovers`, `SessionsTypeOK` |
| `session_leak` | 1 caller, 1 entry, 2 connections, fairness | violated: a pool entry is busy for ever |
| `content_answers` | 1534 pairs of trees of 4 nodes, 60 requests, both transports, all routes | `URIsLeadBack`, `AliasURIs`, `MenuIsReachable`, `TransportsAgree`, `ErrorsAreSeen`, `ConnLostOnly` |

**Bounds.** Nothing in the models counts without end, so the bounds are the constants. In Repo two callers and
the updater are three loaders, one more than can take part in any race on the directory, the buffer or the
result channel; two dimensions are what a partly refused export and an orphan need. Two callers
are also the smallest instance in which the races of the violated runs exist. In History the
times are the fractions of one second with two digits, which gives names of all three lengths, and as
many Adds as there are times. In ConnectionPool three callers outnumber two entries, and a third connection
lets every entry be redialled. Trees of four nodes have chains, circles and siblings; the second
dimension is there for the order of dimensions and for URIs of other dimensions. In Serving two dimensions are
enough for an environment whose first does not have the page, and two nodes for a prefix and an alias; the five
exports take each dimension away and bring it back. In Sessions two callers compete for one entry, whose
connection is redialled again and again; with one connection for it a new dial waits until the server has let go
of the old one, which `session_leak`, with two, does not require; that run has decodable replies only, so that its
connection is lost to a close and not to what was sent. `MaxOpen` bounds the gauge: what leaves it too
high (a panic, a reset, a bad header) does not happen to a gauge that has reached it.

**Deadlock** is checked except in `repo_live`, where the server stops after its shutdown, `pool_lending`,
where nothing is left to do after `Close`, and `sessions` and `session_leak`, where nobody has to call.

**Fairness.** Repo: every goroutine keeps executing (weak fairness of its own steps). A send on a channel
with several senders is strongly fair, since the runtime queues blocked senders first in, first out; so is leaving a
loop whose context is done, since `select` picks a ready case at random. Nobody has to call `Update`
except `Start`, and nothing has to fail. ConnectionPool: the loop's goroutine and time keep going; servers
need not answer (`Call` sets no deadline). Sessions: the pool's goroutine, the callers in an exchange, the accept
loop and every goroutine of `Serve` keep executing, time passes, and a server that has stopped is started again.
Its first update ends (`CallsReturn` of Repo), but need not succeed, and nothing brings up a server that waits
after that: `CallsEnd` says that calls end unless the server waits for ever, as it does when the source is down
and nobody polls. With a poller it comes up by `ComesUp`, whose premise is that the source recovers. Nobody has to
call, to visit or to hang up, and nothing has to fail.

## 4. Findings

The violated runs are disagreements of the code with its own comments or docs:

1. `Update` persists the buffer as it is when it gets there, not "the currently loaded one" (repo.go:289).
2. A poll that fails after it has replaced some dimensions is only logged (loader.go:41), not undone as a failed
   `Update` is, and `pollVersion` still names the export loaded before. When the source names that version again,
   the poll is "already up to date" (loader.go:278) although a half-loaded export is served.
3. In UTC the names of backups are not "newest first" (storage.go:17), and cleanup deletes the newest one.
4. A connection the server closes before its reply, as it does after a panic or when it restarts, never comes back
   to the pool, nor does one over which a getRepo reply came that is no JSON, though the loop should "refill connection pool" (connectionpool.go:93).
5. `WriteRepoBytes` "writes the whole repo in all dimensions" (repo.go:221), but what it writes is the buffer, which
   during a load, and after a refused one until the restore, is an export that is in no dimension.

Seen while modelling, and left to the text: at shutdown, `UpdateRoutine` may leave before `PollRoutine` sends
(loader.go:39, a send without a case for the context), and `DimensionUpdateRoutine` before a load of an update or a
restore does (loader.go:112); either waits for ever, and `Start` with it (`ShutdownOutcome` names both). By reading
alone: `pollVersion` also survives a restore, which may replace what it stands for; and a restore between `get` and
`loadNodesFromJSON` makes an update load something else than it has fetched. Two loads that overlap without any error (a restore beside an update)
may leave dimensions that do not belong together, or bring back orphans loader.go:383 needs to throw away.
`Expand` is documented as "the navigation tree or just the path to the resolved content" (requests/node.go:13),
but no path is ever handed to `getNode`, so a menu that is not expanded ends with the children of its root. The
error `SocketTransport.Call` returns for an error reply is always the zero error, since the server's is inside
`{"reply": ...}`; for getContent and update that reply even decodes as an answer, and only its status, 500, or its
lack of success tells (`ErrorsAreSeen`). A nil request is sent as `null`, which the socket server never answers.

## 5. Proofs

All proofs hold for every value of the constants that satisfies the module's `ASSUME`, which TLC evaluates in
the passing runs. Where a theorem needs more, it says so as a hypothesis of its own:

| Hypothesis | Theorems | Why it is needed |
|---|---|---|
| `OneAtATime`: `Start` is the only caller, one request after the other, and nothing is polled | `PersistedLoads`, `WorldIsRestored`, `ImplementsPublication`, `PanicNeedsRemoval`, `AnswersAreOfOneExport` | with two callers `repo_persist_race`, with a poller `repo_poll_stale`, is a counterexample |
| `"torn" \notin Events`: a write of the current file is not interrupted | `PersistedLoads` | a torn file is what cannot be loaded; what is left then is `WholeBackup` |
| `Reliable`: storage calls do not fail, and no write is torn | `WorldIsRestored`, `ImplementsPublication`, `AnswersAreOfOneExport` | a refused write leaves an export served that is not persisted; a file that cannot be read is not restored |
| `"unreadable" \notin Events` | `WholeRepoSurvives` | a restart leaves only the history, which has to be readable |
| `Zone # Zulu` | `BackupIsKept` | finding 3 |

The passing runs that check the same properties satisfy these hypotheses; crashes, malformed and partly refused exports
remain under each of them.

`RepoProofs` (`TypeCorrect`, `BufferIsSet`, `OwnVerdict`, `ValidTrees`, `CleanVersion`): for any callers,
dimensions and exports, and all events. None of the properties is inductive. The invariant `IInv` adds to
types that the buffer is set wherever a load is under way or a version is remembered; that the updater's
client is exactly the requester that awaits an answer (`ClientInv`); that somebody waits for a dimension if
and only if the dimension routine is busy, and then nobody else (`WaiterInv`) and with its own export
(`NodesInv`, `ResultInv`); that the error a loader has accumulated is that of what it has sent (`VerdictInv`);
and that not only the directory but every copy of it holds accepted trees only (`TreeInv`). The proof has one
lemma for each part and in it one step for each action.

`SequentialProofs` (`PersistedLoads`, `WorldIsRestored`, `ImplementsPublication`): with one caller, what is shared
belongs to whoever is loading. `LoadingInv` says so statement by statement: what is being loaded is the buffer, the
dimensions accepted so far are served from it, after pruning nothing else is, and that is what is persisted.
`AloneInv`: nobody changes the directory between the copy and the write of the dimension routine, nor between the
updater's load and its answer. `RestoreInv`: a restore loads what is persisted. `RestoredInv` ties the ends together:
between requests, the buffer and every dimension are those of the persisted export. The refinement of `Publication`
follows: the first statement that is not quiet begins an abstract update, `HistoryAdd` publishes, the step back to quiet
settles what is served, and everything else stutters.

`ServingProofs` (`ServingUsesRepo`, `ReaderTypes`, `WholeRepoSurvives`, `PagesStayKnown`, `PanicNeedsRemoval`,
`AnswersAreOfOneExport`): a reader changes nothing, so a step of Serving is a step of Repo or leaves it alone, and
every theorem about Repo holds while requests are answered. `WholeRepoSurvives` rests on
`PersistedStays` and `StoredInv`: what has been persisted may be torn, but never goes away, and a request that began
after that finds the buffer or the file. `PagesStayKnown` needs no hypothesis: `KnownInv` says that
no dimension the request has passed by has had the page all the time. `LinkInv` says that a dimension that goes while
its link is followed went with an export that does not have it, which with a second caller a copy of the directory
could undo; `CalmInv` that without an update all that a request has collected is of the persisted export.

`HistoryProofs` (`WholeBackup`, `IsRegister`, `LimitIsKept`, `BackupIsKept`): `LockInv` says that only the lock's
holder is inside `Add`, so that at most one write is under way, and `WholeInv` that the backup of this `Add` is whole
from the moment the current file is touched, and that a damaged file without a write under way leaves a whole backup.
Limit, number of adders and storage are arbitrary; so the blob storage, which no run instantiates, is covered.
`IsRegister` is a step-by-step refinement proof. `LimitIsKept` counts: names are in a strict order, so by the pigeonhole
principle at most `Limit` of those present have fewer than `Limit` ahead of them (`KeptFew`), and `CleanupInv` carries
that through the deletions. `BackupIsKept` is about the order itself: names are spelled from the digits of the
fraction, and with an offset a shorter name sorts as its time does (`NewestFirst`); so the newest backup has nothing
ahead of it and is never outdated (`FreshInv`).

`ConnectionPoolProofs` (`TypeCorrect`, `LentToOne`, `NobodyWaitsInVain`, `OnlyGarbledLoses`): no two entries hold one
connection, a holder's entry is busy, no two callers hold one connection. One lemma (`TurnInv`) shows that a turn keeps
this whatever it dials and lends; the three events of the loop only have to establish its precondition `Ready`. That a
turn ends with no entry idle or no caller waiting makes `NobodyWaitsInVain` inductive; `OnlyGarbledLoses` needs that a
busy entry holds a connection (`BusyInv`).

`SessionsProofs` (`SessionsUsePool`, `SessionsTypes`, `GaugeIsEnough`, `AnswersAreOwn`): Sessions implements
ConnectionPool, so the pool's theorems hold of real connections too. `AnswersAreOwn` rests on `WireInv` and `OwnInv`: a
connection of the pool has at most one request or reply under way, and it is for the caller that holds the connection,
for one that comes back with an error is closed and never lent again. `GaugeIsEnough` carries the finite set
of open sessions along with the gauge (`CountInv`): every step that lowers it takes a session out of that set.

`ContentProofs` (lemmas) and `ApiProofs` (`AliasesAreWired`, `URIsAreResolved`, `MenusAreReachable`, `PanicsAreKnown`,
`TransportsReturnTheSame`, `NoErrorIsAnAnswer`): for any trees, aliases and requests. `getNode` and `getURIForNode`
are recursive, and the proofs must not take for granted that such a definition means anything. So `After`, what can be
reached by following a relation, is defined as the least closed set; `GetNodeIs` shows that in a finite tree the nest
getNode builds exists, is the only one, and is what is `Shown` on the way down, and `URIIsOfTarget` that
getURIForNode, down to its limit of recursion, returns the URI of the node the links lead to. Where a proof would use
induction, it picks the least element of a set of numbers, or a node of a set of nodes that has no child in the set.
`LoadInv` says that dimensions are loaded one by one and are unique when served; `WiredInv` that a node's URI is the
exported one, or for a visited alias that of a node behind its links, in whatever order they are visited; `ReplyInv`
that an answer is computed from the trees as they still are, that a panic has one of three causes (no env, a null
node, a missing child), and that only getRepo replies with what is no JSON.

**Model-checked only**: liveness (`CallsReturn`, `ShutdownOutcome`, `ComesUp`, `WaitEnds`, `CallsEnd`,
`GoroutinesEnd`), since fairness and ENABLED are beyond the prover. Every other property of a passing run is stated by
a theorem.

## 6. Not modelled

Flags, the choice and validation of a storage and keel's services (`cmd/`), counters (`pkg/metrics`, but for the
gauge), data types, the URL check and the mock server have no state of their own. In Repo, a null dimension in an
export, which panics its loader, is left out: it ends in a dead process, or in a recovered request with its load
half done. In History, the clock does not go back and the zone does not change. In Sessions, requests are never
nil and the pool is not closed; Api has nil requests over HTTP only, so `TransportsAgree` is not about them; memory that a header without a brace takes is not counted. In Api, an update
loads the same export again or fails. Left out as well: PollRoutine's log line, which reads `pollVersion` while the
updater may be setting it (`loader.go:44`), and an accept that keeps failing and is retried without a pause
(`cmd/socket.go:93`).

## 7. Plan

1. Done: Repo with Publication; History with SnapshotRegister; ConnectionPool; Content; first proofs of each.
2. Done: Serving; SocketServer, Sessions; Api; empty poll answers, what a failed first update leaves behind.
3. Done: every safety property of a passing run proved for all instances that meet the hypotheses of section 5, both
   refinements included.
4. Left: what the liveness properties rest on as safety theorems (nobody waits for an answer or a result that no
   goroutine is going to give), so that only fairness remains for TLC; weaker hypotheses than `OneAtATime`, such as a
   poller without callers.
