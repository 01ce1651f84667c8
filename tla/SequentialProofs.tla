-------------------------- MODULE SequentialProofs --------------------------
(***************************************************************************)
(* Proofs about Repo for a server whose requests come one after the other: *)
(* one caller, any number of them in a row, and no polling.  What is       *)
(* persisted can be loaded, is what is served, and Repo implements         *)
(* Publication.  With two callers, or a poller, none of this holds.        *)
(***************************************************************************)
EXTENDS RepoProofs

OneAtATime == Callers = {Starter} /\ Poll = FALSE

(* The buffer holds an export that is completely served.                   *)
Settled == jsonBuffer \in Loadable /\ directory = Tree(jsonBuffer)

Built(dims) == \A d \in dims : directory[d] = jsonBuffer

Sound(e) == DimsOf[e] \ FaultyIn[e]

(* The stages of a load in which it depends on what is shared.             *)
Working == {"send", "wait", "prune", "swap", "bytes", "add"}

(* What a loader loads is the buffer, and the dimensions that have been    *)
(* accepted so far are served from it.                                     *)
Loading(p) ==
  /\ pc[p] \in {"send", "wait", "prune", "swap"} => nodes[p] = jsonBuffer
  /\ At(p, "send") => Built(Sound(nodes[p]) \ todo[p])
  /\ At(p, "wait") => Built(Sound(nodes[p]) \ (todo[p] \cup {jobDim}))
  /\ At(p, "wait") /\ At(Dim, "reply") => Built(Sound(nodes[p]) \ todo[p])
  /\ pc[p] \in {"prune", "swap"} => Built(DimsOf[nodes[p]])
  /\ At(p, "swap") => seen[p] = directory
  /\ pc[p] \in {"bytes", "add"} => Settled
  /\ At(p, "add") => bytes[p] = jsonBuffer

LoadingInv == \A p \in Loaders : Loading(p)

(* Nobody changes what a goroutine that copies the directory has read, or  *)
(* what the updater has just loaded.                                       *)
AloneInv ==
  /\ At(Poller, "off") /\ ~At(Updater, "poll")
  /\ At(Dim, "store") => jobSeen = directory
  /\ At(Updater, "answer") /\ Updater \notin failed => Settled

(* A restore loads what is persisted.                                      *)
RestoreInv ==
  /\ At(Starter, "buffer") => bytes[Starter] = current
  /\ pc[Starter] \in {"parse", "send", "wait", "prune", "swap"} => jsonBuffer = current

(* Between its requests, the caller finds served what is persisted.        *)
RestoredInv ==
  pc[Starter] \in {"idle", "call", "launch"} /\ current # None =>
    jsonBuffer = current /\ directory = Tree(current)

OneInv == IInv /\ LoadingInv /\ AloneInv /\ RestoreInv

USE DEF TypeInv, TypeOK, Loaders, Requesters, Goroutines, Export, Directory,
        Empty, At, Goto, Remember, shared, context, request, locals, job, vars

-----------------------------------------------------------------------------
(* The caller waits while the updater works.                               *)
LEMMA OneLoader ==
  ASSUME OneAtATime, IInv, AloneInv
  PROVE  /\ Loaders = {Starter, Updater} /\ Starter # Updater
         /\ pc[Updater] \notin {"between", "parked", "exited"} => At(Starter, "await")
BY RepoAssumption DEF OneAtATime, IInv, ClientInv, AloneInv

(* A step of one loader is nothing to the other.                           *)
LEMMA ByOne ==
  ASSUME OneAtATime, IInv, AloneInv, NEW p \in Loaders,
         pc[p] \notin {"between", "parked", "exited", "await"},
         \A q \in Loaders \ {p} : pc'[q] = pc[q],
         Loading(p)'
  PROVE  LoadingInv'
<1>1. \A q \in Loaders \ {p} : pc'[q] \notin Working
  BY OneLoader DEF Working
<1>2. \A q \in Loaders \ {p} : Loading(q)'
  BY <1>1 DEF Working, Loading
<1> QED BY <1>2 DEF LoadingInv

(* A step that changes nothing of a load, or ends it.                      *)
LEMMA NotLoading ==
  ASSUME LoadingInv, UNCHANGED <<jsonBuffer, directory, nodes, todo, seen, bytes, jobDim>>,
         pc'[Dim] = "reply" => pc[Dim] = "reply",
         \A p \in Loaders : pc'[p] = pc[p] \/ pc'[p] \notin Working
  PROVE  LoadingInv'
BY DEF LoadingInv, Loading, Working, Built, Settled

LEMMA LoadingStep ==
  ASSUME OneAtATime, OneInv, [Next]_vars
  PROVE  LoadingInv'
<1> USE RepoAssumption DEF OneAtATime, OneInv, AloneInv
<1>t. TypeInv BY DEF IInv
<1> USE <1>t
<1>0. ASSUME NEW p \in Loaders, NEW err \in BOOLEAN, EndLoad(p, err)
      PROVE  /\ \A q \in Loaders \ {p} : pc'[q] = pc[q]
             /\ pc'[p] \notin Working
  BY <1>0 DEF EndLoad, AfterLoad, Working
<1>1. CASE TakePoll BY <1>1 DEF TakePoll
<1>2. CASE Park BY <1>2, NotLoading DEF Park, Working
<1>3. CASE PollFails BY <1>3 DEF PollFails
<1>4. CASE PollUpToDate BY <1>4 DEF PollUpToDate
<1>5. CASE GetFails BY <1>5, NotLoading DEF GetFails, Fail, Working
<1>6. CASE Answer
  <2>1. client = Starter
    BY <1>6 DEF Answer, IInv, ClientInv
  <2>2. /\ pc'[Updater] = "between"
        /\ pc'[Starter] \in Working => pc'[Starter] = "bytes" /\ Updater \notin failed
    BY <1>6, <2>1, OneLoader DEF Answer, AfterAnswer, Working
  <2>3. At(Updater, "answer") /\ UNCHANGED <<jsonBuffer, directory>>
    BY <1>6 DEF Answer
  <2>4. Loading(Starter)' /\ Loading(Updater)'
    BY <2>2, <2>3 DEF Loading, Working, Settled
  <2> QED BY <2>4, OneLoader DEF LoadingInv
<1>7. CASE \E e \in Exports : PollNewVersion(e) BY <1>7 DEF PollNewVersion
<1>8. CASE \E e \in Exports : Get(e)
  <2>1. At(Updater, "get") /\ pc' = [pc EXCEPT ![Updater] = "parse"]
    BY <1>8 DEF Get
  <2> QED BY <2>1, ByOne DEF Loading
<1>9. ASSUME NEW p \in Loaders, Parse(p) PROVE LoadingInv'
  <2>1. CASE jsonBuffer \in Malformed
    <3>1. EndLoad(p, TRUE) /\ At(p, "parse") BY <1>9, <2>1 DEF Parse
    <3> QED BY <1>0, <3>1, ByOne DEF Loading, Working
  <2>2. CASE jsonBuffer \notin Malformed
    <3>1. /\ pc[p] = "parse" /\ pc' = [pc EXCEPT ![p] = "send"]
          /\ nodes' = [nodes EXCEPT ![p] = jsonBuffer]
          /\ todo' = [todo EXCEPT ![p] = DimsOf[jsonBuffer]]
          /\ jsonBuffer' = jsonBuffer
      BY <1>9, <2>2 DEF Parse
    <3>2. Loading(p)'
      BY <3>1 DEF Loading, Built, Sound
    <3> QED BY <3>1, <3>2, ByOne
  <2> QED BY <2>1, <2>2
<1>10. ASSUME NEW p \in Loaders, AllSent(p) PROVE LoadingInv'
  <2>1. At(p, "send") /\ todo[p] = {} BY <1>10 DEF AllSent
  <2>2. CASE HasFailed(p)
    <3>1. EndLoad(p, TRUE) BY <1>10, <2>2 DEF AllSent
    <3> QED BY <1>0, <2>1, <3>1, ByOne DEF Loading, Working
  <2>3. CASE ~HasFailed(p)
    <3>1. pc' = [pc EXCEPT ![p] = "prune"] /\ UNCHANGED <<jsonBuffer, directory, nodes>>
      BY <1>10, <2>3 DEF AllSent
    <3>2. DimsOf[nodes[p]] \subseteq Sound(nodes[p]) \ todo[p]
      BY <2>1, <2>3 DEF IInv, VerdictInv, SentFault, NodesInv, HasFailed, Sound
    <3>3. Loading(p)'
      BY <2>1, <3>1, <3>2 DEF LoadingInv, Loading, Built
    <3> QED BY <2>1, <3>1, <3>3, ByOne
  <2> QED BY <2>2, <2>3
<1>11. ASSUME NEW p \in Loaders, PruneRead(p) PROVE LoadingInv'
  <2>1. /\ At(p, "prune") /\ pc' = [pc EXCEPT ![p] = "swap"]
        /\ seen'[p] = directory /\ UNCHANGED <<jsonBuffer, directory, nodes>>
    BY <1>11 DEF PruneRead
  <2>2. Loading(p)'
    BY <2>1 DEF LoadingInv, Loading, Built
  <2> QED BY <2>1, <2>2, ByOne
<1>12. ASSUME NEW p \in Loaders, PruneSwap(p) PROVE LoadingInv'
  <2>1. /\ At(p, "swap") /\ pc' = [pc EXCEPT ![p] = "bytes"]
        /\ directory' = Keep(seen[p], nodes[p]) /\ jsonBuffer' = jsonBuffer
    BY <1>12 DEF PruneSwap
  <2>2. /\ nodes[p] = jsonBuffer /\ seen[p] = directory
        /\ \A d \in DimsOf[jsonBuffer] : directory[d] = jsonBuffer
    BY <2>1 DEF LoadingInv, Loading, Built
  <2>3. nodes[p] \in Loadable
    BY <2>1 DEF IInv, VerdictInv
  <2>4. directory' = Tree(jsonBuffer)
    BY <2>1, <2>2 DEF Keep, Tree
  <2>5. Loading(p)'
    BY <2>1, <2>2, <2>3, <2>4 DEF Loading, Settled
  <2> QED BY <2>1, <2>5, ByOne
<1>13. ASSUME NEW p \in Loaders, ReadBytes(p) PROVE LoadingInv'
  <2>1. /\ At(p, "bytes") /\ pc' = [pc EXCEPT ![p] = "add"]
        /\ bytes'[p] = jsonBuffer /\ UNCHANGED <<jsonBuffer, directory>>
    BY <1>13 DEF ReadBytes
  <2>2. Loading(p)'
    BY <2>1 DEF LoadingInv, Loading, Settled
  <2> QED BY <2>1, <2>2, ByOne
<1>14. ASSUME NEW p \in Loaders, HistoryAdd(p) PROVE LoadingInv'
  <2>1. EndLoad(p, FALSE) /\ At(p, "add") BY <1>14 DEF HistoryAdd
  <2> QED BY <1>0, <2>1, ByOne DEF Loading, Working
<1>15. CASE DimBuild
  <2>1. PICK l \in {"reply", "store"} :
          /\ pc' = [pc EXCEPT ![Dim] = l]
          /\ l = "reply" => jobDim \in FaultyIn[jobNodes]
    BY <1>15 DEF DimBuild, Refuses
  <2>2. UNCHANGED <<jsonBuffer, directory, nodes, todo, seen, bytes, jobDim>>
    BY <1>15 DEF DimBuild
  <2>3. \A p \in Loaders : pc'[p] = pc[p]
    BY <2>1
  <2>4. \A p \in Loaders : At(p, "wait") => jobNodes = nodes[p]
    BY DEF IInv, WaiterInv
  <2>5. ASSUME NEW p \in Loaders PROVE Loading(p)'
    BY <2>1, <2>2, <2>3, <2>4 DEF LoadingInv, Loading, Built, Settled, Sound
  <2> QED BY <2>5 DEF LoadingInv
<1>16. CASE DimStore
  <2>1. /\ At(Dim, "store") /\ pc' = [pc EXCEPT ![Dim] = "reply"]
        /\ directory' = [directory EXCEPT ![jobDim] = jobNodes]
        /\ UNCHANGED <<jsonBuffer, nodes, todo, jobDim>>
    BY <1>16 DEF DimStore
  <2>2. PICK p \in Loaders :
          /\ At(p, "wait") /\ jobNodes = nodes[p]
          /\ jobDim \in DimsOf[nodes[p]] /\ DimsOf[nodes[p]] \subseteq Dimensions
    BY <2>1 DEF IInv, WaiterInv, Busy, NodesInv
  <2>3. jobNodes = jsonBuffer
    BY <2>2 DEF LoadingInv, Loading
  <2>4. \A d \in Sound(nodes[p]) \ todo[p] : directory'[d] = jsonBuffer
    BY <2>1, <2>2, <2>3 DEF LoadingInv, Loading, Built, Sound
  <2>5. Loading(p)'
    BY <2>1, <2>2, <2>3, <2>4 DEF LoadingInv, Loading, Built
  <2> QED BY <2>1, <2>2, <2>5, ByOne
<1>17. ASSUME NEW p \in Loaders, DimReply(p) PROVE LoadingInv'
  <2>1. /\ At(Dim, "reply") /\ At(p, "wait")
        /\ pc' = [pc EXCEPT ![p] = "send", ![Dim] = "idle"]
        /\ UNCHANGED <<jsonBuffer, directory, nodes, todo>>
    BY <1>17 DEF DimReply
  <2>2. Loading(p)'
    BY <2>1 DEF LoadingInv, Loading, Built
  <2> QED BY <2>1, <2>2, ByOne
<1>18. CASE Tick BY <1>18 DEF Tick
<1>19. CASE Launch
  <2>1. PICK l \in {"idle", "call"} : pc' = [pc EXCEPT ![Starter] = l, ![Poller] = "off"]
    BY <1>19 DEF Launch
  <2>2. \A p \in Loaders : pc'[p] = pc[p] \/ pc'[p] \notin Working
    BY <2>1 DEF Working
  <2>3. /\ pc'[Dim] = pc[Dim]
        /\ UNCHANGED <<jsonBuffer, directory, nodes, todo, seen, bytes, jobDim>>
    BY <1>19, <2>1 DEF Launch
  <2> QED BY <2>2, <2>3, NotLoading
<1>20. CASE \E c \in Callers : TryUpdate(c)
  BY <1>20, NotLoading DEF TryUpdate, Accept, Working
<1>21. CASE \E c \in Callers : Rejected(c) BY <1>21, NotLoading DEF Rejected, Working
<1>22. ASSUME NEW c \in Callers, GetCurrentFails(c) \/ NilBuffer(c) PROVE LoadingInv'
  <2>1. EndLoad(c, TRUE) /\ pc[c] \in {"current", "bytes"} BY <1>22 DEF GetCurrentFails, NilBuffer
  <2> QED BY <1>0, <2>1, ByOne DEF Loading, Working
<1>23. ASSUME NEW c \in Callers, NEW l \in {"buffer", "parse"},
              pc[c] \in {"current", "buffer"}, pc' = [pc EXCEPT ![c] = l]
       PROVE  LoadingInv'
  BY <1>23, ByOne DEF Loading
<1>24. CASE \E c \in Callers : GetCurrent(c) \/ SetJSONBuffer(c)
  BY <1>23, <1>24 DEF GetCurrent, SetJSONBuffer
<1>25. ASSUME NEW p \in Loaders, NEW d \in Dimensions, Send(p, d) PROVE LoadingInv'
  <2>1. /\ At(p, "send") /\ pc' = [pc EXCEPT ![p] = "wait", ![Dim] = "build"]
        /\ todo'[p] = todo[p] \ {d} /\ jobDim' = d
        /\ UNCHANGED <<jsonBuffer, directory, nodes>>
    BY <1>25 DEF Send
  <2>2. Loading(p)'
    BY <2>1 DEF LoadingInv, Loading, Built
  <2> QED BY <2>1, <2>2, ByOne
<1>26. CASE Cancel \/ UNCHANGED vars BY <1>26, NotLoading DEF Cancel
<1>27. CASE \E g \in {Updater, Dim, Poller} : Exit(g) BY <1>27, NotLoading DEF Exit, Working
<1>28. CASE Die BY <1>28 DEF Die, StartPC, LoadingInv, Loading
<1> QED
  BY <1>1, <1>2, <1>3, <1>4, <1>5, <1>6, <1>7, <1>8, <1>9, <1>10, <1>11, <1>12, <1>13,
     <1>14, <1>15, <1>16, <1>17, <1>18, <1>19, <1>20, <1>21, <1>22, <1>23, <1>24, <1>25,
     <1>26, <1>27, <1>28
  DEF Next, Run, UpdaterStep, CallerStep, DimStep, LoadStep, Restart, NilAtStart

-----------------------------------------------------------------------------
LEMMA AloneStep ==
  ASSUME OneAtATime, OneInv, [Next]_vars
  PROVE  AloneInv'
<1> USE RepoAssumption DEF OneAtATime, OneInv, AloneInv
<1>t. TypeInv BY DEF IInv
<1> USE <1>t
<1>a. ASSUME UNCHANGED <<jsonBuffer, directory, jobSeen>>,
             pc'[Poller] = "off",
             pc'[Dim] = "store" => pc[Dim] = "store",
             \/ pc'[Updater] = pc[Updater] /\ (Updater \in failed => Updater \in failed')
             \/ pc'[Updater] \notin {"answer", "poll"}
             \/ pc'[Updater] = "answer" /\ Updater \in failed'
      PROVE  AloneInv'
  BY <1>a DEF Settled
<1>b. ASSUME NEW p \in Loaders, NEW err \in BOOLEAN, EndLoad(p, err)
      PROVE  /\ pc'[Poller] = pc[Poller] /\ pc'[Dim] = pc[Dim]
             /\ p # Updater => pc'[Updater] = pc[Updater]
             /\ p = Updater => pc'[Updater] = "answer"
             /\ p = Updater /\ err => Updater \in failed'
             /\ p # Updater /\ Updater \in failed => Updater \in failed'
  BY <1>b DEF EndLoad, AfterLoad
<1>1. CASE TakePoll BY <1>1 DEF TakePoll
<1>2. CASE Park BY <1>2, <1>a DEF Park
<1>3. CASE PollFails \/ PollUpToDate \/ \E e \in Exports : PollNewVersion(e)
  BY <1>3 DEF PollFails, PollUpToDate, PollNewVersion
<1>4. CASE GetFails BY <1>4, <1>a DEF GetFails, Fail
<1>5. CASE Answer
  <2>1. client = Starter
    BY <1>5 DEF Answer, IInv, ClientInv
  <2>2. pc'[Updater] = "between" /\ pc'[Poller] = "off" /\ pc'[Dim] = pc[Dim]
    BY <1>5, <2>1, OneLoader DEF Answer
  <2> QED BY <1>5, <1>a, <2>2 DEF Answer
<1>6. ASSUME NEW e \in Exports, Get(e) PROVE AloneInv'
  <2>1. pc' = [pc EXCEPT ![Updater] = "parse"] /\ UNCHANGED <<directory, jobSeen>>
    BY <1>6 DEF Get
  <2> QED BY <2>1
<1>7. ASSUME NEW p \in Loaders, Parse(p) PROVE AloneInv'
  <2>1. CASE jsonBuffer \in Malformed
    <3>1. EndLoad(p, TRUE) /\ UNCHANGED <<jsonBuffer, directory, jobSeen>>
      BY <1>7, <2>1 DEF Parse
    <3> QED BY <1>a, <1>b, <3>1
  <2>2. CASE jsonBuffer \notin Malformed
    <3>1. pc' = [pc EXCEPT ![p] = "send"] /\ UNCHANGED <<jsonBuffer, directory, jobSeen, failed>>
      BY <1>7, <2>2 DEF Parse
    <3> QED BY <1>a, <3>1
  <2> QED BY <2>1, <2>2
<1>8. ASSUME NEW p \in Loaders, AllSent(p) PROVE AloneInv'
  <2>1. CASE HasFailed(p)
    <3>1. EndLoad(p, TRUE) /\ UNCHANGED <<jsonBuffer, directory, jobSeen>>
      BY <1>8, <2>1 DEF AllSent
    <3> QED BY <1>a, <1>b, <3>1
  <2>2. CASE ~HasFailed(p)
    <3>1. pc' = [pc EXCEPT ![p] = "prune"] /\ UNCHANGED <<jsonBuffer, directory, jobSeen, failed>>
      BY <1>8, <2>2 DEF AllSent
    <3> QED BY <1>a, <3>1
  <2> QED BY <2>1, <2>2
<1>9. ASSUME NEW p \in Loaders, PruneRead(p) \/ ReadBytes(p) PROVE AloneInv'
  BY <1>9, <1>a DEF PruneRead, ReadBytes
<1>10. ASSUME NEW p \in Loaders, PruneSwap(p) PROVE AloneInv'
  <2>1. At(p, "swap") /\ pc' = [pc EXCEPT ![p] = "bytes"]
    BY <1>10 DEF PruneSwap
  <2>2. ~At(Dim, "store") /\ pc'[Updater] # "answer"
    BY <2>1, OneLoader DEF IInv, WaiterInv, Busy
  <2> QED BY <2>1, <2>2
<1>11. ASSUME NEW p \in Loaders, HistoryAdd(p) PROVE AloneInv'
  <2>1. /\ EndLoad(p, FALSE) /\ At(p, "add")
        /\ UNCHANGED <<jsonBuffer, directory, jobSeen>>
    BY <1>11 DEF HistoryAdd
  <2>2. Settled /\ Settled'
    BY <2>1 DEF LoadingInv, Loading, Settled
  <2> QED BY <1>b, <2>1, <2>2
<1>12. CASE DimBuild
  <2>1. PICK l \in {"reply", "store"} :
          /\ pc' = [pc EXCEPT ![Dim] = l]
          /\ l = "store" => jobSeen' = directory
    BY <1>12 DEF DimBuild
  <2>2. UNCHANGED <<jsonBuffer, directory, failed>>
    BY <1>12 DEF DimBuild
  <2> QED BY <2>1, <2>2 DEF Settled
<1>13. CASE DimStore
  <2>1. pc' = [pc EXCEPT ![Dim] = "reply"] /\ At(Dim, "store")
    BY <1>13 DEF DimStore
  <2>2. ~At(Updater, "answer")
    BY <2>1, OneLoader DEF IInv, WaiterInv, Busy
  <2> QED BY <2>1, <2>2
<1>14. ASSUME NEW p \in Loaders, DimReply(p) PROVE AloneInv'
  <2>1. /\ pc' = [pc EXCEPT ![p] = "send", ![Dim] = "idle"]
        /\ failed \subseteq failed' /\ UNCHANGED <<jsonBuffer, directory, jobSeen>>
    BY <1>14 DEF DimReply
  <2> QED BY <1>a, <2>1
<1>15. CASE Tick BY <1>15 DEF Tick
<1>16. CASE Launch
  <2>1. /\ \A g \in {Updater, Dim} : pc'[g] = pc[g]
        /\ pc'[Poller] = "off" /\ UNCHANGED <<jsonBuffer, directory, jobSeen, failed>>
    BY <1>16 DEF Launch
  <2> QED BY <1>a, <2>1
<1>17. CASE \E c \in Callers : TryUpdate(c) \/ Rejected(c)
  BY <1>17, <1>a DEF TryUpdate, Accept, Rejected
<1>18. ASSUME NEW c \in Callers, GetCurrentFails(c) \/ NilBuffer(c) PROVE AloneInv'
  <2>1. EndLoad(c, TRUE) /\ UNCHANGED <<jsonBuffer, directory, jobSeen>>
    BY <1>18 DEF GetCurrentFails, NilBuffer
  <2> QED BY <1>a, <1>b, <2>1
<1>19. ASSUME NEW c \in Callers, GetCurrent(c) PROVE AloneInv' BY <1>19, <1>a DEF GetCurrent
<1>20. ASSUME NEW c \in Callers, SetJSONBuffer(c) PROVE AloneInv'
  <2>1. /\ At(c, "buffer") /\ pc' = [pc EXCEPT ![c] = "parse"]
        /\ UNCHANGED <<directory, jobSeen>>
    BY <1>20 DEF SetJSONBuffer
  <2>2. ~At(Updater, "answer") BY <2>1, OneLoader
  <2> QED BY <2>1, <2>2
<1>21. ASSUME NEW p \in Loaders, NEW d \in Dimensions, Send(p, d) PROVE AloneInv'
  BY <1>21, <1>a DEF Send
<1>22. CASE Cancel \/ UNCHANGED vars BY <1>22, <1>a DEF Cancel
<1>23. CASE \E g \in {Updater, Dim, Poller} : Exit(g) BY <1>23, <1>a DEF Exit
<1>24. CASE Die BY <1>24 DEF Die, StartPC
<1> QED
  BY <1>1, <1>2, <1>3, <1>4, <1>5, <1>6, <1>7, <1>8, <1>9, <1>10, <1>11, <1>12, <1>13,
     <1>14, <1>15, <1>16, <1>17, <1>18, <1>19, <1>20, <1>21, <1>22, <1>23, <1>24
  DEF Next, Run, UpdaterStep, CallerStep, DimStep, LoadStep, Restart, NilAtStart

LEMMA RestoreStep ==
  ASSUME OneAtATime, OneInv, [Next]_vars
  PROVE  RestoreInv'
<1> USE RepoAssumption DEF OneAtATime, OneInv, AloneInv, RestoreInv
<1>t. TypeInv BY DEF IInv
<1> USE <1>t
<1>1. CASE TakePoll BY <1>1 DEF TakePoll
<1>2. CASE Park BY <1>2 DEF Park
<1>3. CASE PollFails \/ PollUpToDate \/ \E e \in Exports : PollNewVersion(e)
  BY <1>3 DEF PollFails, PollUpToDate, PollNewVersion
<1>4. CASE GetFails BY <1>4 DEF GetFails, Fail
<1>5. CASE Answer
  <2>1. client = Starter
    BY <1>5 DEF Answer, IInv, ClientInv
  <2>2. pc'[Starter] \in {"current", "bytes"}
    BY <1>5, <2>1, OneLoader DEF Answer, AfterAnswer
  <2> QED BY <2>2
<1>6. CASE \E e \in Exports : Get(e) BY <1>6, OneLoader DEF Get
<1>7. ASSUME NEW p \in Loaders, NEW err \in BOOLEAN, EndLoad(p, err),
             p = Updater => At(Starter, "await")
      PROVE  RestoreInv'
  BY <1>7 DEF EndLoad, AfterLoad
<1>8. ASSUME NEW p \in Loaders, LoadStep(p) PROVE RestoreInv'
  <2>1. pc[p] \in LoadLabels /\ (p = Updater => At(Starter, "await"))
    BY <1>8, OneLoader DEF LoadStep, Parse, AllSent, PruneRead, PruneSwap, ReadBytes, HistoryAdd,
       LoadLabels
  <2>2. ASSUME NEW l \in LoadLabels, pc' = [pc EXCEPT ![p] = l],
               UNCHANGED <<jsonBuffer, current>>, ~At(p, "add"),
               At(p, "bytes") \/ At(p, "swap") => l \in {"bytes", "add"}
        PROVE  RestoreInv'
    BY <2>1, <2>2 DEF LoadLabels
  <2>3. CASE \E err \in BOOLEAN : EndLoad(p, err)
    BY <1>7, <2>1, <2>3
  <2>4. CASE Parse(p) /\ jsonBuffer \notin Malformed
    BY <2>2, <2>4 DEF Parse, LoadLabels
  <2>5. CASE AllSent(p) /\ ~HasFailed(p)
    BY <2>2, <2>5 DEF AllSent, LoadLabels
  <2>6. CASE PruneRead(p) \/ PruneSwap(p) \/ ReadBytes(p)
    BY <2>2, <2>6 DEF PruneRead, PruneSwap, ReadBytes, LoadLabels
  <2> QED BY <1>8, <2>3, <2>4, <2>5, <2>6 DEF LoadStep, Parse, AllSent, HistoryAdd
<1>12. CASE DimBuild BY <1>12 DEF DimBuild
<1>13. CASE DimStore BY <1>13 DEF DimStore
<1>14. CASE \E p \in Loaders : DimReply(p) BY <1>14 DEF DimReply
<1>15. CASE Tick BY <1>15 DEF Tick
<1>16. CASE Launch
  <2>1. pc'[Starter] \in {"idle", "call"}
    BY <1>16 DEF Launch
  <2> QED BY <2>1
<1>17. CASE \E c \in Callers : TryUpdate(c) \/ Rejected(c)
  BY <1>17 DEF TryUpdate, Accept, Rejected
<1>18. ASSUME NEW c \in Callers, GetCurrentFails(c) \/ NilBuffer(c) PROVE RestoreInv'
  BY <1>7, <1>18 DEF GetCurrentFails, NilBuffer
<1>19. CASE \E c \in Callers : GetCurrent(c) \/ SetJSONBuffer(c)
  BY <1>19 DEF GetCurrent, SetJSONBuffer
<1>21. CASE \E p \in Loaders, d \in Dimensions : Send(p, d) BY <1>21 DEF Send
<1>22. CASE Cancel \/ UNCHANGED vars BY <1>22 DEF Cancel
<1>23. CASE \E g \in {Updater, Dim, Poller} : Exit(g) BY <1>23 DEF Exit
<1>24. CASE Die BY <1>24 DEF Die, StartPC
<1> QED
  BY <1>1, <1>2, <1>3, <1>4, <1>5, <1>6, <1>8, <1>12, <1>13,
     <1>14, <1>15, <1>16, <1>17, <1>18, <1>19, <1>21, <1>22, <1>23, <1>24
  DEF Next, Run, UpdaterStep, CallerStep, DimStep, Restart, NilAtStart

-----------------------------------------------------------------------------
(* What may become the persisted export is what has just been loaded.      *)

LEMMA OnlyAdds ==
  ASSUME [Next]_vars, current' # current
  PROVE  \E p \in Loaders : HistoryAdd(p)
BY DEF Next, Run, UpdaterStep, CallerStep, DimStep, LoadStep, TakePoll, Park, PollFails,
  PollUpToDate, GetFails, Answer, PollNewVersion, Get, Parse, AllSent, PruneRead, PruneSwap,
  ReadBytes, DimBuild, DimStore, DimReply, Tick, Launch, TryUpdate, Rejected, GetCurrentFails,
  GetCurrent, SetJSONBuffer, Send, Cancel, Exit, Restart, NilAtStart, NilBuffer, Die

LEMMA LoadableStep ==
  ASSUME "torn" \notin Events, OneInv, CurrentLoadable, [Next]_vars
  PROVE  CurrentLoadable'
<1>1. ASSUME current' # current PROVE current' \in Loadable
  <2>1. PICK p \in Loaders : HistoryAdd(p) BY <1>1, OnlyAdds
  <2>2. At(p, "add") /\ current' \in {bytes[p], current}
    BY <2>1 DEF HistoryAdd, Added
  <2> QED BY <1>1, <2>2 DEF OneInv, LoadingInv, Loading, Settled
<1> QED BY <1>1 DEF CurrentLoadable

Reliable == Events \cap {"torn", "refused", "unreadable"} = {}

(* A restore succeeds, if there is something to restore.                   *)
LEMMA RestoreSucceeds ==
  ASSUME OneAtATime, OneInv, CurrentLoadable, current # None
  PROVE  /\ At(Starter, "parse") => jsonBuffer \notin Malformed
         /\ At(Starter, "send") /\ todo[Starter] = {} => Starter \notin failed
         /\ At(Starter, "bytes") => jsonBuffer # None
<1> USE RepoAssumption DEF OneInv, IInv
<1>0. current \in Exports \ Malformed /\ FaultyIn[current] \cap DimsOf[current] = {}
  BY DEF CurrentLoadable, Loadable
<1>1. At(Starter, "parse") => jsonBuffer \notin Malformed
  BY <1>0 DEF RestoreInv
<1>2. At(Starter, "send") => nodes[Starter] = current
  BY DEF RestoreInv, LoadingInv, Loading
<1>3. At(Starter, "send") => Starter \notin failed
  BY <1>0, <1>2 DEF VerdictInv, SentFault
<1>4. At(Starter, "bytes") => jsonBuffer # None
  BY DEF LoadingInv, Loading, Settled, Loadable
<1> QED BY <1>1, <1>3, <1>4

LEMMA RestoredStep ==
  ASSUME OneAtATime, Reliable, OneInv, CurrentLoadable, RestoredInv, [Next]_vars
  PROVE  RestoredInv'
<1> USE RepoAssumption DEF OneAtATime, OneInv, AloneInv, RestoredInv
<1>t. TypeInv BY DEF IInv
<1> USE <1>t
<1>a. ASSUME UNCHANGED <<jsonBuffer, directory, current>>,
             \/ pc'[Starter] = pc[Starter]
             \/ pc'[Starter] \notin {"idle", "call", "launch"}
             \/ pc[Starter] \in {"idle", "call", "launch"}
             \/ current = None
      PROVE  RestoredInv'
  BY <1>a
<1>1. CASE TakePoll BY <1>1 DEF TakePoll
<1>2. CASE Park BY <1>2, <1>a DEF Park
<1>3. CASE PollFails \/ PollUpToDate \/ \E e \in Exports : PollNewVersion(e)
  BY <1>3 DEF PollFails, PollUpToDate, PollNewVersion
<1>4. CASE GetFails BY <1>4, <1>a DEF GetFails, Fail
<1>5. CASE Answer
  <2>1. client = Starter
    BY <1>5 DEF Answer, IInv, ClientInv
  <2>2. pc'[Starter] \in {"current", "bytes"}
    BY <1>5, <2>1, OneLoader DEF Answer, AfterAnswer
  <2> QED BY <2>2
<1>6. CASE \E e \in Exports : Get(e) BY <1>6, OneLoader DEF Get
<1>7. ASSUME NEW p \in Loaders, LoadStep(p) PROVE RestoredInv'
  <2>1. p = Updater => At(Starter, "await")
    BY <1>7, OneLoader DEF LoadStep, Parse, AllSent, PruneRead, PruneSwap, ReadBytes, HistoryAdd
  <2>2. CASE p = Updater
    <3>1. pc'[Starter] = "await"
      BY <1>7, <2>1, <2>2 DEF LoadStep, Parse, AllSent, PruneRead, PruneSwap, ReadBytes,
         HistoryAdd, EndLoad
    <3> QED BY <3>1
  <2>3. CASE p = Starter
    <3>1. CASE Parse(p) /\ jsonBuffer \in Malformed
      BY <1>a, <2>3, <3>1, RestoreSucceeds DEF Parse
    <3>2. CASE Parse(p) /\ jsonBuffer \notin Malformed
      BY <2>3, <3>2 DEF Parse
    <3>3. CASE AllSent(p) /\ HasFailed(p)
      BY <1>a, <2>3, <3>3, RestoreSucceeds DEF AllSent, HasFailed
    <3>4. CASE AllSent(p) /\ ~HasFailed(p)
      BY <2>3, <3>4 DEF AllSent
    <3>5. CASE PruneRead(p) \/ PruneSwap(p) \/ ReadBytes(p)
      BY <2>3, <3>5 DEF PruneRead, PruneSwap, ReadBytes
    <3>6. CASE HistoryAdd(p)
      <4>1. At(p, "add") /\ current' = bytes[p] /\ UNCHANGED <<jsonBuffer, directory>>
        BY <3>6 DEF HistoryAdd, Added, Reliable
      <4> QED BY <4>1 DEF LoadingInv, Loading, Settled
    <3> QED BY <1>7, <3>1, <3>2, <3>3, <3>4, <3>5, <3>6 DEF LoadStep
  <2> QED BY <2>2, <2>3, OneLoader
<1>12. CASE DimBuild BY <1>12, <1>a DEF DimBuild
<1>13. CASE DimStore
  <2>1. /\ pc' = [pc EXCEPT ![Dim] = "reply"] /\ At(Dim, "store")
        /\ \E p \in Loaders : At(p, "wait")
    BY <1>13 DEF DimStore, IInv, WaiterInv, Busy
  <2>2. pc[Starter] \in {"wait", "await"}
    BY <2>1, OneLoader
  <2> QED BY <2>1, <2>2
<1>14. CASE \E p \in Loaders : DimReply(p) BY <1>14, <1>a DEF DimReply
<1>15. CASE Tick BY <1>15 DEF Tick
<1>16. CASE Launch
  <2>1. At(Starter, "launch") /\ UNCHANGED <<jsonBuffer, directory, current>>
    BY <1>16 DEF Launch
  <2> QED BY <1>a, <2>1
<1>17. CASE \E c \in Callers : TryUpdate(c) \/ Rejected(c)
  BY <1>17, <1>a DEF TryUpdate, Accept, Rejected
<1>18. CASE \E c \in Callers : GetCurrentFails(c)
  BY <1>18, <1>a DEF GetCurrentFails, NoSnapshot, Reliable
<1>19. CASE \E c \in Callers : NilBuffer(c)
  BY <1>19, <1>a, RestoreSucceeds DEF NilBuffer
<1>20. CASE \E c \in Callers : GetCurrent(c) \/ SetJSONBuffer(c)
  BY <1>20 DEF GetCurrent, SetJSONBuffer
<1>21. CASE \E p \in Loaders, d \in Dimensions : Send(p, d) BY <1>21, <1>a DEF Send
<1>22. CASE Cancel \/ UNCHANGED vars BY <1>22, <1>a DEF Cancel
<1>23. CASE \E g \in {Updater, Dim, Poller} : Exit(g) BY <1>23, <1>a DEF Exit
<1>24. CASE Die BY <1>24 DEF Die, StartPC
<1> QED
  BY <1>1, <1>2, <1>3, <1>4, <1>5, <1>6, <1>7, <1>12, <1>13, <1>14, <1>15, <1>16, <1>17,
     <1>18, <1>19, <1>20, <1>21, <1>22, <1>23, <1>24
  DEF Next, Run, UpdaterStep, CallerStep, DimStep, Restart, NilAtStart

-----------------------------------------------------------------------------
LEMMA OneInit == ASSUME OneAtATime, Init PROVE OneInv /\ CurrentLoadable /\ RestoredInv
<1> USE RepoAssumption DEF Init, StartPC
<1>1. IInv BY InitIInv
<1>2. pc[Starter] = "current" /\ pc[Updater] = "between" /\ pc[Dim] = "idle" /\ pc[Poller] = "off"
  OBVIOUS
<1>3. LoadingInv /\ AloneInv /\ RestoreInv
  BY <1>2 DEF LoadingInv, Loading, AloneInv, RestoreInv, OneAtATime
<1> QED BY <1>1, <1>2, <1>3 DEF OneInv, CurrentLoadable, RestoredInv

LEMMA OneStep == ASSUME OneAtATime, OneInv, [Next]_vars PROVE OneInv'
BY LoadingStep, AloneStep, RestoreStep, StepIInv DEF OneInv

LEMMA OneInvariant == ASSUME OneAtATime PROVE Spec => []OneInv
<1> HIDE DEF vars
<1>1. Init => OneInv BY OneInit
<1>2. OneInv /\ [Next]_vars => OneInv' BY OneStep
<1> QED BY <1>1, <1>2, PTL DEF Spec

(* What is persisted can be loaded again, for one caller at a time, unless *)
(* a write may stop half-way (Update, update, loadJSONBytes, Add).         *)
THEOREM PersistedLoads ==
  ASSUME OneAtATime, "torn" \notin Events
  PROVE  Spec => []CurrentLoadable
<1> HIDE DEF vars
<1>1. Init => CurrentLoadable BY OneInit
<1>2. OneInv /\ CurrentLoadable /\ [Next]_vars => CurrentLoadable' BY LoadableStep
<1> QED BY <1>1, <1>2, OneInvariant, PTL DEF Spec

LEMMA RestoredInvariant ==
  ASSUME OneAtATime, Reliable
  PROVE  Spec => [](OneInv /\ CurrentLoadable /\ RestoredInv)
<1> HIDE DEF vars
<1>1. Init => RestoredInv BY OneInit
<1>2. OneInv /\ CurrentLoadable /\ RestoredInv /\ [Next]_vars => RestoredInv' BY RestoredStep
<1>3. "torn" \notin Events BY DEF Reliable
<1>4. Spec => []CurrentLoadable BY <1>3, PersistedLoads
<1> QED BY <1>1, <1>2, <1>4, OneInvariant, PTL DEF Spec

LEMMA QuietIsRestored == ASSUME RestoredInv PROVE RestoredWorld
BY RepoAssumption DEF RestoredInv, RestoredWorld, Quiet

(* Between the requests of one caller, exactly the persisted export is     *)
(* served, whatever has failed, crashed or been refused before, if the     *)
(* storage works (Update, tryToRestoreCurrent, loadNodes, Start).          *)
THEOREM WorldIsRestored ==
  ASSUME OneAtATime, Reliable
  PROVE  Spec => []RestoredWorld
<1>1. RestoredInv => RestoredWorld BY QuietIsRestored
<1> QED BY <1>1, RestoredInvariant, PTL

-----------------------------------------------------------------------------
(* Repo implements Publication, step by step.                              *)

(* From one quiet state to the next, nothing that is served changes.       *)
LEMMA QuietStep ==
  ASSUME OneAtATime, OneInv, [Next]_vars, Quiet, Quiet'
  PROVE  directory' = directory
<1> USE RepoAssumption DEF OneAtATime, OneInv, Quiet
<1>t. TypeInv BY DEF IInv
<1> USE <1>t
<1>1. \A p \in Loaders : pc[p] \in {"idle", "between", "parked", "exited"}
  OBVIOUS
<1>2. pc[Dim] \in {"idle", "exited"}
  OBVIOUS
<1>3. ~Die BY DEF Die, StartPC
<1>4. (\E p \in Loaders : PruneSwap(p)) \/ DimStore \/ directory' = directory
  BY <1>3
  DEF Next, Run, UpdaterStep, CallerStep, DimStep, LoadStep, TakePoll, Park, PollFails,
  PollUpToDate, GetFails, Answer, PollNewVersion, Get, Parse, AllSent, PruneRead,
  ReadBytes, HistoryAdd, DimBuild, DimReply, Tick, Launch, TryUpdate, Rejected,
  GetCurrentFails, GetCurrent, SetJSONBuffer, Send, Cancel, Exit, Restart, NilAtStart, NilBuffer
<1> QED BY <1>1, <1>2, <1>4 DEF PruneSwap, DimStore

LEMMA PublicationStep ==
  ASSUME OneAtATime, Reliable, [Next]_vars,
         OneInv, CurrentLoadable, RestoredInv, CurrentLoadable', RestoredInv', TypeOK'
  PROVE  [Promise!Next]_<<current, Served>>
<1> USE RepoAssumption
<1>1. CASE current' # current
  <2>1. PICK p \in Loaders : HistoryAdd(p) BY <1>1, OnlyAdds
  <2>2. At(p, "add") /\ p \in Loaders BY <2>1 DEF HistoryAdd
  <2>3. Served = None BY <2>2 DEF Served, Quiet, OneInv, IInv
  <2>4. current' \in Loadable /\ current' # None
    <3>1. current' = bytes[p]
      BY <1>1, <2>1 DEF HistoryAdd, Added, Reliable
    <3>2. bytes[p] \in Loadable
      BY <2>2 DEF OneInv, LoadingInv, Loading, Settled
    <3> QED BY <3>1, <3>2 DEF Loadable
  <2>5. Served' \in {None, Tree(current')}
    BY <2>4, QuietIsRestored DEF Served, RestoredInv, Quiet
  <2>6. Promise!Publish(current')
    BY <2>3, <2>5 DEF Promise!Publish, Promise!Tree, Tree
  <2> QED BY <2>4, <2>6 DEF Promise!Next
<1>2. CASE current' = current
  <2>1. CASE Quiet /\ Quiet'
    <3>1. Served' = Served BY <2>1, QuietStep DEF Served
    <3> QED BY <1>2, <3>1
  <2>2. CASE ~Quiet'
    <3>1. Served' = None BY <2>2 DEF Served
    <3> QED BY <1>2, <3>1 DEF Promise!Next, Promise!Begin
  <2>3. CASE ~Quiet /\ Quiet'
    <3>1. Served = None /\ Served' = directory' BY <2>3 DEF Served
    <3>2. current # None => directory' = Promise!Tree(current)
      BY <1>2, <2>3 DEF RestoredInv, Quiet, Promise!Tree, Tree
    <3>3. directory' \in [Dimensions -> Exports \cup {None}]
      OBVIOUS
    <3> QED BY <1>2, <3>1, <3>2, <3>3 DEF Promise!Next, Promise!Settle
  <2> QED BY <2>1, <2>2, <2>3
<1> QED BY <1>1, <1>2

(* Repo serves one persisted export and replaces it only by one it could   *)
(* load: it implements Publication (Start, Update, UpdateRoutine).         *)
THEOREM ImplementsPublication ==
  ASSUME OneAtATime, Reliable
  PROVE  Spec => Publishes
<1>1. Init => Promise!Init
  <2> SUFFICES ASSUME Init PROVE Promise!Init
    OBVIOUS
  <2>1. current = None /\ ~Quiet
    BY RepoAssumption DEF Init, StartPC, Quiet
  <2> QED BY <2>1 DEF Promise!Init, Served
<1> DEFINE Inv == OneInv /\ CurrentLoadable /\ RestoredInv
<1>2. Inv /\ Inv' /\ [Next]_vars => [Promise!Next]_<<current, Served>>
  BY PublicationStep DEF OneInv, IInv
<1> HIDE DEF vars, Inv
<1>3. Spec => []Inv BY RestoredInvariant DEF Inv
<1> QED BY <1>1, <1>2, <1>3, PTL DEF Spec, Publishes, Promise!Spec
=============================================================================
