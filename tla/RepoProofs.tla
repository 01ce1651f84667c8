----------------------------- MODULE RepoProofs -----------------------------
(***************************************************************************)
(* Proofs about Repo, for any number of callers, dimensions and exports,   *)
(* any content of the exports, with and without polling, whatever of the   *)
(* environment happens.                                                    *)
(***************************************************************************)
EXTENDS Repo, TLAPS

-----------------------------------------------------------------------------
(* The buffer has been set before anybody gets to read it, but for a       *)
(* caller whose update was up to date with the empty version.              *)
BufferInv ==
  /\ \A p \in Loaders : pc[p] \in LoadLabels \ {"bytes"} => jsonBuffer # None
  /\ At(Updater, "bytes") => jsonBuffer # None
  /\ \A c \in Callers : At(c, "bytes") => jsonBuffer # None \/ ("empty" \in Events /\ loaded = TRUE)
  /\ \A p \in Loaders : pc[p] \in {"buffer", "add"} => bytes[p] # None
  /\ At(Updater, "answer") /\ Updater \notin failed => jsonBuffer # None \/ "empty" \in Events
  /\ pollVersion # None => jsonBuffer # None

TypeInv == TypeOK /\ BufferInv

USE DEF TypeInv, TypeOK, Loaders, Requesters, Goroutines, Export, Directory,
        Empty, At, Goto, Remember, shared, context, request, locals, job, vars

LEMMA InitType == ASSUME Init PROVE TypeInv
<1> USE RepoAssumption DEF Init, StartPC, BufferInv
<1> USE DEF LoadLabels, Labels, CallerLabels, UpdaterLabels, DimLabels, PollerLabels
<1>1. pc \in [Goroutines -> Labels] OBVIOUS
<1>2. /\ \A c \in Callers : pc[c] \in CallerLabels
      /\ pc[Updater] \in UpdaterLabels
      /\ pc[Dim] \in DimLabels
      /\ pc[Poller] \in PollerLabels
  OBVIOUS
<1>3. loaded \in BOOLEAN /\ booting \in BOOLEAN /\ cancelled \in BOOLEAN /\ jobErr \in BOOLEAN
  OBVIOUS
<1>4. TypeOK BY <1>1, <1>2, <1>3
<1>5. BufferInv OBVIOUS
<1> QED BY <1>4, <1>5

LEMMA EndLoadType ==
  ASSUME TypeInv, NEW p \in Loaders, NEW err \in BOOLEAN, pc[p] \in LoadLabels, EndLoad(p, err),
         err \/ p # Updater \/ jsonBuffer # None,
         UNCHANGED <<jsonBuffer, directory, pollVersion, loaded, context, request, job>>,
         current' \in Export
  PROVE  TypeInv'
<1> USE RepoAssumption
<1> USE DEF LoadLabels, Labels, CallerLabels, UpdaterLabels, DimLabels, PollerLabels
<1> USE DEF EndLoad, AfterLoad, BufferInv
<1>1. PICK l \in {"answer", "launch", "idle"} :
        /\ pc' = [pc EXCEPT ![p] = l]
        /\ l = "answer" <=> p = Updater
  OBVIOUS
<1>2. failed' \subseteq Loaders OBVIOUS
<1>3. TypeOK' BY <1>1, <1>2
<1>4. Updater \notin failed' /\ pc'[Updater] = "answer" => jsonBuffer # None \/ "empty" \in Events
  BY <1>1
<1>5. BufferInv' BY <1>1, <1>4
<1> QED BY <1>3, <1>5

LEMMA TypeStep ==
  ASSUME TypeInv, [Next]_vars
  PROVE  TypeInv'
<1> USE RepoAssumption DEF BufferInv, LoadLabels, Labels, CallerLabels, UpdaterLabels, DimLabels, PollerLabels
<1>1. CASE TakePoll BY <1>1 DEF TakePoll, Accept
<1>2. CASE Park BY <1>2 DEF Park
<1>3. CASE PollFails BY <1>3 DEF PollFails, Fail
<1>4. CASE PollUpToDate BY <1>4 DEF PollUpToDate
<1>5. CASE GetFails BY <1>5 DEF GetFails, Fail
<1>6. CASE Answer
  <2> USE <1>6 DEF Answer, AfterAnswer
  <2>1. loaded' \in BOOLEAN OBVIOUS
  <2>2. pc' \in [Goroutines -> Labels] OBVIOUS
  <2>3. \A c \in Callers : pc'[c] \in CallerLabels OBVIOUS
  <2>4. pc'[Updater] \in UpdaterLabels /\ pc'[Dim] \in DimLabels /\ pc'[Poller] \in PollerLabels
    OBVIOUS
  <2>5. TypeOK' BY <2>1, <2>2, <2>3, <2>4
  <2>6. BufferInv' BY <2>2
  <2> QED BY <2>5, <2>6
<1>7. CASE \E e \in Exports : PollNewVersion(e) BY <1>7 DEF PollNewVersion
<1>8. CASE \E e \in Exports : Get(e) BY <1>8 DEF Get
<1>9. CASE \E p \in Loaders : Parse(p)
  <2>1. PICK p \in Loaders : Parse(p) BY <1>9
  <2>2. CASE jsonBuffer \in Malformed
    <3>1. EndLoad(p, TRUE) BY <2>1, <2>2 DEF Parse
    <3> QED BY <2>1, <3>1, EndLoadType DEF Parse
  <2>3. CASE jsonBuffer \notin Malformed
    <3> USE <2>1, <2>3 DEF Parse
    <3>1. jsonBuffer \in Exports /\ DimsOf[jsonBuffer] \subseteq Dimensions OBVIOUS
    <3>2. pc' = [pc EXCEPT ![p] = "send"] OBVIOUS
    <3>3. TypeOK'
      <4> HIDE DEF BufferInv
      <4> QED BY <3>1, <3>2
    <3> QED BY <3>2, <3>3
  <2> QED BY <2>2, <2>3
<1>10. CASE \E p \in Loaders : AllSent(p)
  <2>1. PICK p \in Loaders : AllSent(p) BY <1>10
  <2>2. CASE HasFailed(p)
    <3>1. EndLoad(p, TRUE) BY <2>1, <2>2 DEF AllSent
    <3> QED BY <2>1, <3>1, EndLoadType DEF AllSent
  <2>3. CASE ~HasFailed(p)
    <3>1. pc' = [pc EXCEPT ![p] = "prune"] /\ UNCHANGED locals
      BY <2>1, <2>3 DEF AllSent
    <3> HIDE DEF HasFailed
    <3> QED BY <2>1, <3>1 DEF AllSent
  <2> QED BY <2>2, <2>3
<1>11. CASE \E p \in Loaders : PruneRead(p) BY <1>11 DEF PruneRead
<1>12. CASE \E p \in Loaders : PruneSwap(p) BY <1>12 DEF PruneSwap, Keep
<1>13. CASE \E p \in Loaders : ReadBytes(p) BY <1>13 DEF ReadBytes
<1>14. CASE \E p \in Loaders : HistoryAdd(p) BY <1>14 DEF HistoryAdd, Added, EndLoad, AfterLoad
<1>15. CASE DimBuild
  <2> USE <1>15 DEF DimBuild
  <2>1. jobErr' \in BOOLEAN BY Zenon
  <2>2. PICK l \in {"reply", "store"} : pc' = [pc EXCEPT ![Dim] = l] OBVIOUS
  <2>3. jobSeen' \in Directory BY Zenon
  <2>4. UNCHANGED <<shared, context, request, locals, jobDim, jobNodes>> OBVIOUS
  <2> HIDE DEF DimBuild
  <2>5. TypeOK' BY <2>1, <2>2, <2>3, <2>4
  <2> QED BY <2>2, <2>4, <2>5
<1>16. CASE DimStore
  <2> USE <1>16 DEF DimStore
  <2>1. directory' \in Directory OBVIOUS
  <2>2. TypeOK' BY <2>1
  <2> QED BY <2>2
<1>17. CASE \E p \in Loaders : DimReply(p)
  <2>1. PICK p \in Loaders : DimReply(p) BY <1>17
  <2> USE <2>1 DEF DimReply
  <2>2. jobErr' \in BOOLEAN OBVIOUS
  <2>3. failed' \subseteq Loaders OBVIOUS
  <2>4. pc' = [pc EXCEPT ![p] = "send", ![Dim] = "idle"] OBVIOUS
  <2>5. TypeOK'
    <3> HIDE DEF BufferInv
    <3> QED BY <2>2, <2>3, <2>4
  <2> QED BY <2>3, <2>4, <2>5
<1>18. CASE Tick
  <2> USE <1>18 DEF Tick, Receiving, Accept
  <2>1. TypeOK'
    <3> HIDE DEF BufferInv
    <3> QED OBVIOUS
  <2>2. BufferInv' OBVIOUS
  <2> QED BY <2>1, <2>2
<1>19. CASE Launch
  <2> USE <1>19 DEF Launch
  <2>1. booting' \in BOOLEAN OBVIOUS
  <2>2. PICK s \in {"idle", "call"}, q \in {"off", "exited", "ticker"} :
          pc' = [pc EXCEPT ![Starter] = s, ![Poller] = q]
    BY Zenon
  <2>4. UNCHANGED <<shared, cancelled, request, locals, job>> OBVIOUS
  <2> HIDE DEF Launch
  <2>3. TypeOK'
    <3> HIDE DEF BufferInv
    <3> QED BY <2>1, <2>2, <2>4
  <2>5. \A p \in Loaders : pc'[p] # pc[p] => pc'[p] \in {"idle", "call"} BY <2>2
  <2>6. BufferInv'
    <3> HIDE DEF TypeOK
    <3> QED BY <2>4, <2>5
  <2> QED BY <2>3, <2>6
<1>20. CASE \E c \in Callers : TryUpdate(c) BY <1>20 DEF TryUpdate, Receiving, Accept
<1>21. CASE \E c \in Callers : Rejected(c) BY <1>21 DEF Rejected, Receiving
<1>22. CASE \E c \in Callers : GetCurrentFails(c)
  BY <1>22 DEF GetCurrentFails, NoSnapshot, EndLoad, AfterLoad
<1>23. CASE \E c \in Callers : GetCurrent(c) BY <1>23 DEF GetCurrent, NoSnapshot
<1>24. CASE \E c \in Callers : SetJSONBuffer(c) BY <1>24 DEF SetJSONBuffer
<1>25. CASE \E p \in Loaders, d \in Dimensions : Send(p, d) BY <1>25 DEF Send, DimReceives
<1>26. CASE Cancel BY <1>26 DEF Cancel
<1>27. CASE \E g \in {Updater, Dim, Poller} : Exit(g) BY <1>27 DEF Exit
<1>28. CASE Die BY <1>28 DEF Die, StartPC
<1>29. CASE UNCHANGED vars BY <1>29
<1>30. CASE \E c \in Callers : NilBuffer(c) BY <1>30 DEF NilBuffer, EndLoad, AfterLoad
<1> QED
  BY <1>1, <1>2, <1>3, <1>4, <1>5, <1>6, <1>7, <1>8, <1>9, <1>10, <1>11, <1>12, <1>13,
     <1>14, <1>15, <1>16, <1>17, <1>18, <1>19, <1>20, <1>21, <1>22, <1>23, <1>24, <1>25,
     <1>26, <1>27, <1>28, <1>29, <1>30
  DEF Next, Run, UpdaterStep, CallerStep, DimStep, LoadStep, Restart, NilAtStart

-----------------------------------------------------------------------------
(* Who waits for an answer is the requester whose channel the updater      *)
(* holds, and the updater holds one exactly while it works on a request.   *)
(* The poller is launched once, by Start.                                  *)
ClientInv ==
  /\ \A r \in Requesters : At(r, "await") <=> client = r
  /\ client = None <=> pc[Updater] \in {"between", "parked", "exited"}
  /\ booting = TRUE => At(Poller, "off")
  /\ At(Starter, "launch") => booting = TRUE

-----------------------------------------------------------------------------
(* One goroutine at a time waits for the dimension routine, and what that  *)
(* one works on is taken from the waiter's export.                         *)
Busy == pc[Dim] \in {"build", "store", "reply"}

WaiterInv ==
  /\ \A p, q \in Loaders : At(p, "wait") /\ At(q, "wait") => p = q
  /\ Busy => \E p \in Loaders : At(p, "wait")
  /\ \A p \in Loaders : At(p, "wait") =>
       Busy /\ jobNodes = nodes[p] /\ jobDim \in DimsOf[nodes[p]] \ todo[p]

(* What is being loaded has parsed.                                        *)
NodesInv ==
  \A p \in Loaders : pc[p] \in {"send", "wait", "prune", "swap"} =>
    nodes[p] \in Exports \ Malformed /\ todo[p] \subseteq DimsOf[nodes[p]]

(* The result of _updateDimension is about its argument.                   *)
ResultInv ==
  /\ At(Dim, "store") => jobDim \notin FaultyIn[jobNodes]
  /\ At(Dim, "reply") => (jobErr = TRUE <=> jobDim \in FaultyIn[jobNodes])
  /\ ~At(Dim, "reply") => jobErr = FALSE

LEMMA JobTyped ==
  ASSUME TypeOK, WaiterInv, NodesInv, Busy
  PROVE  jobNodes \in Exports \ Malformed /\ jobDim \in DimsOf[jobNodes]
BY DEF WaiterInv, NodesInv

LEMMA ClientStep ==
  ASSUME TypeInv, ClientInv, [Next]_vars
  PROVE  ClientInv'
<1> USE RepoAssumption
<1> USE DEF LoadLabels, CallerLabels, UpdaterLabels, DimLabels, PollerLabels
<1> USE DEF ClientInv
<1>1. CASE TakePoll BY <1>1 DEF TakePoll, Accept
<1>2. CASE Park BY <1>2 DEF Park
<1>3. CASE PollFails BY <1>3 DEF PollFails, Fail
<1>4. CASE PollUpToDate BY <1>4 DEF PollUpToDate
<1>5. CASE GetFails BY <1>5 DEF GetFails, Fail
<1>6. CASE Answer BY <1>6 DEF Answer, AfterAnswer
<1>7. CASE \E e \in Exports : PollNewVersion(e) BY <1>7 DEF PollNewVersion
<1>8. CASE \E e \in Exports : Get(e) BY <1>8 DEF Get
<1>9. CASE \E p \in Loaders : Parse(p) BY <1>9 DEF Parse, EndLoad, AfterLoad
<1>10. CASE \E p \in Loaders : AllSent(p) BY <1>10 DEF AllSent, HasFailed, EndLoad, AfterLoad
<1>11. CASE \E p \in Loaders : PruneRead(p) BY <1>11 DEF PruneRead
<1>12. CASE \E p \in Loaders : PruneSwap(p) BY <1>12 DEF PruneSwap
<1>13. CASE \E p \in Loaders : ReadBytes(p) BY <1>13 DEF ReadBytes
<1>14. CASE \E p \in Loaders : HistoryAdd(p) BY <1>14 DEF HistoryAdd, EndLoad, AfterLoad
<1>15. CASE DimBuild BY <1>15 DEF DimBuild
<1>16. CASE DimStore BY <1>16 DEF DimStore
<1>17. CASE \E p \in Loaders : DimReply(p) BY <1>17 DEF DimReply
<1>18. CASE Tick BY <1>18 DEF Tick, Receiving, Accept
<1>19. CASE Launch
  <2>1. PICK s \in {"idle", "call"}, q \in {"off", "exited", "ticker"} :
          pc' = [pc EXCEPT ![Starter] = s, ![Poller] = q]
    BY <1>19, Zenon DEF Launch
  <2>2. UNCHANGED client /\ At(Starter, "launch") BY <1>19 DEF Launch
  <2>3. pc[Poller] # "await" BY <2>2
  <2>4. booting' = FALSE BY <1>19 DEF Launch
  <2> QED BY <2>1, <2>2, <2>3, <2>4
<1>20. CASE \E c \in Callers : TryUpdate(c) BY <1>20 DEF TryUpdate, Receiving, Accept
<1>21. CASE \E c \in Callers : Rejected(c) BY <1>21 DEF Rejected
<1>22. CASE \E c \in Callers : GetCurrentFails(c) BY <1>22 DEF GetCurrentFails, EndLoad, AfterLoad
<1>23. CASE \E c \in Callers : GetCurrent(c) BY <1>23 DEF GetCurrent
<1>24. CASE \E c \in Callers : SetJSONBuffer(c) BY <1>24 DEF SetJSONBuffer
<1>25. CASE \E p \in Loaders, d \in Dimensions : Send(p, d) BY <1>25 DEF Send, DimReceives
<1>26. CASE Cancel BY <1>26 DEF Cancel
<1>27. CASE \E g \in {Updater, Dim, Poller} : Exit(g) BY <1>27 DEF Exit
<1>28. CASE Die BY <1>28 DEF Die, StartPC
<1>29. CASE UNCHANGED vars BY <1>29
<1>30. CASE \E c \in Callers : NilBuffer(c) BY <1>30 DEF NilBuffer, EndLoad, AfterLoad
<1> QED
  BY <1>1, <1>2, <1>3, <1>4, <1>5, <1>6, <1>7, <1>8, <1>9, <1>10, <1>11, <1>12, <1>13,
     <1>14, <1>15, <1>16, <1>17, <1>18, <1>19, <1>20, <1>21, <1>22, <1>23, <1>24, <1>25, <1>26,
     <1>27, <1>28, <1>29, <1>30
  DEF Next, Run, UpdaterStep, CallerStep, DimStep, LoadStep, Restart, NilAtStart

LEMMA WaiterStep ==
  ASSUME TypeInv, ClientInv, WaiterInv, NodesInv, [Next]_vars
  PROVE  WaiterInv'
<1> USE RepoAssumption
<1> USE DEF LoadLabels, CallerLabels, UpdaterLabels, DimLabels, PollerLabels
<1> USE DEF WaiterInv, Busy
<1>1. CASE TakePoll BY <1>1 DEF TakePoll, Accept
<1>2. CASE Park BY <1>2 DEF Park
<1>3. CASE PollFails BY <1>3 DEF PollFails, Fail
<1>4. CASE PollUpToDate BY <1>4 DEF PollUpToDate
<1>5. CASE GetFails BY <1>5 DEF GetFails, Fail
<1>6. CASE Answer
  <2> USE <1>6 DEF Answer, AfterAnswer
  <2>1. pc'[Dim] = pc[Dim] OBVIOUS
  <2>2. client \in Requesters /\ At(client, "await") BY DEF ClientInv
  <2>4. \A p \in Loaders : pc'[p] = "wait" <=> pc[p] = "wait" BY <2>2
  <2>3. UNCHANGED <<nodes, todo, job>> OBVIOUS
  <2> HIDE DEF Answer, AfterAnswer
  <2> QED BY <2>1, <2>3, <2>4
<1>7. CASE \E e \in Exports : PollNewVersion(e) BY <1>7 DEF PollNewVersion
<1>8. CASE \E e \in Exports : Get(e) BY <1>8 DEF Get
<1>9. CASE \E p \in Loaders : Parse(p) BY <1>9 DEF Parse, EndLoad, AfterLoad
<1>10. CASE \E p \in Loaders : AllSent(p) BY <1>10 DEF AllSent, HasFailed, EndLoad, AfterLoad
<1>11. CASE \E p \in Loaders : PruneRead(p) BY <1>11 DEF PruneRead
<1>12. CASE \E p \in Loaders : PruneSwap(p) BY <1>12 DEF PruneSwap
<1>13. CASE \E p \in Loaders : ReadBytes(p) BY <1>13 DEF ReadBytes
<1>14. CASE \E p \in Loaders : HistoryAdd(p) BY <1>14 DEF HistoryAdd, EndLoad, AfterLoad
<1>15. CASE DimBuild BY <1>15 DEF DimBuild
<1>16. CASE DimStore BY <1>16 DEF DimStore
<1>17. CASE \E p \in Loaders : DimReply(p) BY <1>17 DEF DimReply
<1>18. CASE Tick BY <1>18 DEF Tick, Receiving, Accept
<1>19. CASE Launch BY <1>19 DEF Launch
<1>20. CASE \E c \in Callers : TryUpdate(c) BY <1>20 DEF TryUpdate, Receiving, Accept
<1>21. CASE \E c \in Callers : Rejected(c) BY <1>21 DEF Rejected
<1>22. CASE \E c \in Callers : GetCurrentFails(c) BY <1>22 DEF GetCurrentFails, EndLoad, AfterLoad
<1>23. CASE \E c \in Callers : GetCurrent(c) BY <1>23 DEF GetCurrent
<1>24. CASE \E c \in Callers : SetJSONBuffer(c) BY <1>24 DEF SetJSONBuffer
<1>25. CASE \E p \in Loaders, d \in Dimensions : Send(p, d)
  <2>1. PICK p \in Loaders, d \in Dimensions : Send(p, d) BY <1>25
  <2> USE <2>1 DEF Send, DimReceives
  <2>2. pc'[Dim] = "build" /\ pc'[p] = "wait" OBVIOUS
  <2>3. \A q \in Loaders : pc'[q] = "wait" => q = p OBVIOUS
  <2>4. jobNodes' = nodes'[p] /\ jobDim' = d /\ d \notin todo'[p] OBVIOUS
  <2>5. d \in DimsOf[nodes[p]] /\ nodes'[p] = nodes[p] BY DEF NodesInv
  <2> HIDE DEF Send, DimReceives
  <2> QED BY <2>2, <2>3, <2>4, <2>5
<1>26. CASE Cancel BY <1>26 DEF Cancel
<1>27. CASE \E g \in {Updater, Dim, Poller} : Exit(g) BY <1>27 DEF Exit
<1>28. CASE Die BY <1>28 DEF Die, StartPC
<1>29. CASE UNCHANGED vars BY <1>29
<1>30. CASE \E c \in Callers : NilBuffer(c) BY <1>30 DEF NilBuffer, EndLoad, AfterLoad
<1> QED
  BY <1>1, <1>2, <1>3, <1>4, <1>5, <1>6, <1>7, <1>8, <1>9, <1>10, <1>11, <1>12, <1>13,
     <1>14, <1>15, <1>16, <1>17, <1>18, <1>19, <1>20, <1>21, <1>22, <1>23, <1>24, <1>25, <1>26,
     <1>27, <1>28, <1>29, <1>30
  DEF Next, Run, UpdaterStep, CallerStep, DimStep, LoadStep, Restart, NilAtStart

LEMMA NodesStep ==
  ASSUME TypeInv, WaiterInv, NodesInv, [Next]_vars
  PROVE  NodesInv'
<1> USE RepoAssumption
<1> USE DEF LoadLabels, CallerLabels, UpdaterLabels, DimLabels, PollerLabels
<1> USE DEF NodesInv
<1>1. CASE TakePoll BY <1>1 DEF TakePoll, Accept
<1>2. CASE Park BY <1>2 DEF Park
<1>3. CASE PollFails BY <1>3 DEF PollFails, Fail
<1>4. CASE PollUpToDate BY <1>4 DEF PollUpToDate
<1>5. CASE GetFails BY <1>5 DEF GetFails, Fail
<1>6. CASE Answer BY <1>6 DEF Answer, AfterAnswer
<1>7. CASE \E e \in Exports : PollNewVersion(e) BY <1>7 DEF PollNewVersion
<1>8. CASE \E e \in Exports : Get(e) BY <1>8 DEF Get
<1>9. CASE \E p \in Loaders : Parse(p)
  <2>1. PICK p \in Loaders : Parse(p) BY <1>9
  <2>2. CASE jsonBuffer \in Malformed
    <3>1. EndLoad(p, TRUE) BY <2>1, <2>2 DEF Parse
    <3> QED BY <3>1 DEF EndLoad, AfterLoad
  <2>3. CASE jsonBuffer \notin Malformed
    <3>1. nodes' = [nodes EXCEPT ![p] = jsonBuffer] BY <2>1, <2>3 DEF Parse
    <3>2. todo' = [todo EXCEPT ![p] = DimsOf[jsonBuffer]] BY <2>1, <2>3 DEF Parse
    <3>3. pc' = [pc EXCEPT ![p] = "send"] BY <2>1, <2>3 DEF Parse
    <3>4. jsonBuffer \in Exports BY <2>1 DEF Parse, BufferInv
    <3> QED BY <2>3, <3>1, <3>2, <3>3, <3>4
  <2> QED BY <2>2, <2>3
<1>10. CASE \E p \in Loaders : AllSent(p) BY <1>10 DEF AllSent, HasFailed, EndLoad, AfterLoad
<1>11. CASE \E p \in Loaders : PruneRead(p) BY <1>11 DEF PruneRead
<1>12. CASE \E p \in Loaders : PruneSwap(p) BY <1>12 DEF PruneSwap
<1>13. CASE \E p \in Loaders : ReadBytes(p) BY <1>13 DEF ReadBytes
<1>14. CASE \E p \in Loaders : HistoryAdd(p) BY <1>14 DEF HistoryAdd, EndLoad, AfterLoad
<1>15. CASE DimBuild BY <1>15 DEF DimBuild
<1>16. CASE DimStore BY <1>16 DEF DimStore
<1>17. CASE \E p \in Loaders : DimReply(p) BY <1>17 DEF DimReply
<1>18. CASE Tick BY <1>18 DEF Tick, Receiving, Accept
<1>19. CASE Launch BY <1>19 DEF Launch
<1>20. CASE \E c \in Callers : TryUpdate(c) BY <1>20 DEF TryUpdate, Receiving, Accept
<1>21. CASE \E c \in Callers : Rejected(c) BY <1>21 DEF Rejected
<1>22. CASE \E c \in Callers : GetCurrentFails(c) BY <1>22 DEF GetCurrentFails, EndLoad, AfterLoad
<1>23. CASE \E c \in Callers : GetCurrent(c) BY <1>23 DEF GetCurrent
<1>24. CASE \E c \in Callers : SetJSONBuffer(c) BY <1>24 DEF SetJSONBuffer
<1>25. CASE \E p \in Loaders, d \in Dimensions : Send(p, d) BY <1>25 DEF Send, DimReceives
<1>26. CASE Cancel BY <1>26 DEF Cancel
<1>27. CASE \E g \in {Updater, Dim, Poller} : Exit(g) BY <1>27 DEF Exit
<1>28. CASE Die BY <1>28 DEF Die, StartPC
<1>29. CASE UNCHANGED vars BY <1>29
<1>30. CASE \E c \in Callers : NilBuffer(c) BY <1>30 DEF NilBuffer, EndLoad, AfterLoad
<1> QED
  BY <1>1, <1>2, <1>3, <1>4, <1>5, <1>6, <1>7, <1>8, <1>9, <1>10, <1>11, <1>12, <1>13,
     <1>14, <1>15, <1>16, <1>17, <1>18, <1>19, <1>20, <1>21, <1>22, <1>23, <1>24, <1>25, <1>26,
     <1>27, <1>28, <1>29, <1>30
  DEF Next, Run, UpdaterStep, CallerStep, DimStep, LoadStep, Restart, NilAtStart

LEMMA ResultStep ==
  ASSUME TypeInv, WaiterInv, NodesInv, ResultInv, [Next]_vars
  PROVE  ResultInv'
<1> USE RepoAssumption
<1> USE DEF LoadLabels, CallerLabels, UpdaterLabels, DimLabels, PollerLabels
<1> USE DEF ResultInv
<1>1. CASE TakePoll BY <1>1 DEF TakePoll, Accept
<1>2. CASE Park BY <1>2 DEF Park
<1>3. CASE PollFails BY <1>3 DEF PollFails, Fail
<1>4. CASE PollUpToDate BY <1>4 DEF PollUpToDate
<1>5. CASE GetFails BY <1>5 DEF GetFails, Fail
<1>6. CASE Answer BY <1>6 DEF Answer, AfterAnswer
<1>7. CASE \E e \in Exports : PollNewVersion(e) BY <1>7 DEF PollNewVersion
<1>8. CASE \E e \in Exports : Get(e) BY <1>8 DEF Get
<1>9. CASE \E p \in Loaders : Parse(p) BY <1>9 DEF Parse, EndLoad, AfterLoad
<1>10. CASE \E p \in Loaders : AllSent(p) BY <1>10 DEF AllSent, HasFailed, EndLoad, AfterLoad
<1>11. CASE \E p \in Loaders : PruneRead(p) BY <1>11 DEF PruneRead
<1>12. CASE \E p \in Loaders : PruneSwap(p) BY <1>12 DEF PruneSwap
<1>13. CASE \E p \in Loaders : ReadBytes(p) BY <1>13 DEF ReadBytes
<1>14. CASE \E p \in Loaders : HistoryAdd(p) BY <1>14 DEF HistoryAdd, EndLoad, AfterLoad
<1>15. CASE DimBuild
  <2>1. CASE Refuses(jobDim, jobNodes)
    <3>1. jobErr' = TRUE /\ pc' = [pc EXCEPT ![Dim] = "reply"] BY <1>15, <2>1 DEF DimBuild
    <3>2. UNCHANGED <<jobDim, jobNodes>> BY <1>15 DEF DimBuild
    <3> QED BY <2>1, <3>1, <3>2 DEF Refuses
  <2>2. CASE ~Refuses(jobDim, jobNodes)
    <3>1. jobErr' = jobErr /\ pc' = [pc EXCEPT ![Dim] = "store"] BY <1>15, <2>2 DEF DimBuild
    <3>2. UNCHANGED <<jobDim, jobNodes>> /\ At(Dim, "build") BY <1>15 DEF DimBuild
    <3> QED BY <2>2, <3>1, <3>2 DEF Refuses
  <2> QED BY <2>1, <2>2
<1>16. CASE DimStore BY <1>16 DEF DimStore
<1>17. CASE \E p \in Loaders : DimReply(p) BY <1>17 DEF DimReply
<1>18. CASE Tick BY <1>18 DEF Tick, Receiving, Accept
<1>19. CASE Launch BY <1>19 DEF Launch
<1>20. CASE \E c \in Callers : TryUpdate(c) BY <1>20 DEF TryUpdate, Receiving, Accept
<1>21. CASE \E c \in Callers : Rejected(c) BY <1>21 DEF Rejected
<1>22. CASE \E c \in Callers : GetCurrentFails(c) BY <1>22 DEF GetCurrentFails, EndLoad, AfterLoad
<1>23. CASE \E c \in Callers : GetCurrent(c) BY <1>23 DEF GetCurrent
<1>24. CASE \E c \in Callers : SetJSONBuffer(c) BY <1>24 DEF SetJSONBuffer
<1>25. CASE \E p \in Loaders, d \in Dimensions : Send(p, d) BY <1>25 DEF Send, DimReceives
<1>26. CASE Cancel BY <1>26 DEF Cancel
<1>27. CASE \E g \in {Updater, Dim, Poller} : Exit(g) BY <1>27 DEF Exit
<1>28. CASE Die BY <1>28 DEF Die, StartPC
<1>29. CASE UNCHANGED vars BY <1>29
<1>30. CASE \E c \in Callers : NilBuffer(c) BY <1>30 DEF NilBuffer, EndLoad, AfterLoad
<1> QED
  BY <1>1, <1>2, <1>3, <1>4, <1>5, <1>6, <1>7, <1>8, <1>9, <1>10, <1>11, <1>12, <1>13,
     <1>14, <1>15, <1>16, <1>17, <1>18, <1>19, <1>20, <1>21, <1>22, <1>23, <1>24, <1>25, <1>26,
     <1>27, <1>28, <1>29, <1>30
  DEF Next, Run, UpdaterStep, CallerStep, DimStep, LoadStep, Restart, NilAtStart

-----------------------------------------------------------------------------
(* The error a loader has accumulated is that of the dimensions it sent,   *)
(* the one under way excepted, and without error all of them are good.     *)
SentFault(p, d) ==
  d \in DimsOf[nodes[p]] /\ d \notin todo[p] /\ d \in FaultyIn[nodes[p]]

VerdictInv ==
  /\ \A p \in Loaders : At(p, "send") =>
       (p \in failed <=> \E d \in Dimensions : SentFault(p, d))
  /\ \A p \in Loaders : At(p, "wait") =>
       (p \in failed <=> \E d \in Dimensions : d # jobDim /\ SentFault(p, d))
  /\ \A p \in Loaders : pc[p] \in {"prune", "swap"} => nodes[p] \in Loadable
  /\ \A c \in Callers : c \in failed => pc[c] \in {"send", "wait"}
  /\ Updater \in failed => pc[Updater] \in {"send", "wait", "answer"}

(* Every copy of the directory has valid trees only.                       *)
Valid(dir) ==
  \A d \in Dimensions : dir[d] # None =>
    dir[d] \notin Malformed /\ d \in DimsOf[dir[d]] \ FaultyIn[dir[d]]

TreeInv == Valid(directory) /\ Valid(jobSeen) /\ \A p \in Loaders : Valid(seen[p])

LEMMA EndLoadVerdict ==
  ASSUME TypeInv, VerdictInv, NEW p \in Loaders, NEW err \in BOOLEAN, EndLoad(p, err),
         UNCHANGED job
  PROVE  VerdictInv'
<1> USE RepoAssumption DEF EndLoad, AfterLoad
<1>1. PICK l \in {"answer", "launch", "idle"} :
        pc' = [pc EXCEPT ![p] = l] /\ (p = Updater => l = "answer")
  OBVIOUS
<1>2. \A q \in Loaders : q # p =>
        /\ nodes'[q] = nodes[q] /\ todo'[q] = todo[q] /\ pc'[q] = pc[q]
        /\ q \in failed' <=> q \in failed
  BY <1>1
<1>3. pc'[p] \notin {"send", "wait", "prune", "swap"} BY <1>1
<1>4. p \in failed' => p = Updater OBVIOUS
<1>5. p = Updater => pc'[p] = "answer" BY <1>1
<1>6. UNCHANGED jobDim OBVIOUS
<1> HIDE DEF EndLoad, AfterLoad
<1> USE DEF VerdictInv
<1>7. \A q \in Loaders, d \in Dimensions : q # p => SentFault(q, d)' = SentFault(q, d)
  BY <1>2 DEF SentFault
<1>8. \A q \in Loaders : At(q, "send")' =>
        (q \in failed' <=> \E d \in Dimensions : SentFault(q, d)')
  BY <1>2, <1>3, <1>7
<1>9. \A q \in Loaders : At(q, "wait")' =>
        (q \in failed' <=> \E d \in Dimensions : d # jobDim' /\ SentFault(q, d)')
  BY <1>2, <1>3, <1>6, <1>7
<1>10. \A q \in Loaders : pc'[q] \in {"prune", "swap"} => nodes'[q] \in Loadable
  BY <1>2, <1>3
<1>11. \A c \in Callers : c \in failed' => pc'[c] \in {"send", "wait"} BY <1>2, <1>4
<1>12. Updater \in failed' => pc'[Updater] \in {"send", "wait", "answer"} BY <1>2, <1>5
<1> QED BY <1>8, <1>9, <1>10, <1>11, <1>12

LEMMA VerdictStep ==
  ASSUME TypeInv, ClientInv, WaiterInv, NodesInv, ResultInv, VerdictInv, [Next]_vars
  PROVE  VerdictInv'
<1> USE RepoAssumption
<1> USE DEF LoadLabels, CallerLabels, UpdaterLabels, DimLabels, PollerLabels
<1> USE DEF VerdictInv, SentFault
<1>1. CASE TakePoll BY <1>1 DEF TakePoll, Accept
<1>2. CASE Park BY <1>2 DEF Park
<1>3. CASE PollFails BY <1>3 DEF PollFails, Fail
<1>4. CASE PollUpToDate BY <1>4 DEF PollUpToDate
<1>5. CASE GetFails BY <1>5 DEF GetFails, Fail
<1>6. CASE Answer
  <2> USE <1>6 DEF Answer, AfterAnswer
  <2>1. client \in Requesters /\ At(client, "await") BY DEF ClientInv
  <2>2. \A p \in Loaders : pc'[p] \in {"send", "wait", "prune", "swap"} => pc'[p] = pc[p] /\ p # Updater
    BY <2>1
  <2>3. \A c \in Callers : c \in failed => pc'[c] = pc[c] BY <2>1
  <2>4. failed' = failed \ {Updater} /\ UNCHANGED <<nodes, todo, jobDim>> OBVIOUS
  <2> HIDE DEF Answer, AfterAnswer
  <2> QED BY <2>2, <2>3, <2>4
<1>7. CASE \E e \in Exports : PollNewVersion(e) BY <1>7 DEF PollNewVersion
<1>8. CASE \E e \in Exports : Get(e) BY <1>8 DEF Get
<1>9. CASE \E p \in Loaders : Parse(p)
  <2>1. PICK p \in Loaders : Parse(p) BY <1>9
  <2>2. CASE jsonBuffer \in Malformed
    <3>1. EndLoad(p, TRUE) BY <2>1, <2>2 DEF Parse
    <3> QED BY <2>1, <3>1, EndLoadVerdict DEF Parse
  <2>3. CASE jsonBuffer \notin Malformed
    <3>1. At(p, "parse") /\ pc' = [pc EXCEPT ![p] = "send"] BY <2>1, <2>3 DEF Parse
    <3>2. \A q \in Loaders : q # p => nodes'[q] = nodes[q] /\ todo'[q] = todo[q]
      BY <2>1, <2>3 DEF Parse
    <3>3. todo'[p] = DimsOf[nodes'[p]] BY <2>1, <2>3 DEF Parse
    <3>4. UNCHANGED <<failed, jobDim>> /\ p \notin failed BY <2>1, <2>3, <3>1 DEF Parse
    <3> QED BY <3>1, <3>2, <3>3, <3>4
  <2> QED BY <2>2, <2>3
<1>10. CASE \E p \in Loaders : AllSent(p)
  <2>1. PICK p \in Loaders : AllSent(p) BY <1>10
  <2>2. CASE HasFailed(p)
    <3>1. EndLoad(p, TRUE) BY <2>1, <2>2 DEF AllSent
    <3> QED BY <2>1, <3>1, EndLoadVerdict DEF AllSent
  <2>3. CASE ~HasFailed(p)
    <3>1. At(p, "send") /\ todo[p] = {} BY <2>1 DEF AllSent
    <3>2. pc' = [pc EXCEPT ![p] = "prune"] /\ UNCHANGED <<nodes, todo, failed, jobDim>>
      BY <2>1, <2>3 DEF AllSent
    <3>3. p \notin failed BY <2>3 DEF HasFailed
    <3>4. \A d \in Dimensions : ~(d \in DimsOf[nodes[p]] /\ d \in FaultyIn[nodes[p]])
      BY <3>1, <3>3
    <3>5. nodes[p] \in Loadable BY <3>1, <3>4 DEF Loadable, NodesInv
    <3> QED BY <3>1, <3>2, <3>3, <3>5
  <2> QED BY <2>2, <2>3
<1>11. CASE \E p \in Loaders : PruneRead(p) BY <1>11 DEF PruneRead
<1>12. CASE \E p \in Loaders : PruneSwap(p) BY <1>12 DEF PruneSwap
<1>13. CASE \E p \in Loaders : ReadBytes(p) BY <1>13 DEF ReadBytes
<1>14. CASE \E p \in Loaders : HistoryAdd(p)
  <2>1. PICK p \in Loaders : HistoryAdd(p) BY <1>14
  <2>2. EndLoad(p, FALSE) /\ UNCHANGED job BY <2>1 DEF HistoryAdd
  <2> QED BY <2>2, EndLoadVerdict
<1>15. CASE DimBuild BY <1>15 DEF DimBuild
<1>16. CASE DimStore BY <1>16 DEF DimStore
<1>17. CASE \E p \in Loaders : DimReply(p)
  <2>1. PICK p \in Loaders : DimReply(p) BY <1>17
  <2>2. At(Dim, "reply") /\ At(p, "wait") BY <2>1 DEF DimReply
  <2>3. pc' = [pc EXCEPT ![p] = "send", ![Dim] = "idle"] BY <2>1 DEF DimReply
  <2>4. UNCHANGED <<nodes, todo>> BY <2>1 DEF DimReply
  <2>5. SentFault(p, jobDim) <=> jobErr = TRUE BY <2>2 DEF ResultInv, WaiterInv
  <2>6. jobDim \in Dimensions BY <2>2, JobTyped DEF Busy
  <2>7. failed' = IF jobErr = TRUE THEN failed \cup {p} ELSE failed BY <2>1 DEF DimReply
  <2>8. p \in failed' <=> \E d \in Dimensions : SentFault(p, d) BY <2>2, <2>5, <2>6, <2>7
  <2>9. \A q \in Loaders : q # p => pc'[q] = pc[q] /\ ~At(q, "wait") /\ (q \in failed' <=> q \in failed)
    BY <2>2, <2>3, <2>7 DEF WaiterInv
  <2>10. pc'[p] = "send" BY <2>3
  <2> HIDE DEF TypeInv
  <2> QED BY <2>4, <2>8, <2>9, <2>10
<1>18. CASE Tick BY <1>18 DEF Tick, Receiving, Accept
<1>19. CASE Launch BY <1>19 DEF Launch
<1>20. CASE \E c \in Callers : TryUpdate(c) BY <1>20 DEF TryUpdate, Receiving, Accept
<1>21. CASE \E c \in Callers : Rejected(c) BY <1>21 DEF Rejected
<1>22. CASE \E c \in Callers : GetCurrentFails(c) BY <1>22 DEF GetCurrentFails, EndLoad, AfterLoad
<1>23. CASE \E c \in Callers : GetCurrent(c) BY <1>23 DEF GetCurrent
<1>24. CASE \E c \in Callers : SetJSONBuffer(c) BY <1>24 DEF SetJSONBuffer
<1>25. CASE \E p \in Loaders, d \in Dimensions : Send(p, d)
  <2>1. PICK p \in Loaders, d \in Dimensions : Send(p, d) BY <1>25
  <2> USE <2>1 DEF Send, DimReceives
  <2>2. At(p, "send") /\ pc'[p] = "wait" /\ jobDim' = d /\ d \in todo[p] OBVIOUS
  <2>3. \A q \in Loaders : q # p => pc'[q] = pc[q] /\ todo'[q] = todo[q] /\ ~At(q, "wait")
    BY DEF WaiterInv, Busy
  <2>4. todo'[p] = todo[p] \ {d} /\ UNCHANGED <<nodes, failed>> OBVIOUS
  <2> HIDE DEF Send, DimReceives, TypeInv
  <2> QED BY <2>2, <2>3, <2>4
<1>26. CASE Cancel BY <1>26 DEF Cancel
<1>27. CASE \E g \in {Updater, Dim, Poller} : Exit(g) BY <1>27 DEF Exit
<1>28. CASE Die BY <1>28 DEF Die, StartPC
<1>29. CASE UNCHANGED vars BY <1>29
<1>30. CASE \E c \in Callers : NilBuffer(c) BY <1>30 DEF NilBuffer, EndLoad, AfterLoad
<1> QED
  BY <1>1, <1>2, <1>3, <1>4, <1>5, <1>6, <1>7, <1>8, <1>9, <1>10, <1>11, <1>12, <1>13,
     <1>14, <1>15, <1>16, <1>17, <1>18, <1>19, <1>20, <1>21, <1>22, <1>23, <1>24, <1>25, <1>26,
     <1>27, <1>28, <1>29, <1>30
  DEF Next, Run, UpdaterStep, CallerStep, DimStep, LoadStep, Restart, NilAtStart

LEMMA TreeStep ==
  ASSUME TypeInv, WaiterInv, NodesInv, ResultInv, TreeInv, [Next]_vars
  PROVE  TreeInv'
<1> USE RepoAssumption
<1> USE DEF LoadLabels, CallerLabels, UpdaterLabels, DimLabels, PollerLabels
<1> USE DEF TreeInv, Valid
<1>1. CASE TakePoll BY <1>1 DEF TakePoll, Accept
<1>2. CASE Park BY <1>2 DEF Park
<1>3. CASE PollFails BY <1>3 DEF PollFails, Fail
<1>4. CASE PollUpToDate BY <1>4 DEF PollUpToDate
<1>5. CASE GetFails BY <1>5 DEF GetFails, Fail
<1>6. CASE Answer BY <1>6 DEF Answer, AfterAnswer
<1>7. CASE \E e \in Exports : PollNewVersion(e) BY <1>7 DEF PollNewVersion
<1>8. CASE \E e \in Exports : Get(e) BY <1>8 DEF Get
<1>9. CASE \E p \in Loaders : Parse(p) BY <1>9 DEF Parse, EndLoad, AfterLoad
<1>10. CASE \E p \in Loaders : AllSent(p) BY <1>10 DEF AllSent, HasFailed, EndLoad, AfterLoad
<1>11. CASE \E p \in Loaders : PruneRead(p) BY <1>11 DEF PruneRead
<1>12. CASE \E p \in Loaders : PruneSwap(p)
  <2>1. PICK p \in Loaders : PruneSwap(p) BY <1>12
  <2>2. directory' = Keep(seen[p], nodes[p]) BY <2>1 DEF PruneSwap
  <2>3. Valid(directory')
    <3> SUFFICES ASSUME NEW d \in Dimensions, directory'[d] # None
                 PROVE  directory'[d] = seen[p][d]
      OBVIOUS
    <3> QED BY <2>2 DEF Keep
  <2>4. seen' = [seen EXCEPT ![p] = Empty] /\ UNCHANGED jobSeen BY <2>1 DEF PruneSwap
  <2> QED BY <2>3, <2>4
<1>13. CASE \E p \in Loaders : ReadBytes(p) BY <1>13 DEF ReadBytes
<1>14. CASE \E p \in Loaders : HistoryAdd(p) BY <1>14 DEF HistoryAdd, EndLoad, AfterLoad
<1>15. CASE DimBuild BY <1>15 DEF DimBuild
<1>16. CASE DimStore
  <2>1. directory' = [jobSeen EXCEPT ![jobDim] = jobNodes] /\ At(Dim, "store") BY <1>16 DEF DimStore
  <2>2. jobNodes \notin Malformed /\ jobDim \in DimsOf[jobNodes] \ FaultyIn[jobNodes]
    BY <2>1, JobTyped DEF Busy, ResultInv
  <2>3. Valid(directory') BY <2>1, <2>2
  <2>4. jobSeen' = Empty /\ UNCHANGED seen BY <1>16 DEF DimStore
  <2> QED BY <2>3, <2>4
<1>17. CASE \E p \in Loaders : DimReply(p) BY <1>17 DEF DimReply
<1>18. CASE Tick BY <1>18 DEF Tick, Receiving, Accept
<1>19. CASE Launch BY <1>19 DEF Launch
<1>20. CASE \E c \in Callers : TryUpdate(c) BY <1>20 DEF TryUpdate, Receiving, Accept
<1>21. CASE \E c \in Callers : Rejected(c) BY <1>21 DEF Rejected
<1>22. CASE \E c \in Callers : GetCurrentFails(c) BY <1>22 DEF GetCurrentFails, EndLoad, AfterLoad
<1>23. CASE \E c \in Callers : GetCurrent(c) BY <1>23 DEF GetCurrent
<1>24. CASE \E c \in Callers : SetJSONBuffer(c) BY <1>24 DEF SetJSONBuffer
<1>25. CASE \E p \in Loaders, d \in Dimensions : Send(p, d) BY <1>25 DEF Send, DimReceives
<1>26. CASE Cancel BY <1>26 DEF Cancel
<1>27. CASE \E g \in {Updater, Dim, Poller} : Exit(g) BY <1>27 DEF Exit
<1>28. CASE Die BY <1>28 DEF Die, StartPC
<1>29. CASE UNCHANGED vars BY <1>29
<1>30. CASE \E c \in Callers : NilBuffer(c) BY <1>30 DEF NilBuffer, EndLoad, AfterLoad
<1> QED
  BY <1>1, <1>2, <1>3, <1>4, <1>5, <1>6, <1>7, <1>8, <1>9, <1>10, <1>11, <1>12, <1>13,
     <1>14, <1>15, <1>16, <1>17, <1>18, <1>19, <1>20, <1>21, <1>22, <1>23, <1>24, <1>25, <1>26,
     <1>27, <1>28, <1>29, <1>30
  DEF Next, Run, UpdaterStep, CallerStep, DimStep, LoadStep, Restart, NilAtStart

-----------------------------------------------------------------------------
(* The inductive invariant, and what follows from it.                      *)
IInv == /\ TypeInv /\ ClientInv /\ WaiterInv /\ NodesInv
        /\ ResultInv /\ VerdictInv /\ TreeInv

LEMMA InitIInv == ASSUME Init PROVE IInv
<1>1. TypeInv BY InitType
<1> USE RepoAssumption DEF Init, StartPC
<1>2. \A p \in Loaders : pc[p] \in {"current", "between", "idle"} OBVIOUS
<1>3. pc[Poller] = "off" /\ pc[Dim] = "idle" /\ pc[Updater] = "between" OBVIOUS
<1>4. ClientInv BY <1>2, <1>3 DEF ClientInv
<1>5. WaiterInv BY <1>2, <1>3 DEF WaiterInv, Busy
<1>6. NodesInv BY <1>2 DEF NodesInv
<1>7. ResultInv BY <1>3 DEF ResultInv
<1>8. VerdictInv BY <1>2 DEF VerdictInv
<1>9. TreeInv BY DEF TreeInv, Valid
<1> QED BY <1>1, <1>4, <1>5, <1>6, <1>7, <1>8, <1>9 DEF IInv

LEMMA StepIInv == ASSUME IInv, [Next]_vars PROVE IInv'
<1> USE DEF IInv
<1>1. TypeInv' BY TypeStep
<1>2. ClientInv' BY ClientStep
<1>3. WaiterInv' BY WaiterStep
<1>4. NodesInv' BY NodesStep
<1>5. ResultInv' BY ResultStep
<1>6. VerdictInv' BY VerdictStep
<1>7. TreeInv' BY TreeStep
<1> HIDE DEF TypeInv
<1> QED BY <1>1, <1>2, <1>3, <1>4, <1>5, <1>6, <1>7

LEMMA Inductive == Spec => []IInv
<1>1. Init => IInv BY InitIInv
<1>2. IInv /\ [Next]_vars => IInv' BY StepIInv
<1> HIDE DEF vars
<1> QED BY <1>1, <1>2, PTL DEF Spec

(* Every variable keeps its type, in every reachable state.                *)
THEOREM TypeCorrect == Spec => []TypeOK
<1>1. IInv => TypeOK BY DEF IInv
<1> HIDE DEF TypeOK
<1> QED BY <1>1, Inductive, PTL

(* Nobody dereferences the buffer before it has been set: JSONBufferBytes  *)
(* cannot panic, whatever fails and whoever calls.                         *)
THEOREM BufferIsSet == Spec => []NoNilBuffer
<1>1. IInv => NoNilBuffer BY DEF IInv, BufferInv, NoNilBuffer, LoadLabels
<1> QED BY <1>1, Inductive, PTL

(* The unlabelled results on dimensionUpdateDoneChannel never reach the    *)
(* wrong loader, for any number of concurrent loaders.                     *)
THEOREM OwnVerdict == Spec => []VerdictIsOwn
<1>1. ASSUME IInv PROVE VerdictIsOwn
  <2>1. ASSUME NEW p \in Loaders, At(p, "send")
        PROVE  (\E d \in Dimensions : SentFault(p, d))
               <=> (DimsOf[nodes[p]] \ todo[p]) \cap FaultyIn[nodes[p]] # {}
    <3>1. nodes[p] \in Exports BY <1>1, <2>1 DEF IInv, NodesInv
    <3>2. DimsOf[nodes[p]] \subseteq Dimensions BY <3>1, RepoAssumption
    <3> QED BY <3>2 DEF SentFault
  <2>2. \A p \in Loaders : At(p, "send") =>
          (p \in failed <=> \E d \in Dimensions : SentFault(p, d))
    BY <1>1 DEF IInv, VerdictInv
  <2>3. \A p, q \in Loaders : At(p, "wait") /\ At(q, "wait") => p = q
    BY <1>1 DEF IInv, WaiterInv
  <2> QED BY <2>1, <2>2, <2>3 DEF VerdictIsOwn
<1> QED BY <1>1, Inductive, PTL

(* A tree that buildDirectory or wireAliases refused is never served, not  *)
(* even by a goroutine that copied the directory before it changed.        *)
THEOREM ValidTrees == Spec => []OnlyValidTrees
<1>1. IInv => OnlyValidTrees BY DEF IInv, TreeInv, Valid, OnlyValidTrees
<1> QED BY <1>1, Inductive, PTL

(* The poll version only moves when the updater has accepted every         *)
(* dimension of what it loaded.                                            *)
THEOREM CleanVersion == Spec => VersionNeedsCleanLoad
<1>1. ASSUME IInv, [Next]_vars, pollVersion' # pollVersion, pollVersion' # None
      PROVE  nodes[Updater] \in Loadable
  <2>1. \E p \in Loaders : PruneSwap(p)
    BY <1>1 DEF Next, Run, UpdaterStep, CallerStep, DimStep, LoadStep, TakePoll, Park, PollFails,
      PollUpToDate, GetFails, Answer, PollNewVersion, Get, Parse, AllSent, PruneRead,
      ReadBytes, HistoryAdd, DimBuild, DimStore, DimReply, Tick, Launch, TryUpdate, Rejected,
      GetCurrentFails, GetCurrent, SetJSONBuffer, Send, Cancel, Exit, Restart,
      NilAtStart, NilBuffer, EndLoad, Die
  <2>2. At(Updater, "swap") BY <2>1, <1>1 DEF PruneSwap
  <2> QED BY <2>2, <1>1 DEF IInv, VerdictInv
<1>2. IInv /\ [Next]_vars =>
        [pollVersion' \notin {pollVersion, None} => nodes[Updater] \in Loadable]_vars
  BY <1>1
<1> HIDE DEF vars
<1> QED BY <1>2, Inductive, PTL DEF Spec, VersionNeedsCleanLoad
=============================================================================
