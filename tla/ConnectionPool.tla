--------------------------- MODULE ConnectionPool ---------------------------
(***************************************************************************)
(* The client of the socket server: SocketTransport.Call takes a TCP       *)
(* connection from the pool, exchanges one request and one answer over it  *)
(* and gives it back; connectionPool.run is the goroutine that owns the    *)
(* connections.                                                            *)
(*                                                                         *)
(* One turn of run's loop is one action: it takes an event (a request for  *)
(* a connection, a returned connection, or waitTimeout without either),    *)
(* dials what is missing, hands free connections to waiting callers and    *)
(* sends nil to those that have waited too long.  Nothing it reads or      *)
(* writes on the way is shared, and whoever it sends to is receiving.      *)
(***************************************************************************)
EXTENDS Naturals, FiniteSets

CONSTANTS
  Callers,       \* goroutines that call SocketTransport.Call
  Closers,       \* goroutines that call SocketTransport.Close
  Entries,       \* indices of the pool
  Conns,         \* TCP connections
  None,          \* a nil connection
  Events         \* which of Hazards may happen

Hazards == {"unreachable", "broken", "garbled"}

ASSUME PoolAssumption ==
  /\ Callers \cap Closers = {}
  /\ None \notin Entries \cup Conns
  /\ Events \subseteq Hazards

VARIABLES
  conn,          \* the connection of each pool entry
  busy,          \* the entries marked busy
  old,           \* the callers that have waited longer than waitTimeout
  running,       \* run has not left its loop
  drained,       \* run has set the three channels to nil
  pc,            \* where each caller and closer is
  holds,         \* conn in Call
  errored        \* the callers that return their connection with an error

pool == <<conn, busy, old>>
end == <<running, drained>>
vars == <<pool, end, pc, holds, errored>>

CallStages == {"idle", "asking", "waiting", "using", "returning"}
CloseStages == {"open", "closing", "closed"}

TypeOK ==
  /\ conn \in [Entries -> Conns \cup {None}] /\ busy \subseteq Entries
  /\ old \subseteq Callers
  /\ running \in BOOLEAN /\ drained \in BOOLEAN
  /\ pc \in [Callers \cup Closers -> CallStages \cup CloseStages]
  /\ \A c \in Callers : pc[c] \in CallStages
  /\ \A k \in Closers : pc[k] \in CloseStages
  /\ holds \in [Callers -> Conns \cup {None}]
  /\ errored \subseteq Callers

Init ==
  /\ conn = [e \in Entries |-> None] /\ busy = {} /\ old = {}
  /\ running = TRUE /\ drained = FALSE
  /\ pc = [g \in Callers \cup Closers |-> IF g \in Callers THEN "idle" ELSE "open"]
  /\ holds = [c \in Callers |-> None] /\ errored = {}

Waiting == {c \in Callers : pc[c] = "waiting"}

-----------------------------------------------------------------------------
(* What a turn does behind its event.                                      *)

(* Each entry without a connection gets a new one, unless dialling fails.  *)
(* A connection the turn has closed is not a new one.                      *)
Refills(cn) ==
  {f \in [Entries -> Conns \cup {None}] :
     /\ \A e \in Entries :
          IF cn[e] # None THEN f[e] = cn[e]
          ELSE /\ \A d \in Entries : f[e] # None => conn[d] # f[e]
               /\ f[e] = None => "unreachable" \in Events
     /\ \A d, e \in Entries : f[d] = f[e] /\ d # e => f[d] = None}

(* Faulty: one caller is served in each turn.                              *)
LendsOne(wait, free) ==
  {f \in [wait -> free \cup {None}] :
     /\ \A c, d \in wait : f[c] # None /\ f[d] # None => c = d
     /\ wait # {} /\ free # {} => \E c \in wait : f[c] # None}

(* The waiting callers get free entries, in any order (both live in maps), *)
(* until there are no more of either.                                      *)
Lendings(wait, free) ==
  {f \in [wait -> free \cup {None}] :
     /\ \A c, d \in wait : f[c] = f[d] /\ c # d => f[c] = None
     /\ (\E c \in wait : f[c] = None) => \A e \in free : \E c \in wait : f[c] = e}

(* Faulty: an entry is lent without looking at its busy flag.              *)
FreeOrBusy(cn, taken) == {e \in Entries : cn[e] # None}

Free(cn, taken) == {e \in Entries \ taken : cn[e] # None}

(* A turn whose event left the connections cn, the busy entries taken, the *)
(* waiting callers wait and the stages at; late are the callers whose      *)
(* waitTimeout has passed when the turn looks for them.                    *)
Turn(cn, taken, wait, at, late) ==
  \E f \in Refills(cn) : \E lent \in Lendings(wait, Free(f, taken)) :
    LET served == {c \in wait : lent[c] # None}
        losers == (wait \cap late) \ served
    IN /\ conn' = f
       /\ busy' = taken \cup {lent[c] : c \in served}
       /\ old' = old \ (served \cup losers)
       /\ pc' = [g \in Callers \cup Closers |->
                   IF g \in served THEN "using" ELSE IF g \in losers THEN "idle" ELSE at[g]]
       /\ holds' = [c \in Callers |->
                      IF c \in served THEN f[lent[c]]
                      ELSE IF at[c] = "idle" THEN None ELSE holds[c]]
       /\ UNCHANGED end

-----------------------------------------------------------------------------
(* The events of run.                                                      *)

(* Faulty: the timer starts the loop again, and nothing else.              *)
TickOnly == running /\ UNCHANGED vars

(* Nothing has happened for waitTimeout: everybody still waiting was there *)
(* when that time began.                                                   *)
Tick ==
  /\ running
  /\ Turn(conn, busy, Waiting, pc, Waiting)
  /\ UNCHANGED errored

(* A caller's request; dialling may take longer than its waitTimeout.      *)
TakeRequest(c) ==
  /\ running /\ pc[c] = "asking"
  /\ \E late \in SUBSET {c} :
       Turn(conn, busy, Waiting \cup {c}, [pc EXCEPT ![c] = "waiting"], old \cup late)
  /\ UNCHANGED errored

Breaks(c) == c \in errored

(* Faulty: only a sound connection is looked for in the pool.              *)
ReturnedIfSound(c) == {e \in Entries : conn[e] = holds[c] /\ ~Breaks(c)}

Returned(c) == {e \in Entries : conn[e] = holds[c]}

(* A connection comes back; with an error, it is closed and forgotten.     *)
TakeReturn(c) ==
  /\ running /\ pc[c] = "returning"
  /\ Turn([e \in Entries |-> IF e \in Returned(c) /\ Breaks(c) THEN None ELSE conn[e]],
          busy \ Returned(c), Waiting, [pc EXCEPT ![c] = "idle"], old)
  /\ errored' = errored \ {c}

(* The pool is drained: every waiting caller gets nil.                     *)
Drain(k) ==
  /\ running /\ pc[k] = "closing"
  /\ running' = FALSE
  /\ pc' = [g \in Callers \cup Closers |->
              IF g \in Waiting THEN "idle" ELSE IF g = k THEN "closed" ELSE pc[g]]
  /\ old' = {}
  /\ UNCHANGED <<conn, busy, drained, holds, errored>>

Forget ==
  /\ ~running /\ ~drained
  /\ drained' = TRUE
  /\ UNCHANGED <<pool, running, pc, holds, errored>>

(* waitTimeout has passed since the caller got into the wait pool.         *)
Age(c) ==
  /\ c \in Waiting \ old
  /\ old' = old \cup {c}
  /\ UNCHANGED <<conn, busy, end, pc, holds, errored>>

-----------------------------------------------------------------------------
(* Call and Close.                                                         *)

Call(c) ==
  /\ pc[c] = "idle" /\ ~drained
  /\ pc' = [pc EXCEPT ![c] = "asking"]
  /\ UNCHANGED <<pool, end, holds, errored>>

ReturnConn(c, err) ==
  /\ pc[c] = "using"
  /\ pc' = [pc EXCEPT ![c] = "returning"]
  /\ errored' = IF err THEN errored \cup {c} ELSE errored
  /\ UNCHANGED <<pool, end, holds>>

(* An answer, or the error of the server, has been read.                   *)
Answered(c) == ReturnConn(c, FALSE)

(* Writing or reading fails, or what is read has no length.                *)
Broken(c) == "broken" \in Events /\ ReturnConn(c, TRUE)

(* What was read, nothing perhaps because the server has closed the        *)
(* connection, is neither a response nor an error: the call ends without   *)
(* returning its connection.                                               *)
Garbled(c) ==
  /\ "garbled" \in Events
  /\ pc[c] = "using"
  /\ pc' = [pc EXCEPT ![c] = "idle"]
  /\ holds' = [holds EXCEPT ![c] = None]
  /\ UNCHANGED <<pool, end, errored>>

Close(k) ==
  /\ pc[k] = "open"
  /\ pc' = [pc EXCEPT ![k] = IF drained THEN "closed" ELSE "closing"]
  /\ UNCHANGED <<pool, end, holds, errored>>

Exchange(c) == Answered(c) \/ Broken(c) \/ Garbled(c)

Next ==
  \/ Tick
  \/ Forget
  \/ \E c \in Callers :
       Call(c) \/ TakeRequest(c) \/ TakeReturn(c) \/ Age(c) \/ Exchange(c)
  \/ \E k \in Closers : Close(k) \/ Drain(k)

Spec == Init /\ [][Next]_vars

(* The pool's goroutine keeps running: its timer fires when nothing else   *)
(* happens, and a select with several ready cases picks one at random, so  *)
(* nobody who wants to talk to it is passed over for ever.  Time passes.   *)
(* Nobody has to call or to close, and no server has to answer.            *)
Fairness ==
  /\ WF_vars(Tick) /\ WF_vars(Forget)
  /\ \A c \in Callers :
       WF_vars(TakeRequest(c)) /\ WF_vars(TakeReturn(c)) /\ WF_vars(Age(c))
  /\ \A k \in Closers : WF_vars(Drain(k))

FairSpec == Spec /\ Fairness

-----------------------------------------------------------------------------
(* A connection is lent to one caller at a time: whoever uses or returns   *)
(* one has an entry of its own in the pool, marked busy, that holds it.    *)
(* Requests and answers on the socket carry no ids; two calls sharing a    *)
(* connection would get each other's answers (run, Call).                  *)
LentOnce ==
  /\ \A c \in Callers : holds[c] # None =>
       \E e \in busy : conn[e] = holds[c] /\ \A d \in Entries \ {e} : conn[d] # holds[c]
  /\ \A c, d \in Callers : holds[c] = holds[d] /\ c # d => holds[c] = None

(* Nobody waits while an entry has a connection to spare, whatever the     *)
(* order of requests, returns and failing dials (run).                     *)
NoIdleConnection == Waiting # {} => \A e \in Entries \ busy : conn[e] = None

Users(e) == {c \in Callers : holds[c] = conn[e]}

(* The only way to lose an entry, busy for ever with nobody using it, is   *)
(* an answer that is not understood: all other ends of a Call free it.     *)
LostWhenGarbled ==
  [][\A e \in busy : Users(e) # {} /\ e \in busy' /\ Users(e)' = {}
       => \E c \in Callers : Garbled(c)]_vars

(* No Call waits for a connection for ever, even if no server ever answers *)
(* again, and none waits to give one back, unless the pool is drained: who *)
(* is in the wait pool then is told so, who has not got there is not.      *)
WaitEnds ==
  \A c \in Callers :
    /\ pc[c] = "waiting" ~> pc[c] # "waiting"
    /\ pc[c] \in {"asking", "returning"} ~> pc[c] \notin {"asking", "returning"} \/ ~running

(* "refill connection pool" (connectionpool.go 93): an entry that is in    *)
(* use becomes free again, or gets a new connection, if servers answer or  *)
(* fail (run, Call).                                                       *)
EntriesComeBack == \A e \in Entries : e \in busy ~> e \notin busy
=============================================================================
