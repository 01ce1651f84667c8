------------------------------ MODULE Sessions ------------------------------
(***************************************************************************)
(* Socket clients and the socket server together: the calls of a           *)
(* SocketTransport over the connections of its pool (ConnectionPool), the  *)
(* goroutines that serve them (SocketServer), connections of other         *)
(* programs, and a server that stops and starts.                           *)
(*                                                                         *)
(* What ConnectionPool leaves open, whether a dial succeeds and how an     *)
(* exchange ends, follows here from what the server does.  The pool is not *)
(* closed here (see ConnectionPool).                                       *)
(***************************************************************************)
EXTENDS ConnectionPool, Sequences

CONSTANTS
  Guests,        \* connections of programs that are not this client
  ReplyKinds,    \* see SocketServer
  MaxOpen        \* see SocketServer

ASSUME SessionsAssumption ==
  /\ Closers = {}
  /\ Guests \cap Conns = {} /\ None \notin Guests
  /\ Events = {"unreachable", "broken", "garbled"}
  /\ ReplyKinds \subseteq {"reply", "garbage"} /\ MaxOpen \in Nat

VARIABLES
  sent,          \* the callers whose request has been written
  server, stage, shut, toServer, toClient, frame, gauge

Server == INSTANCE SocketServer WITH Conns <- Conns \cup Guests

serverVars == <<server, stage, shut, toServer, toClient, frame, gauge>>
clientVars == <<vars, sent>>
sessionVars == <<clientVars, serverVars>>

SessionsTypeOK ==
  /\ TypeOK /\ Server!ServerTypeOK
  /\ sent \subseteq {c \in Callers : pc[c] = "using"}
  /\ \A t \in Conns : Server!Free(t) => toServer[t] = <<>> /\ toClient[t] = <<>>

SessionsInit == Init /\ Server!ServerInit /\ sent = {}

-----------------------------------------------------------------------------
(* The pool: each turn closes and dials real connections.                  *)

Spare == {t \in Conns : Server!Free(t)} \ {conn[e] : e \in Entries}

(* Dials succeed while the server listens, and there is a connection left  *)
(* to stand for a new one.                                                 *)
Dials ==
  LET new == {conn'[e] : e \in Entries} \ ({conn[e] : e \in Entries} \cup {None})
      gone == {conn[e] : e \in Entries} \ ({conn'[e] : e \in Entries} \cup {None})
  IN /\ new \subseteq Spare
     /\ new # {} => server # "down"
     /\ (\E e \in Entries : conn'[e] = None) => server = "down" \/ new = Spare
     /\ Server!Redial(new, gone)

PoolTick == Tick /\ Dials /\ UNCHANGED sent
PoolTakesRequest(c) == TakeRequest(c) /\ Dials /\ UNCHANGED sent
PoolTakesReturn(c) == TakeReturn(c) /\ Dials /\ UNCHANGED sent

Local(c) == (Call(c) \/ Age(c)) /\ UNCHANGED <<sent, serverVars>>

-----------------------------------------------------------------------------
(* Call: the exchange over the connection the caller holds.                *)

Closed(t) == shut[t] \cap {"server", "reset"} # {}

(* The first write on a connection the server has closed may succeed.      *)
SendRequest(c) ==
  /\ pc[c] = "using" /\ c \notin sent
  /\ sent' = sent \cup {c}
  /\ Server!Sends(holds[c], "request", c)
  /\ UNCHANGED vars

SendFails(c) ==
  /\ c \notin sent /\ pc[c] = "using" /\ Closed(holds[c])
  /\ Broken(c)
  /\ UNCHANGED <<sent, serverVars>>

(* A reply, even one that says error, is understood: its connection goes   *)
(* back without an error.  One that cannot be decoded at all is read to    *)
(* its end, and the connection, though nothing is wrong with it, does not  *)
(* go back.                                                                *)
ReadReply(c) ==
  /\ c \in sent /\ toClient[holds[c]] # <<>>
  /\ IF Head(toClient[holds[c]]).kind = "garbage" THEN Garbled(c) ELSE Answered(c)
  /\ sent' = sent \ {c}
  /\ Server!Receives(holds[c])

(* Nothing comes any more: the read says so, or fails.                     *)
ReadNothing(c) ==
  /\ c \in sent /\ toClient[holds[c]] = <<>> /\ Closed(holds[c])
  /\ Broken(c) \/ ("reset" \notin shut[holds[c]] /\ Garbled(c))
  /\ sent' = sent \ {c}
  /\ UNCHANGED serverVars

ExchangeStep(c) == SendRequest(c) \/ SendFails(c) \/ ReadReply(c) \/ ReadNothing(c)

-----------------------------------------------------------------------------
(* Other programs connect, send one frame of any kind, and go.             *)

Visit(t) ==
  /\ Server!Free(t) /\ server # "down"
  /\ Server!Redial({t}, {})
  /\ UNCHANGED clientVars

Ask(t, kind) ==
  /\ shut[t] = {} /\ toServer[t] = <<>> /\ toClient[t] = <<>> /\ frame[t] = Server!Idle
  /\ kind = "bad" => gauge < MaxOpen
  /\ Server!Sends(t, kind, None)
  /\ UNCHANGED clientVars

Leave(t) ==
  /\ "client" \notin shut[t]
  /\ Server!Redial({}, {t})
  /\ UNCHANGED clientVars

GuestStep(t) ==
  Visit(t) \/ Leave(t) \/ \E kind \in {"request", "short", "empty", "bad"} : Ask(t, kind)

ServerStep ==
  \/ Server!Listen \/ Server!Loaded \/ Server!NotLoaded
  \/ \E t \in Conns \cup Guests : Server!Serve(t)

Mishap == Server!Stop \/ \E t \in Conns \cup Guests : Server!Panic(t) \/ Server!Reset(t)

SessionsNext ==
  \/ PoolTick
  \/ \E c \in Callers : PoolTakesRequest(c) \/ PoolTakesReturn(c) \/ Local(c) \/ ExchangeStep(c)
  \/ \E t \in Guests : GuestStep(t)
  \/ (ServerStep \/ Mishap) /\ UNCHANGED clientVars

(* The goroutines of both programs keep running, time passes, and a server *)
(* that has stopped is started again, and its first update ends.  It need  *)
(* not succeed, and nor need any update after it.  Nobody has to call, to  *)
(* visit or to leave, and nothing has to go wrong.                         *)
SessionsFairness ==
  /\ WF_sessionVars(PoolTick)
  /\ \A c \in Callers :
       /\ WF_sessionVars(PoolTakesRequest(c)) /\ WF_sessionVars(PoolTakesReturn(c))
       /\ WF_sessionVars(Age(c) /\ UNCHANGED <<sent, serverVars>>)
       /\ WF_sessionVars(ExchangeStep(c))
  /\ WF_sessionVars(Server!Listen /\ UNCHANGED clientVars)
  /\ WF_sessionVars(Server!FirstUpdate /\ UNCHANGED clientVars)
  /\ \A t \in Conns \cup Guests : WF_sessionVars(Server!Serve(t) /\ UNCHANGED clientVars)

SessionsSpec == SessionsInit /\ [][SessionsNext]_sessionVars
FairSessionsSpec == SessionsSpec /\ SessionsFairness

-----------------------------------------------------------------------------
(* Replies carry no id: a caller takes the next one on its connection for  *)
(* its own.  It always is, through restarts, resets, calls that fail and   *)
(* connections that are given back, because whatever a call leaves behind  *)
(* is on a connection nobody gets again (Call, run, Serve).                *)
AnswerIsOwn ==
  [][\A c \in Callers : ReadReply(c) => Head(toClient[holds[c]]).to = c]_sessionVars

(* Every call comes to an end: with an answer, an error or no connection,  *)
(* though neither side sets a deadline (Call, run, Serve).  The exception  *)
(* is a server that never gets to accept what is in its backlog: its first *)
(* update has failed and none has succeeded since, as none does unless it  *)
(* polls (cmd/socket.go 84).                                               *)
CallsEnd ==
  \/ <>[](server = "waiting")
  \/ \A c \in Callers : pc[c] # "idle" ~> pc[c] = "idle"

(* No goroutine of the server outlives its connection: whatever was read   *)
(* of a request, a client that goes ends Serve (socket.go 109).            *)
GoroutinesEnd ==
  \A t \in Conns \cup Guests :
    stage[t] \in Server!Opened /\ "client" \in shut[t] ~> stage[t] = "none" \/ shut[t] = {}

GaugeCovers == Server!GaugeCovers
=============================================================================
