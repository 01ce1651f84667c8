---------------------------- MODULE SocketServer ----------------------------
(***************************************************************************)
(* The socket server: cmd/socket.go listens, loads the repo and accepts    *)
(* connections, and handler.Socket.Serve reads requests off each, one      *)
(* after the other, in a goroutine of its own.                             *)
(*                                                                         *)
(* A connection carries frames to the server and replies back, in order.   *)
(* A frame is all a client sends for one request, route:length{json}; its  *)
(* kind says whether it is what it should be ("request"), announces more   *)
(* bytes than follow ("short"), announces none ("empty"), or has a header  *)
(* that cannot be read ("bad").  Who sent it, and whom a reply is for, is  *)
(* written down here, but not on the wire.                                 *)
(***************************************************************************)
EXTENDS Naturals, Sequences, FiniteSets

CONSTANTS
  Conns,         \* TCP connections
  ReplyKinds,    \* what a reply may be: "reply", or "garbage" no client decodes
  MaxOpen        \* bound: nothing that leaves the gauge too high happens above

VARIABLES
  server,        \* "down", "loading" the repo, "waiting" after a first update
                 \* that failed, or "accepting" connections
  stage,         \* where the goroutine of Serve is, for each connection
  shut,          \* the ends that have closed it, and whether it was reset
  toServer,      \* the frames under way
  toClient,      \* the replies under way
  frame,         \* the frame Serve is reading or executing
  gauge          \* metrics.NumSocketsGauge, all remotes together

wires == <<stage, shut, toServer, toClient, frame>>
serverVars == <<server, wires, gauge>>

Idle == [kind |-> "none"]
Opened == {"header", "json", "execute", "ending"}
Stages == {"none", "backlog"} \cup Opened

ServerTypeOK ==
  /\ server \in {"down", "loading", "waiting", "accepting"}
  /\ stage \in [Conns -> Stages]
  /\ shut \in [Conns -> SUBSET {"client", "server", "reset"}]
  /\ \A t \in Conns : Len(toServer[t]) <= 1 /\ Len(toClient[t]) <= 1
  /\ \A t \in Conns : stage[t] \in {"json", "execute"} <=> frame[t] # Idle
  /\ gauge \in Nat

ServerInit ==
  /\ server = "down" /\ gauge = 0
  /\ stage = [t \in Conns |-> "none"] /\ shut = [t \in Conns |-> {"client", "server"}]
  /\ toServer = [t \in Conns |-> <<>>] /\ toClient = [t \in Conns |-> <<>>]
  /\ frame = [t \in Conns |-> Idle]

Become(t, s) == stage' = [stage EXCEPT ![t] = s]

-----------------------------------------------------------------------------
(* The command.                                                            *)

(* From here on the kernel accepts connections into its backlog.           *)
Listen ==
  /\ server = "down"
  /\ server' = "loading"
  /\ UNCHANGED <<wires, gauge>>

(* An update has succeeded: the first, or one the poller has asked for     *)
(* after that.  A restore does not call onLoaded.                          *)
Loaded ==
  /\ server \in {"loading", "waiting"}
  /\ server' = "accepting"
  /\ UNCHANGED <<wires, gauge>>

(* The first update has failed or was rejected.                            *)
NotLoaded ==
  /\ server = "loading"
  /\ server' = "waiting"
  /\ UNCHANGED <<wires, gauge>>

(* Start's update ends, one way or the other (CallsReturn of Repo).        *)
FirstUpdate == server = "loading" /\ (Loaded \/ NotLoaded)

AcceptConn(t) ==
  /\ server = "accepting" /\ stage[t] = "backlog"
  /\ Become(t, "header")
  /\ gauge' = gauge + 1
  /\ UNCHANGED <<server, shut, toServer, toClient, frame>>

(* Faulty: Serve returns, and its connection is left open.                 *)
LeaveOpen(t) ==
  /\ stage[t] = "ending"
  /\ Become(t, "none")
  /\ UNCHANGED <<server, shut, toServer, toClient, frame, gauge>>

(* Serve has returned.                                                     *)
CloseConn(t) ==
  /\ stage[t] = "ending"
  /\ Become(t, "none")
  /\ shut' = [shut EXCEPT ![t] = @ \cup {"server"}]
  /\ toServer' = [toServer EXCEPT ![t] = <<>>]
  /\ UNCHANGED <<server, toClient, frame, gauge>>

(* The process ends, and the kernel closes its connections.                *)
Stop ==
  /\ server # "down"
  /\ server' = "down" /\ gauge' = 0
  /\ stage' = [t \in Conns |-> "none"]
  /\ shut' = [t \in Conns |-> shut[t] \cup {"server"}]
  /\ toServer' = [t \in Conns |-> <<>>]
  /\ frame' = [t \in Conns |-> Idle]
  /\ UNCHANGED toClient

-----------------------------------------------------------------------------
(* Serve.                                                                  *)

(* Serve ends, the gauge going down or not.                                *)
End(t, counted) ==
  /\ Become(t, "ending")
  /\ frame' = [frame EXCEPT ![t] = Idle]
  /\ gauge' = IF counted THEN gauge - 1 ELSE gauge

Reply(t, kind, to) ==
  toClient' = [toClient EXCEPT ![t] =
                 IF shut[t] \cap {"client", "reset"} = {} THEN Append(@, [kind |-> kind, to |-> to])
                 ELSE @]

ReadHeader(t) ==
  /\ stage[t] = "header" /\ toServer[t] # <<>>
  /\ LET f == Head(toServer[t]) IN
       /\ toServer' = [toServer EXCEPT ![t] = Tail(@)]
       /\ CASE f.kind = "bad"   -> End(t, FALSE) /\ Reply(t, "error", f.from)
            [] f.kind = "empty" -> End(t, TRUE) /\ UNCHANGED toClient
            [] OTHER -> /\ Become(t, IF f.kind = "short" THEN "json" ELSE "execute")
                        /\ frame' = [frame EXCEPT ![t] = f]
                        /\ UNCHANGED <<toClient, gauge>>
  /\ UNCHANGED <<server, shut>>

Gone(t) == shut[t] \cap {"client", "reset"} # {}

(* Faulty: only the end of a connection between requests is noticed.       *)
ReadEndBetween(t) ==
  /\ stage[t] = "header" /\ toServer[t] = <<>> /\ Gone(t)
  /\ End(t, "reset" \notin shut[t])
  /\ UNCHANGED <<server, shut, toServer, toClient>>

(* The client has closed the connection, or reading from it fails.         *)
ReadEnd(t) ==
  /\ stage[t] \in {"header", "json"} /\ toServer[t] = <<>> /\ Gone(t)
  /\ End(t, stage[t] = "json" \/ "reset" \notin shut[t])
  /\ UNCHANGED <<server, shut, toServer, toClient>>

(* Faulty: the header of one request is still there for the next.          *)
ExecuteOnly(t) ==
  /\ stage[t] = "execute"
  /\ \E kind \in ReplyKinds : Reply(t, kind, frame[t].from)
  /\ Become(t, "header")
  /\ UNCHANGED <<server, shut, toServer, frame, gauge>>

(* Faulty: a reply that cannot be written counts the connection as gone.   *)
ExecuteCounted(t) ==
  /\ stage[t] = "execute"
  /\ \E kind \in ReplyKinds : Reply(t, kind, frame[t].from)
  /\ Become(t, "header")
  /\ frame' = [frame EXCEPT ![t] = Idle]
  /\ gauge' = IF Gone(t) THEN gauge - 1 ELSE gauge
  /\ UNCHANGED <<server, shut, toServer>>

(* The request is executed and replied to; whether the reply can be        *)
(* written or not, the next request is read.  A reply to getRepo is made   *)
(* of the bytes of an export, which need not be JSON (Api's Repo).         *)
Execute(t) ==
  /\ stage[t] = "execute"
  /\ \E kind \in ReplyKinds : Reply(t, kind, frame[t].from)
  /\ Become(t, "header")
  /\ frame' = [frame EXCEPT ![t] = Idle]
  /\ UNCHANGED <<server, shut, toServer, gauge>>

(* The handler panics, and Serve recovers.                                 *)
Panic(t) ==
  /\ stage[t] = "execute" /\ gauge < MaxOpen
  /\ End(t, FALSE)
  /\ UNCHANGED <<server, shut, toServer, toClient>>

Serve(t) == AcceptConn(t) \/ ReadHeader(t) \/ ReadEnd(t) \/ Execute(t) \/ CloseConn(t)

-----------------------------------------------------------------------------
(* What clients and the network do to connections.                         *)

Free(t) == {"client", "server"} \subseteq shut[t]

(* The connections in new are dialled and those in gone closed.            *)
Redial(new, gone) ==
  /\ stage' = [t \in Conns |-> IF t \in new THEN "backlog" ELSE stage[t]]
  /\ shut' = [t \in Conns |-> IF t \in new THEN {}
                              ELSE IF t \in gone THEN shut[t] \cup {"client"} ELSE shut[t]]
  /\ toClient' = [t \in Conns |-> IF t \in new \cup gone THEN <<>> ELSE toClient[t]]
  /\ UNCHANGED <<server, toServer, frame, gauge>>

Sends(t, kind, from) ==
  /\ toServer' = [toServer EXCEPT ![t] =
                    IF shut[t] = {} THEN Append(@, [kind |-> kind, from |-> from]) ELSE @]
  /\ UNCHANGED <<server, stage, shut, toClient, frame, gauge>>

Receives(t) ==
  /\ toClient' = [toClient EXCEPT ![t] = Tail(@)]
  /\ UNCHANGED <<server, stage, shut, toServer, frame, gauge>>

Reset(t) ==
  /\ shut[t] = {} /\ gauge < MaxOpen
  /\ shut' = [shut EXCEPT ![t] = {"reset"}]
  /\ toServer' = [toServer EXCEPT ![t] = <<>>] /\ toClient' = [toClient EXCEPT ![t] = <<>>]
  /\ UNCHANGED <<server, stage, frame, gauge>>

-----------------------------------------------------------------------------
(* The gauge never says less than the number of open connections: none is  *)
(* counted down twice, though the ways out of Serve each do it themselves. *)
(* It may say more: a panic, a bad header and a read error leave without   *)
(* (Serve).                                                                *)
Open == {t \in Conns : stage[t] \in Opened \ {"ending"}}
GaugeCovers == gauge >= Cardinality(Open)
=============================================================================
