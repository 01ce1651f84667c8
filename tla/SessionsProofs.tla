---------------------------- MODULE SessionsProofs --------------------------
(***************************************************************************)
(* Proofs about Sessions, for any number of callers, pool entries and      *)
(* connections, of this client and of other programs: the gauge covers the *)
(* open connections, and answers are never mixed up.                       *)
(***************************************************************************)
EXTENDS Sessions, ConnectionPoolProofs, FiniteSetTheorems

AllConns == Conns \cup Guests

Kinds == {"request", "short", "empty", "bad"}
Frames == [kind : Kinds, from : Callers \cup {None}]
Replies == [kind : {"reply", "error", "garbage"}, to : Callers \cup {None}]

(* The buffers of a connection hold one message at most.                   *)
Buffers(messages) == {<<>>} \cup {<<m>> : m \in messages}

WireType ==
  /\ server \in {"down", "loading", "waiting", "accepting"}
  /\ stage \in [AllConns -> Server!Stages]
  /\ shut \in [AllConns -> SUBSET {"client", "server", "reset"}]
  /\ toServer \in [AllConns -> Buffers(Frames)]
  /\ toClient \in [AllConns -> Buffers(Replies)]
  /\ frame \in [AllConns -> Frames \cup {Server!Idle}]

(* One request is under way on a connection, is being read or executed, or *)
(* its reply is under way.                                                 *)
OneInFlight ==
  \A t \in AllConns :
    /\ toServer[t] # <<>> => frame[t] = Server!Idle /\ toClient[t] = <<>>
    /\ frame[t] # Server!Idle => toClient[t] = <<>>

(* The server has closed a connection if and only if no goroutine serves   *)
(* it; what an end has closed holds nothing for it.                        *)
EndsInv ==
  \A t \in AllConns :
    /\ "server" \in shut[t] <=> stage[t] = "none"
    /\ stage[t] \in {"json", "execute"} <=> frame[t] # Server!Idle
    /\ "server" \in shut[t] => toServer[t] = <<>>
    /\ "client" \in shut[t] => toClient[t] = <<>>

WireInv == WireType /\ OneInFlight /\ EndsInv

CountInv == gauge \in Nat /\ IsFiniteSet(Server!Open) /\ Cardinality(Server!Open) <= gauge

(* Nothing is under way on a connection.                                   *)
Clean(t) == toServer[t] = <<>> /\ toClient[t] = <<>> /\ frame[t] = Server!Idle

(* All that is under way on a connection is the caller's.                  *)
Own(t, c) ==
  /\ toServer[t] # <<>> => Head(toServer[t]).from = c
  /\ frame[t] # Server!Idle => frame[t].from = c
  /\ toClient[t] # <<>> => Head(toClient[t]).to = c

(* A connection that is lent next, or in use but not yet written to, is    *)
(* clean; so is one that comes back without an error.                      *)
OwnInv ==
  /\ sent \subseteq {c \in Callers : pc[c] = "using"}
  /\ \A c \in sent : Own(holds[c], c)
  /\ \A c \in Callers \ sent : pc[c] = "using" => Clean(holds[c])
  /\ \A c \in Callers \ errored : pc[c] = "returning" => Clean(holds[c])
  /\ \A e \in Entries \ busy : conn[e] # None => Clean(conn[e])

(* Who uses or returns a connection has one.                               *)
HoldInv == \A c \in Callers : pc[c] \in {"using", "returning"} => holds[c] # None

PoolInv == IInv /\ HoldInv

SInv == PoolInv /\ WireInv /\ OwnInv

-----------------------------------------------------------------------------
(* Every step of Sessions is one of the pool, or none at all.              *)

LEMMA PoolSteps == ASSUME [SessionsNext]_sessionVars PROVE [Next]_vars
PROOF
<1>1. CASE PoolTick
  BY <1>1 DEF PoolTick, Next
<1>2. ASSUME NEW c \in Callers,
             PoolTakesRequest(c) \/ PoolTakesReturn(c) \/ Local(c) \/ ExchangeStep(c)
      PROVE [Next]_vars
  BY <1>2 DEF PoolTakesRequest, PoolTakesReturn, Local, ExchangeStep, SendRequest, SendFails,
    ReadReply, ReadNothing, Next, Exchange
<1>3. ASSUME NEW t \in Guests, GuestStep(t) PROVE [Next]_vars
  BY <1>3 DEF GuestStep, Visit, Leave, Ask, clientVars
<1>4. CASE UNCHANGED clientVars
  BY <1>4 DEF clientVars
<1>. QED BY <1>1, <1>2, <1>3, <1>4 DEF SessionsNext, sessionVars

(* The pool, network and server together do nothing with the pool that     *)
(* ConnectionPool does not describe; what is proved of it holds here.      *)
THEOREM SessionsUsePool == SessionsSpec => Spec
PROOF
<1>1. SessionsInit => Init
  BY DEF SessionsInit
<1>2. [SessionsNext]_sessionVars => [Next]_vars
  BY PoolSteps
<1>. QED BY <1>1, <1>2, PTL DEF SessionsSpec, Spec

-----------------------------------------------------------------------------
(* The gauge.                                                              *)

LEMMA OpenGrows ==
  ASSUME CountInv, NEW t, Server!Open' \subseteq Server!Open \cup {t}
  PROVE IsFiniteSet(Server!Open)' /\ Cardinality(Server!Open)' <= gauge + 1
PROOF
<1>0. IsFiniteSet(Server!Open) /\ Cardinality(Server!Open) \in Nat
  BY FS_CardinalityType DEF CountInv
<1>1. IsFiniteSet(Server!Open \cup {t}) /\ Cardinality(Server!Open \cup {t}) <= gauge + 1
  BY <1>0, FS_AddElement DEF CountInv
<1>2. IsFiniteSet(Server!Open') /\ Cardinality(Server!Open') <= Cardinality(Server!Open \cup {t})
  BY <1>1, FS_Subset
<1>3. Cardinality(Server!Open') \in Nat /\ Cardinality(Server!Open \cup {t}) \in Nat
  BY <1>1, <1>2, FS_CardinalityType
<1>. QED BY <1>1, <1>2, <1>3 DEF CountInv

LEMMA OpenStays ==
  ASSUME CountInv, Server!Open' \subseteq Server!Open
  PROVE IsFiniteSet(Server!Open)' /\ Cardinality(Server!Open)' <= gauge
PROOF
<1>1. IsFiniteSet(Server!Open') /\ Cardinality(Server!Open') <= Cardinality(Server!Open)
  BY FS_Subset DEF CountInv
<1>2. Cardinality(Server!Open') \in Nat /\ Cardinality(Server!Open) \in Nat
  BY <1>1, FS_CardinalityType DEF CountInv
<1>. QED BY <1>1, <1>2 DEF CountInv

LEMMA OpenShrinks ==
  ASSUME CountInv, NEW t \in Server!Open, Server!Open' \subseteq Server!Open \ {t}
  PROVE /\ IsFiniteSet(Server!Open)' /\ Cardinality(Server!Open)' <= gauge - 1
        /\ gauge - 1 \in Nat
PROOF
<1>1. IsFiniteSet(Server!Open \ {t}) /\ Cardinality(Server!Open \ {t}) = Cardinality(Server!Open) - 1
  BY FS_RemoveElement DEF CountInv
<1>2. IsFiniteSet(Server!Open') /\ Cardinality(Server!Open') <= Cardinality(Server!Open \ {t})
  BY <1>1, FS_Subset
<1>3. /\ Cardinality(Server!Open') \in Nat /\ Cardinality(Server!Open \ {t}) \in Nat
      /\ Cardinality(Server!Open) \in Nat
  BY <1>1, <1>2, FS_CardinalityType DEF CountInv
<1>. QED BY <1>1, <1>2, <1>3 DEF CountInv

LEMMA CountStep == ASSUME WireInv, CountInv, [SessionsNext]_sessionVars PROVE CountInv'
PROOF
<1> USE DEF WireInv, WireType
<1>1. ASSUME UNCHANGED stage, UNCHANGED gauge PROVE CountInv'
  BY <1>1, OpenStays DEF CountInv, Server!Open
<1>2. ASSUME NEW new, NEW gone, Server!Redial(new, gone) PROVE CountInv'
  <2>1. Server!Open' \subseteq Server!Open /\ gauge' = gauge
    BY <1>2 DEF Server!Redial, Server!Open, Server!Opened, AllConns
  <2>. QED BY <2>1, OpenStays DEF CountInv
<1>3. ASSUME NEW t \in AllConns, Server!AcceptConn(t) PROVE CountInv'
  <2>1. Server!Open' \subseteq Server!Open \cup {t} /\ gauge' = gauge + 1
    BY <1>3 DEF Server!AcceptConn, Server!Become, Server!Open, AllConns
  <2>. QED BY <2>1, OpenGrows DEF CountInv
<1>4. ASSUME NEW t \in AllConns, NEW counted \in BOOLEAN,
             stage[t] \in {"header", "json", "execute"}, Server!End(t, counted)
      PROVE CountInv'
  <2>1. t \in Server!Open
    BY <1>4 DEF Server!Open, Server!Opened, AllConns
  <2>2. Server!Open' \subseteq Server!Open \ {t}
    BY <1>4 DEF Server!End, Server!Become, Server!Open, AllConns
  <2>3. gauge' \in {gauge, gauge - 1}
    BY <1>4 DEF Server!End
  <2>4. /\ IsFiniteSet(Server!Open)' /\ Cardinality(Server!Open)' <= gauge - 1
        /\ gauge - 1 \in Nat
    BY <2>1, <2>2, OpenShrinks
  <2>5. Cardinality(Server!Open)' \in Nat
    BY <2>4, FS_CardinalityType
  <2>. QED BY <2>3, <2>4, <2>5 DEF CountInv
<1>5. ASSUME NEW t \in AllConns, NEW s, Server!Become(t, s), t \in Server!Open, UNCHANGED gauge
      PROVE CountInv'
  <2>1. Server!Open' \subseteq Server!Open
    BY <1>5 DEF Server!Become, Server!Open, AllConns
  <2>. QED BY <1>5, <2>1, OpenStays DEF CountInv
<1>6. ASSUME NEW t \in AllConns, Server!Serve(t) PROVE CountInv'
  <2>1. CASE Server!ReadHeader(t)
    <3>1. t \in Server!Open /\ stage[t] = "header"
      BY <2>1 DEF Server!ReadHeader, Server!Open, Server!Opened, AllConns
    <3>2. \/ Server!End(t, FALSE) \/ Server!End(t, TRUE)
          \/ \E s : Server!Become(t, s) /\ UNCHANGED gauge
      BY <2>1 DEF Server!ReadHeader
    <3>. QED BY <1>4, <1>5, <3>1, <3>2
  <2>2. CASE Server!ReadEnd(t)
    <3>1. /\ stage[t] \in {"header", "json"}
          /\ Server!End(t, stage[t] = "json" \/ "reset" \notin shut[t])
      BY <2>2 DEF Server!ReadEnd
    <3>. QED BY <1>4, <3>1
  <2>3. CASE Server!Execute(t)
    BY <1>5, <2>3 DEF Server!Execute, Server!Open, Server!Opened, AllConns
  <2>4. CASE Server!CloseConn(t)
    <3>1. Server!Open' \subseteq Server!Open /\ gauge' = gauge
      BY <2>4 DEF Server!CloseConn, Server!Become, Server!Open, Server!Opened, AllConns
    <3>. QED BY <3>1, OpenStays DEF CountInv
  <2>. QED BY <1>3, <1>6, <2>1, <2>2, <2>3, <2>4 DEF Server!Serve
<1>7. ASSUME NEW t \in AllConns, Server!Panic(t) PROVE CountInv'
  BY <1>4, <1>7 DEF Server!Panic
<1>8. CASE Server!Stop
  <2>1. Server!Open' = {} /\ gauge' = 0
    BY <1>8 DEF Server!Stop, Server!Open, Server!Opened
  <2>. QED BY <2>1, FS_EmptySet DEF CountInv
<1>9. CASE PoolTick \/ \E c \in Callers : PoolTakesRequest(c) \/ PoolTakesReturn(c)
  BY <1>2, <1>9 DEF PoolTick, PoolTakesRequest, PoolTakesReturn, Dials
<1>10. ASSUME NEW c \in Callers, Local(c) \/ ExchangeStep(c) PROVE CountInv'
  BY <1>1, <1>10 DEF Local, ExchangeStep, SendRequest, SendFails, ReadReply, ReadNothing,
    Server!Sends, Server!Receives, serverVars
<1>11. ASSUME NEW t \in Guests, GuestStep(t) PROVE CountInv'
  BY <1>1, <1>2, <1>11 DEF GuestStep, Visit, Leave, Ask, Server!Sends
<1>12. CASE ServerStep
  BY <1>1, <1>6, <1>12 DEF ServerStep, Server!Listen, Server!Loaded, Server!NotLoaded,
    Server!wires, AllConns
<1>13. CASE Mishap
  BY <1>1, <1>7, <1>8, <1>13 DEF Mishap, Server!Reset, AllConns
<1>14. CASE UNCHANGED sessionVars
  BY <1>1, <1>14 DEF sessionVars, serverVars
<1>. QED BY <1>9, <1>10, <1>11, <1>12, <1>13, <1>14 DEF SessionsNext

-----------------------------------------------------------------------------
(* The wires.                                                              *)

LEMMA BufferFacts ==
  ASSUME NEW messages
  PROVE /\ <<>> \in Buffers(messages)
        /\ \A m \in messages : Append(<<>>, m) \in Buffers(messages) /\ Append(<<>>, m) # <<>>
        /\ \A m \in messages : Head(Append(<<>>, m)) = m
        /\ \A b \in Buffers(messages) :
             b # <<>> => Head(b) \in messages /\ Tail(b) = <<>>
PROOF
<1>1. \A m : Append(<<>>, m) = <<m>> /\ <<m>> # <<>>
  OBVIOUS
<1>2. \A m : Head(<<m>>) = m
  OBVIOUS
<1>3. \A m : Tail(<<m>>) = <<>>
  OBVIOUS
<1>. QED BY <1>1, <1>2, <1>3 DEF Buffers

LEMMA IdleIsNoFrame == Server!Idle \notin Frames
BY DEF Server!Idle, Frames, Kinds

(* What a connection may hold is the concern of that connection alone: a   *)
(* step on t has to establish the invariant for t.                         *)
Wire(t) ==
  /\ toServer[t] # <<>> => frame[t] = Server!Idle /\ toClient[t] = <<>>
  /\ frame[t] # Server!Idle => toClient[t] = <<>>
  /\ "server" \in shut[t] <=> stage[t] = "none"
  /\ stage[t] \in {"json", "execute"} <=> frame[t] # Server!Idle
  /\ "server" \in shut[t] => toServer[t] = <<>>
  /\ "client" \in shut[t] => toClient[t] = <<>>

Untouched(t) ==
  /\ stage'[t] = stage[t] /\ shut'[t] = shut[t] /\ frame'[t] = frame[t]
  /\ toServer'[t] = toServer[t] /\ toClient'[t] = toClient[t]

LEMMA WireOfOne ==
  ASSUME WireInv, WireType', NEW t \in AllConns, Wire(t)',
         \A u \in AllConns \ {t} : Untouched(u)
  PROVE WireInv'
BY DEF WireInv, OneInFlight, EndsInv, Wire, Untouched

LEMMA RedialWire ==
  ASSUME WireInv, NEW new, NEW gone, \A t \in new : Server!Free(t), Server!Redial(new, gone)
  PROVE WireInv'
PROOF
<1> USE DEF Server!Redial, WireInv
<1>1. WireType'
  BY DEF WireType, Server!Stages, AllConns, Buffers
<1>2. \A t \in AllConns : Wire(t)'
  BY DEF WireType, OneInFlight, EndsInv, Wire, Server!Free, AllConns
<1>. QED BY <1>1, <1>2 DEF OneInFlight, EndsInv, Wire

LEMMA ServeWire == ASSUME WireInv, NEW t \in AllConns, Server!Serve(t) PROVE WireInv'
PROOF
<1> USE DEF WireInv, WireType, AllConns, Server!Stages, Server!Opened, Server!Become
<1>0. Wire(t)
  BY DEF OneInFlight, EndsInv, Wire
<1>1. CASE Server!AcceptConn(t)
  <2>1. WireType' /\ Wire(t)' /\ \A u \in AllConns \ {t} : Untouched(u)
    BY <1>0, <1>1 DEF Server!AcceptConn, Wire, Untouched
  <2>. QED BY <2>1, WireOfOne
<1>2. CASE Server!ReadHeader(t)
  <2> DEFINE f == Head(toServer[t])
             r == [kind |-> "error", to |-> f.from]
  <2>1. /\ stage[t] = "header" /\ toServer[t] # <<>> /\ f \in Frames
        /\ toServer' = [toServer EXCEPT ![t] = <<>>]
        /\ shut' = shut /\ server' = server
        /\ frame[t] = Server!Idle /\ toClient[t] = <<>>
    BY <1>0, <1>2, BufferFacts DEF Server!ReadHeader, Wire
  <2>2. CASE f.kind = "bad"
    <3>1. Server!End(t, FALSE) /\ Server!Reply(t, "error", f.from)
      BY <1>2, <2>2 DEF Server!ReadHeader
    <3>2. r \in Replies
      BY <2>1 DEF Replies, Frames
    <3>3. /\ toClient' \in [AllConns -> Buffers(Replies)]
          /\ \A u \in AllConns \ {t} : toClient'[u] = toClient[u]
          /\ "client" \in shut[t] => toClient'[t] = <<>>
      BY <2>1, <3>1, <3>2, BufferFacts DEF Server!Reply
    <3>4. /\ stage' = [stage EXCEPT ![t] = "ending"]
          /\ frame' = [frame EXCEPT ![t] = Server!Idle]
      BY <3>1 DEF Server!End
    <3>5. WireType' /\ Wire(t)' /\ \A u \in AllConns \ {t} : Untouched(u)
      BY <1>0, <2>1, <3>3, <3>4, BufferFacts DEF Wire, Untouched
    <3>. QED BY <3>5, WireOfOne
  <2>3. CASE f.kind = "empty"
    <3>1. /\ stage' = [stage EXCEPT ![t] = "ending"]
          /\ frame' = [frame EXCEPT ![t] = Server!Idle]
          /\ toClient' = toClient
      BY <1>2, <2>3 DEF Server!ReadHeader, Server!End
    <3>2. WireType' /\ Wire(t)' /\ \A u \in AllConns \ {t} : Untouched(u)
      BY <1>0, <2>1, <3>1, BufferFacts DEF Wire, Untouched
    <3>. QED BY <3>2, WireOfOne
  <2>4. CASE f.kind \notin {"bad", "empty"}
    <3>1. PICK s \in {"json", "execute"} :
            /\ stage' = [stage EXCEPT ![t] = s]
            /\ frame' = [frame EXCEPT ![t] = f]
            /\ toClient' = toClient
      BY <1>2, <2>4 DEF Server!ReadHeader
    <3>2. f # Server!Idle
      BY <2>1, IdleIsNoFrame
    <3> HIDE DEF f
    <3>3. WireType'
      BY <2>1, <3>1, BufferFacts
    <3>4. Wire(t)' /\ \A u \in AllConns \ {t} : Untouched(u)
      BY <1>0, <2>1, <3>1, <3>2 DEF Wire, Untouched
    <3>. QED BY <3>3, <3>4, WireOfOne
  <2>. QED BY <2>2, <2>3, <2>4
<1>3. CASE Server!ReadEnd(t)
  <2>1. WireType' /\ Wire(t)' /\ \A u \in AllConns \ {t} : Untouched(u)
    BY <1>0, <1>3 DEF Server!ReadEnd, Server!End, Wire, Untouched
  <2>. QED BY <2>1, WireOfOne
<1>4. CASE Server!Execute(t)
  <2>0. PICK kind \in ReplyKinds : Server!Reply(t, kind, frame[t].from)
    BY <1>4 DEF Server!Execute
  <2> DEFINE r == [kind |-> kind, to |-> frame[t].from]
  <2>1. /\ stage[t] = "execute" /\ frame[t] \in Frames /\ toServer[t] = <<>> /\ toClient[t] = <<>>
    BY <1>0, <1>4 DEF Server!Execute, Wire
  <2>2. r \in Replies
    BY <2>1, SessionsAssumption DEF Replies, Frames
  <2>3. /\ toClient' \in [AllConns -> Buffers(Replies)]
        /\ \A u \in AllConns \ {t} : toClient'[u] = toClient[u]
        /\ "client" \in shut[t] => toClient'[t] = <<>>
    BY <2>0, <2>1, <2>2, BufferFacts DEF Server!Reply
  <2>4. WireType' /\ Wire(t)' /\ \A u \in AllConns \ {t} : Untouched(u)
    BY <1>0, <1>4, <2>1, <2>3 DEF Server!Execute, Wire, Untouched
  <2>. QED BY <2>4, WireOfOne
<1>5. CASE Server!CloseConn(t)
  <2>1. WireType' /\ Wire(t)' /\ \A u \in AllConns \ {t} : Untouched(u)
    BY <1>0, <1>5, BufferFacts DEF Server!CloseConn, Wire, Untouched
  <2>. QED BY <2>1, WireOfOne
<1>. QED BY <1>1, <1>2, <1>3, <1>4, <1>5 DEF Server!Serve

LEMMA MishapWire == ASSUME WireInv, Mishap PROVE WireInv'
PROOF
<1> USE DEF WireInv, WireType, Server!Stages, Server!Opened
<1>1. CASE Server!Stop
  <2>1. WireType'
    BY <1>1, BufferFacts DEF Server!Stop, AllConns
  <2>2. \A t \in AllConns : Wire(t)'
    BY <1>1 DEF Server!Stop, OneInFlight, EndsInv, Wire, AllConns
  <2>. QED BY <2>1, <2>2 DEF OneInFlight, EndsInv, Wire
<1>2. ASSUME NEW t \in AllConns, Server!Panic(t) PROVE WireInv'
  <2>0. Wire(t)
    BY DEF OneInFlight, EndsInv, Wire
  <2>1. WireType' /\ Wire(t)' /\ \A u \in AllConns \ {t} : Untouched(u)
    BY <1>2, <2>0 DEF Server!Panic, Server!End, Server!Become, Wire, Untouched
  <2>. QED BY <2>1, WireOfOne
<1>3. ASSUME NEW t \in AllConns, Server!Reset(t) PROVE WireInv'
  <2>0. Wire(t)
    BY DEF OneInFlight, EndsInv, Wire
  <2>1. WireType' /\ Wire(t)' /\ \A u \in AllConns \ {t} : Untouched(u)
    BY <1>3, <2>0, BufferFacts DEF Server!Reset, Wire, Untouched
  <2>. QED BY <2>1, WireOfOne
<1>. QED BY <1>1, <1>2, <1>3 DEF Mishap, AllConns

(* A request is only sent on a connection on which nothing is under way.   *)
LEMMA SendsWire ==
  ASSUME WireInv, NEW t \in AllConns, NEW kind \in Kinds, NEW from \in Callers \cup {None},
         Clean(t), Server!Sends(t, kind, from)
  PROVE WireInv'
PROOF
<1> USE DEF WireInv, WireType
<1>0. Wire(t)
  BY DEF OneInFlight, EndsInv, Wire
<1>1. [kind |-> kind, from |-> from] \in Frames
  BY DEF Frames
<1>2. /\ toServer' \in [AllConns -> Buffers(Frames)]
      /\ \A u \in AllConns \ {t} : toServer'[u] = toServer[u]
      /\ shut[t] # {} => toServer'[t] = <<>>
  BY <1>1, BufferFacts DEF Server!Sends, Clean
<1>3. WireType' /\ Wire(t)' /\ \A u \in AllConns \ {t} : Untouched(u)
  BY <1>0, <1>2 DEF Server!Sends, Clean, Wire, Untouched
<1>. QED BY <1>3, WireOfOne

LEMMA ReceivesWire ==
  ASSUME WireInv, NEW t \in AllConns, toClient[t] # <<>>, Server!Receives(t)
  PROVE WireInv'
PROOF
<1> USE DEF WireInv, WireType
<1>0. Wire(t)
  BY DEF OneInFlight, EndsInv, Wire
<1>1. toClient' = [toClient EXCEPT ![t] = <<>>]
  BY BufferFacts DEF Server!Receives
<1>2. UNCHANGED <<server, stage, shut, toServer, frame, gauge>>
  BY DEF Server!Receives
<1>3. toClient' \in [AllConns -> Buffers(Replies)]
  BY <1>1, BufferFacts
<1>4. Wire(t)' /\ \A u \in AllConns \ {t} : Untouched(u)
  BY <1>0, <1>1, <1>2 DEF Wire, Untouched
<1>5. WireType'
  BY <1>2, <1>3
<1>. QED BY <1>4, <1>5, WireOfOne

-----------------------------------------------------------------------------
(* What is under way.                                                      *)

(* The connections stay clean and every owner's.                           *)
Keeps ==
  \A t \in AllConns :
    /\ Clean(t) => Clean(t)'
    /\ \A c \in Callers : Own(t, c) => Own(t, c)'

LEMMA FreeIsClean == ASSUME WireInv, NEW t \in AllConns, Server!Free(t) PROVE Clean(t)
BY DEF WireInv, EndsInv, Server!Free, Clean

LEMMA RedialKeeps == ASSUME NEW new, NEW gone, Server!Redial(new, gone) PROVE Keeps
BY DEF Keeps, Clean, Own, Server!Redial, AllConns

LEMMA ServeKeeps == ASSUME WireInv, NEW t \in AllConns, Server!Serve(t) PROVE Keeps
PROOF
<1> USE DEF WireInv, WireType, AllConns
<1>0. Wire(t)
  BY DEF OneInFlight, EndsInv, Wire
<1>1. CASE Server!AcceptConn(t)
  BY <1>1 DEF Server!AcceptConn, Keeps, Clean, Own
<1>2. CASE Server!ReadHeader(t)
  <2> DEFINE f == Head(toServer[t])
  <2>1. /\ toServer[t] # <<>> /\ f \in Frames /\ toClient[t] = <<>>
        /\ toServer' = [toServer EXCEPT ![t] = <<>>]
    BY <1>0, <1>2, BufferFacts DEF Server!ReadHeader, Wire
  <2>2. /\ frame' \in {[frame EXCEPT ![t] = f], [frame EXCEPT ![t] = Server!Idle]}
        /\ toClient' = toClient \/ Server!Reply(t, "error", f.from)
    BY <1>2 DEF Server!ReadHeader, Server!End
  <2>3. /\ \A u \in AllConns \ {t} : toClient'[u] = toClient[u]
        /\ toClient'[t] # <<>> => Head(toClient'[t]).to = f.from
    BY <2>1, <2>2, BufferFacts DEF Server!Reply
  <2>. QED BY <2>1, <2>2, <2>3 DEF Keeps, Clean, Own
<1>3. CASE Server!ReadEnd(t)
  BY <1>3 DEF Server!ReadEnd, Server!End, Keeps, Clean, Own
<1>4. CASE Server!Execute(t)
  <2>1. frame[t] # Server!Idle /\ toClient[t] = <<>>
    BY <1>0, <1>4 DEF Server!Execute, Wire
  <2>2. /\ \A u \in AllConns \ {t} : toClient'[u] = toClient[u]
        /\ toClient'[t] # <<>> => Head(toClient'[t]).to = frame[t].from
    BY <1>4, <2>1, BufferFacts DEF Server!Execute, Server!Reply
  <2>3. toServer' = toServer /\ frame' = [frame EXCEPT ![t] = Server!Idle]
    BY <1>4 DEF Server!Execute
  <2>. QED BY <2>1, <2>2, <2>3 DEF Keeps, Clean, Own
<1>5. CASE Server!CloseConn(t)
  BY <1>5 DEF Server!CloseConn, Keeps, Clean, Own
<1>. QED BY <1>1, <1>2, <1>3, <1>4, <1>5 DEF Server!Serve

LEMMA MishapKeeps == ASSUME WireInv, Mishap PROVE Keeps
PROOF
<1> USE DEF WireInv, WireType, AllConns, Keeps, Clean, Own
<1>1. CASE Server!Stop
  BY <1>1 DEF Server!Stop
<1>2. ASSUME NEW t \in AllConns, Server!Panic(t) PROVE Keeps
  BY <1>2 DEF Server!Panic, Server!End
<1>3. ASSUME NEW t \in AllConns, Server!Reset(t) PROVE Keeps
  BY <1>3 DEF Server!Reset
<1>. QED BY <1>1, <1>2, <1>3 DEF Mishap

(* A step that leaves the pool and its callers alone, and keeps what is    *)
(* under way with its owners, keeps the invariant.                         *)
LEMMA OthersOwn ==
  ASSUME PoolInv, OwnInv, Keeps, UNCHANGED clientVars
  PROVE PoolInv' /\ OwnInv'
PROOF
<1>1. UNCHANGED <<conn, busy, old, running, drained, pc, holds, errored, sent>>
  BY DEF clientVars, vars, pool, end
<1>2. PoolInv'
  BY <1>1, NextInv DEF PoolInv, HoldInv, vars, pool, end
<1>3. /\ \A c \in Callers : pc[c] \in {"using", "returning"} => holds[c] \in AllConns
      /\ \A e \in Entries : conn[e] # None => conn[e] \in AllConns
  BY DEF PoolInv, IInv, TypeOK, HoldInv, AllConns
<1>4. OwnInv'
  BY <1>1, <1>3 DEF OwnInv, Keeps, Clean, Own
<1>. QED BY <1>2, <1>4

(* A turn lends and leaves idle only clean connections: one that was, one  *)
(* that comes back without an error, or a new one.                         *)
LEMMA TurnOwn ==
  ASSUME SInv, NEW cn, NEW taken, NEW wait \in SUBSET Callers, NEW at, NEW late,
         Turn(cn, taken, wait, at, late), Dials, UNCHANGED sent,
         \A e \in Entries : cn[e] \in {conn[e], None},
         \A e \in Entries \ taken : cn[e] # None => Clean(cn[e]),
         \A c \in wait : pc[c] \in {"asking", "waiting"},
         \A c \in Callers : pc[c] = "using" => at[c] = "using",
         \A c \in Callers : at[c] \in {"using", "returning"} => at[c] = pc[c],
         \A c \in errored : at[c] = "returning" => c \in errored'
  PROVE HoldInv' /\ WireInv' /\ OwnInv'
PROOF
<1>1. PICK f \in Refills(cn) :
        \E lent \in Lendings(wait, Free(f, taken)) : TurnEnds(f, lent, taken, wait, at, late)
  BY DEF Turn, TurnEnds
<1>2. PICK lent \in Lendings(wait, Free(f, taken)) : TurnEnds(f, lent, taken, wait, at, late)
  BY <1>1
<1> DEFINE served == {c \in wait : lent[c] # None}
           new == {conn'[e] : e \in Entries} \ ({conn[e] : e \in Entries} \cup {None})
           gone == {conn[e] : e \in Entries} \ ({conn'[e] : e \in Entries} \cup {None})
<1>3. new \subseteq Spare /\ Server!Redial(new, gone)
  BY DEF Dials
<1>4. \A t \in new : t \in AllConns /\ Server!Free(t) /\ Clean(t)
  BY <1>3, FreeIsClean DEF Spare, AllConns, SInv
<1>5. WireInv' /\ Keeps
  BY <1>3, <1>4, RedialWire, RedialKeeps DEF SInv
<1>6. conn' = f /\ busy' = taken \cup {lent[c] : c \in served}
  BY <1>2 DEF TurnEnds
<1>7. ASSUME NEW e \in Entries \ taken, f[e] # None
      PROVE f[e] \in AllConns /\ Clean(f[e])
  <2>0. f[e] \in AllConns
    BY <1>7 DEF Refills, AllConns
  <2>1. CASE cn[e] # None
    BY <1>7, <2>0, <2>1 DEF Refills
  <2>2. CASE cn[e] = None
    <3>1. \A d \in Entries : conn[d] # f[e]
      BY <1>7, <2>2 DEF Refills
    <3>2. f[e] \in new
      BY <1>6, <1>7, <3>1
    <3>. QED BY <1>4, <2>0, <3>2
  <2>. QED BY <2>1, <2>2
<1>8. ASSUME NEW c \in served
      PROVE /\ pc'[c] = "using" /\ holds'[c] = f[lent[c]] /\ lent[c] \in Entries \ taken
            /\ f[lent[c]] # None
  BY <1>2 DEF TurnEnds, Lendings, Free
<1>9. ASSUME NEW c \in Callers \ served, pc'[c] \in {"using", "returning"}
      PROVE pc'[c] = pc[c] /\ holds'[c] = holds[c]
  BY <1>2, <1>9 DEF TurnEnds
<1>10. ASSUME NEW c \in Callers, pc[c] = "using"
       PROVE c \notin served /\ pc'[c] = "using"
  BY <1>2, <1>10 DEF TurnEnds
<1>11. /\ \A c \in Callers : pc[c] \in {"using", "returning"} => holds[c] \in AllConns
       /\ HoldInv
  BY DEF SInv, PoolInv, IInv, TypeOK, HoldInv, AllConns
<1>12. HoldInv'
  BY <1>8, <1>9, <1>11 DEF HoldInv
<1>13. OwnInv'
  <2>1. sent' \subseteq {c \in Callers : pc'[c] = "using"}
    BY <1>10 DEF SInv, OwnInv
  <2>2. \A c \in sent' : Own(holds[c], c)'
    <3>1. SUFFICES ASSUME NEW c \in sent PROVE Own(holds[c], c)'
      OBVIOUS
    <3>2. c \in Callers /\ pc[c] = "using" /\ Own(holds[c], c)
      BY DEF SInv, OwnInv
    <3>3. holds'[c] = holds[c] /\ holds[c] \in AllConns
      BY <1>9, <1>10, <1>11, <3>2
    <3>. QED BY <1>5, <3>2, <3>3 DEF Keeps, Own
  <2>3. ASSUME NEW c \in Callers \ sent, pc'[c] = "using" PROVE Clean(holds[c])'
    <3>1. CASE c \in served
      BY <1>5, <1>7, <1>8, <3>1 DEF Keeps, Clean
    <3>2. CASE c \notin served
      BY <1>5, <1>9, <1>11, <2>3, <3>2 DEF Keeps, Clean, SInv, OwnInv
    <3>. QED BY <3>1, <3>2
  <2>4. ASSUME NEW c \in Callers \ errored', pc'[c] = "returning" PROVE Clean(holds[c])'
    <3>1. c \notin served /\ pc[c] = "returning" /\ holds'[c] = holds[c]
      BY <1>8, <1>9, <2>4
    <3>2. at[c] = "returning"
      BY <1>2, <2>4, <3>1 DEF TurnEnds
    <3>3. Clean(holds[c]) /\ holds[c] \in AllConns
      BY <1>11, <3>1, <3>2 DEF SInv, OwnInv
    <3>. QED BY <1>5, <3>1, <3>3 DEF Keeps, Clean
  <2>5. ASSUME NEW e \in Entries \ busy', conn'[e] # None PROVE Clean(conn[e])'
    BY <1>5, <1>6, <1>7, <2>5 DEF Keeps, Clean
  <2>. QED BY <2>1, <2>2, <2>3, <2>4, <2>5 DEF OwnInv
<1>. QED BY <1>5, <1>12, <1>13

(* The three turns of the pool.                                            *)

LEMMA TickOwn == ASSUME SInv, PoolTick PROVE HoldInv' /\ WireInv' /\ OwnInv'
PROOF
<1>1. /\ Turn(conn, busy, Waiting, pc, Waiting) /\ Dials
      /\ UNCHANGED sent /\ errored' = errored
  BY DEF PoolTick, Tick
<1>2. \A e \in Entries \ busy : conn[e] # None => Clean(conn[e])
  BY DEF SInv, OwnInv
<1>. QED BY <1>1, <1>2, TurnOwn DEF Waiting

LEMMA RequestOwn ==
  ASSUME SInv, NEW c \in Callers, PoolTakesRequest(c) PROVE HoldInv' /\ WireInv' /\ OwnInv'
PROOF
<1> DEFINE at == [pc EXCEPT ![c] = "waiting"]
           wait == Waiting \cup {c}
<1>1. PICK late \in SUBSET {c} : Turn(conn, busy, wait, at, old \cup late)
  BY DEF PoolTakesRequest, TakeRequest
<1>2. pc[c] = "asking" /\ Dials /\ UNCHANGED sent /\ errored' = errored
  BY DEF PoolTakesRequest, TakeRequest
<1>3. \A e \in Entries \ busy : conn[e] # None => Clean(conn[e])
  BY DEF SInv, OwnInv
<1>4. at[c] = "waiting" /\ \A d \in Callers : d # c => at[d] = pc[d]
  BY DEF SInv, PoolInv, IInv, TypeOK
<1>5. wait \subseteq Callers /\ \A d \in wait : pc[d] \in {"asking", "waiting"}
  BY <1>2 DEF Waiting
<1> HIDE DEF at, wait
<1>. QED BY <1>1, <1>2, <1>3, <1>4, <1>5, TurnOwn

LEMMA ReturnOwn ==
  ASSUME SInv, NEW c \in Callers, PoolTakesReturn(c) PROVE HoldInv' /\ WireInv' /\ OwnInv'
PROOF
<1> DEFINE mine == Returned(c)
           cn == [e \in Entries |-> IF e \in mine /\ Breaks(c) THEN None ELSE conn[e]]
           at == [pc EXCEPT ![c] = "idle"]
<1>1. /\ pc[c] = "returning" /\ Turn(cn, busy \ mine, Waiting, at, old)
      /\ errored' = errored \ {c} /\ Dials /\ UNCHANGED sent
  BY DEF PoolTakesReturn, TakeReturn
<1>2. at[c] = "idle" /\ \A d \in Callers : d # c => at[d] = pc[d]
  BY DEF SInv, PoolInv, IInv, TypeOK
<1>3. ASSUME NEW e \in Entries \ (busy \ mine), cn[e] # None PROVE Clean(cn[e])
  <2>1. cn[e] = conn[e]
    BY <1>3
  <2>2. CASE e \in mine
    <3>1. c \notin errored /\ conn[e] = holds[c]
      BY <1>3, <2>2 DEF Breaks, Returned
    <3>. QED BY <1>1, <2>1, <3>1 DEF SInv, OwnInv
  <2>3. CASE e \notin busy
    BY <1>3, <2>1, <2>3 DEF SInv, OwnInv
  <2>. QED BY <2>2, <2>3
<1>4. \A e \in Entries : cn[e] \in {conn[e], None}
  OBVIOUS
<1>5. Waiting \subseteq Callers /\ \A d \in Waiting : pc[d] \in {"asking", "waiting"}
  BY DEF Waiting
<1> HIDE DEF at, cn, mine
<1>. QED BY <1>1, <1>2, <1>3, <1>4, <1>5, TurnOwn

-----------------------------------------------------------------------------
(* The exchange.                                                           *)

(* Nobody else uses or is going to be lent what a caller uses.             *)
LEMMA Alone ==
  ASSUME PoolInv, NEW c \in Callers, pc[c] \in {"using", "returning"}
  PROVE /\ holds[c] \in Conns /\ holds[c] \in AllConns
        /\ \A d \in Callers \ {c} :
             pc[d] \in {"using", "returning"} => holds[d] # holds[c] /\ holds[d] \in AllConns
        /\ \A e \in Entries \ busy : conn[e] # holds[c]
        /\ \A e \in Entries \ busy : conn[e] # None => conn[e] \in AllConns
PROOF
<1> USE DEF PoolInv, HoldInv, IInv, LendInv
<1>1. holds[c] # None /\ holds[c] \in Conns
  BY DEF TypeOK
<1>2. \A d \in Callers \ {c} :
        pc[d] \in {"using", "returning"} => holds[d] # holds[c] /\ holds[d] \in AllConns
  BY <1>1 DEF HolderInv, TypeOK, AllConns
<1>3. \A e \in Entries \ busy : conn[e] # holds[c]
  BY <1>1 DEF HolderInv, Distinct, TypeOK
<1>4. \A e \in Entries \ busy : conn[e] # None => conn[e] \in AllConns
  BY DEF TypeOK, AllConns
<1>. QED BY <1>1, <1>2, <1>3, <1>4 DEF AllConns

LEMMA LocalOwn ==
  ASSUME SInv, NEW c \in Callers, Local(c) PROVE HoldInv' /\ WireInv' /\ OwnInv'
PROOF
<1>1. /\ UNCHANGED <<conn, busy, holds, errored, sent, serverVars>>
      /\ \A d \in Callers : pc'[d] \in {"using", "returning"} => pc'[d] = pc[d]
      /\ \A d \in Callers : pc[d] = "using" => pc'[d] = pc[d]
  BY DEF Local, Call, Age, pool, end, SInv, PoolInv, IInv, TypeOK
<1>2. HoldInv'
  BY <1>1 DEF SInv, PoolInv, HoldInv
<1>3. WireInv'
  BY <1>1 DEF SInv, WireInv, WireType, OneInFlight, EndsInv, serverVars
<1>4. OwnInv'
  BY <1>1 DEF SInv, OwnInv, Own, Clean, serverVars
<1>. QED BY <1>2, <1>3, <1>4

LEMMA SendOwn ==
  ASSUME SInv, NEW c \in Callers, SendRequest(c) PROVE HoldInv' /\ WireInv' /\ OwnInv'
PROOF
<1> DEFINE t == holds[c]
<1>1. /\ pc[c] = "using" /\ c \notin sent /\ sent' = sent \cup {c}
      /\ Server!Sends(t, "request", c)
      /\ UNCHANGED <<conn, busy, pc, holds, errored>>
  BY DEF SendRequest, vars, pool
<1>2. Clean(t)
  BY <1>1 DEF SInv, OwnInv
<1>3. t \in AllConns
  BY <1>1, Alone DEF SInv
<1>4. WireInv'
  BY <1>1, <1>2, <1>3, SendsWire DEF SInv, Kinds
<1>5. HoldInv'
  BY <1>1 DEF SInv, PoolInv, HoldInv
<1>6. UNCHANGED <<toClient, frame>> /\ \A u \in AllConns \ {t} : toServer'[u] = toServer[u]
  BY <1>1, <1>3 DEF Server!Sends, SInv, WireInv, WireType
<1>7. toServer'[t] # <<>> => Head(toServer'[t]).from = c
  BY <1>1, <1>2, <1>3, BufferFacts DEF Server!Sends, Clean, SInv, WireInv, WireType
<1>8. Own(t, c)'
  BY <1>1, <1>2, <1>6, <1>7 DEF Own, Clean
<1>9. PoolInv
  BY DEF SInv
<1> HIDE DEF t
<1>10. OwnInv'
  <2>1. \A d \in Callers \ {c} : pc[d] \in {"using", "returning"} =>
           /\ Clean(holds[d]) => Clean(holds[d])'
           /\ Own(holds[d], d) => Own(holds[d], d)'
    BY <1>1, <1>6, <1>9, Alone DEF Clean, Own, t
  <2>2. \A e \in Entries \ busy : conn[e] # None /\ Clean(conn[e]) => Clean(conn[e])'
    BY <1>1, <1>6, <1>9, Alone DEF Clean, t
  <2>3. Own(holds[c], c)'
    BY <1>1, <1>8 DEF Own, t
  <2>. QED BY <1>1, <2>1, <2>2, <2>3 DEF SInv, OwnInv
<1>. QED BY <1>4, <1>5, <1>10

(* An exchange that ends without an answer leaves its connection to be     *)
(* closed, or to nobody.                                                   *)
LEMMA FailOwn ==
  ASSUME SInv, NEW c \in Callers, SendFails(c) \/ ReadNothing(c)
  PROVE HoldInv' /\ WireInv' /\ OwnInv'
PROOF
<1>1. /\ sent' = sent \ {c} /\ UNCHANGED <<conn, busy, serverVars>>
      /\ Broken(c) \/ Garbled(c)
  BY DEF SendFails, ReadNothing, Broken, Garbled, ReturnConn, pool
<1>2. WireInv'
  BY <1>1 DEF SInv, WireInv, WireType, OneInFlight, EndsInv, serverVars
<1>3. /\ \A d \in Callers \ {c} : pc'[d] = pc[d] /\ holds'[d] = holds[d]
      /\ pc'[c] = "returning" => c \in errored' /\ holds'[c] = holds[c] /\ pc[c] = "using"
      /\ pc'[c] \in {"idle", "returning"}
      /\ errored \subseteq errored'
  BY <1>1 DEF Broken, Garbled, ReturnConn, pool, SInv, PoolInv, IInv, TypeOK
<1>4. HoldInv'
  BY <1>3 DEF SInv, PoolInv, HoldInv
<1>5. OwnInv'
  BY <1>1, <1>3 DEF SInv, OwnInv, Own, Clean, serverVars
<1>. QED BY <1>2, <1>4, <1>5

LEMMA ReplyOwn ==
  ASSUME SInv, NEW c \in Callers, ReadReply(c) PROVE HoldInv' /\ WireInv' /\ OwnInv'
PROOF
<1> DEFINE t == holds[c]
<1>1. /\ c \in sent /\ toClient[t] # <<>> /\ pc[c] = "using" /\ sent' = sent \ {c}
      /\ Server!Receives(t) /\ (Answered(c) \/ Garbled(c))
      /\ UNCHANGED <<conn, busy, errored>>
  BY DEF ReadReply, Answered, Garbled, ReturnConn, pool
<1>2. t \in AllConns
  BY <1>1, Alone DEF SInv
<1>3. WireInv'
  BY <1>1, <1>2, ReceivesWire DEF SInv
<1>4. /\ pc'[c] = "idle" \/ (pc'[c] = "returning" /\ holds'[c] = t)
      /\ \A d \in Callers \ {c} : pc'[d] = pc[d] /\ holds'[d] = holds[d]
  BY <1>1 DEF Answered, Garbled, ReturnConn, SInv, PoolInv, IInv, TypeOK
<1>5. HoldInv'
  BY <1>1, <1>4 DEF SInv, PoolInv, HoldInv
<1>6. toServer[t] = <<>> /\ frame[t] = Server!Idle
  BY <1>1, <1>2 DEF SInv, WireInv, OneInFlight
<1>7. /\ UNCHANGED <<toServer, frame>> /\ toClient'[t] = <<>>
      /\ \A u \in AllConns \ {t} : toClient'[u] = toClient[u]
  BY <1>1, <1>2, BufferFacts DEF Server!Receives, SInv, WireInv, WireType
<1>8. PoolInv
  BY DEF SInv
<1> HIDE DEF t
<1>9. OwnInv'
  <2>1. \A d \in Callers \ {c} : pc[d] \in {"using", "returning"} =>
           /\ Clean(holds[d]) => Clean(holds[d])'
           /\ Own(holds[d], d) => Own(holds[d], d)'
    BY <1>1, <1>4, <1>7, <1>8, Alone DEF Clean, Own, t
  <2>2. \A e \in Entries \ busy : conn[e] # None /\ Clean(conn[e]) => Clean(conn[e])'
    BY <1>1, <1>7, <1>8, Alone DEF Clean, t
  <2>3. pc'[c] = "returning" => Clean(holds[c])'
    BY <1>1, <1>4, <1>6, <1>7 DEF Clean
  <2>. QED BY <1>1, <1>4, <2>1, <2>2, <2>3 DEF SInv, OwnInv
<1>. QED BY <1>3, <1>5, <1>9

(* The connections of other programs are none of the pool's.               *)
LEMMA GuestOwn ==
  ASSUME SInv, NEW g \in Guests, GuestStep(g) PROVE PoolInv' /\ WireInv' /\ OwnInv'
PROOF
<1>0. g \in AllConns /\ g \notin Conns /\ UNCHANGED clientVars
  BY SessionsAssumption DEF AllConns, GuestStep, Visit, Leave, Ask
<1>1. CASE Visit(g) \/ Leave(g)
  <2>1. WireInv' /\ Keeps
    BY <1>1, RedialWire, RedialKeeps DEF Visit, Leave, SInv
  <2>. QED BY <1>0, <2>1, OthersOwn DEF SInv
<1>2. ASSUME NEW kind \in Kinds, Ask(g, kind) PROVE PoolInv' /\ WireInv' /\ OwnInv'
  <2>1. Server!Sends(g, kind, None) /\ Clean(g)
    BY <1>2 DEF Ask, Clean
  <2>2. WireInv'
    BY <1>0, <2>1, SendsWire DEF SInv
  <2>3. UNCHANGED <<toClient, frame>> /\ \A u \in Conns : toServer'[u] = toServer[u]
    BY <1>0, <2>1 DEF Server!Sends, SInv, WireInv, WireType, AllConns
  <2>4. UNCHANGED <<conn, busy, old, running, drained, pc, holds, errored, sent>>
    BY <1>0 DEF clientVars, vars, pool, end
  <2>5. PoolInv'
    BY <2>4, NextInv DEF SInv, PoolInv, HoldInv, vars, pool, end
  <2>6. /\ \A c \in Callers : pc[c] \in {"using", "returning"} => holds[c] \in Conns
        /\ \A e \in Entries : conn[e] # None => conn[e] \in Conns
    BY DEF SInv, PoolInv, IInv, TypeOK, HoldInv
  <2>7. OwnInv'
    BY <2>3, <2>4, <2>6 DEF SInv, OwnInv, Clean, Own
  <2>. QED BY <2>2, <2>5, <2>7
<1>. QED BY <1>1, <1>2 DEF GuestStep, Kinds

-----------------------------------------------------------------------------
LEMMA SessionsInitInv == SessionsInit => SInv /\ CountInv
PROOF
<1> SUFFICES ASSUME SessionsInit PROVE SInv /\ CountInv
  OBVIOUS
<1> USE DEF SessionsInit, Init, Server!ServerInit
<1>1. PoolInv
  BY InitInv DEF PoolInv, HoldInv
<1>2. WireInv
  BY BufferFacts DEF WireInv, WireType, OneInFlight, EndsInv, AllConns, Server!Stages
<1>3. OwnInv
  BY DEF OwnInv
<1>4. Server!Open = {}
  BY DEF Server!Open, Server!Opened
<1>5. CountInv
  BY <1>4, FS_EmptySet DEF CountInv
<1>. QED BY <1>1, <1>2, <1>3, <1>5 DEF SInv

LEMMA SessionsStep == ASSUME SInv, [SessionsNext]_sessionVars PROVE SInv'
PROOF
<1>1. IInv'
  BY PoolSteps, NextInv DEF SInv, PoolInv
<1>2. CASE PoolTick
  BY <1>1, <1>2, TickOwn DEF SInv, PoolInv
<1>3. ASSUME NEW c \in Callers,
             PoolTakesRequest(c) \/ PoolTakesReturn(c) \/ Local(c) \/ ExchangeStep(c)
      PROVE SInv'
  BY <1>1, <1>3, RequestOwn, ReturnOwn, LocalOwn, SendOwn, FailOwn, ReplyOwn
     DEF ExchangeStep, SInv, PoolInv
<1>4. ASSUME NEW t \in Guests, GuestStep(t) PROVE SInv'
  BY <1>4, GuestOwn DEF SInv
<1>5. CASE ServerStep /\ UNCHANGED clientVars
  <2>1. ASSUME NEW t \in AllConns, Server!Serve(t) PROVE WireInv' /\ Keeps
    BY <2>1, ServeWire, ServeKeeps DEF SInv
  <2>2. CASE Server!Listen \/ Server!Loaded \/ Server!NotLoaded
    <3>1. /\ UNCHANGED <<stage, shut, toServer, toClient, frame>>
          /\ server' \in {"loading", "waiting", "accepting"}
      BY <2>2 DEF Server!Listen, Server!Loaded, Server!NotLoaded, Server!wires
    <3>2. WireInv'
      BY <3>1 DEF SInv, WireInv, WireType, OneInFlight, EndsInv
    <3>3. Keeps
      BY <3>1 DEF Keeps, Clean, Own
    <3>. QED BY <1>5, <3>2, <3>3, OthersOwn DEF SInv
  <2>. QED BY <1>5, <2>1, <2>2, OthersOwn DEF ServerStep, SInv, AllConns
<1>6. CASE Mishap /\ UNCHANGED clientVars
  BY <1>6, MishapWire, MishapKeeps, OthersOwn DEF SInv
<1>7. CASE UNCHANGED sessionVars
  <2>1. WireInv' /\ Keeps
    BY <1>7 DEF SInv, WireInv, WireType, OneInFlight, EndsInv, Keeps, Clean, Own, sessionVars, serverVars
  <2>. QED BY <1>7, <2>1, OthersOwn DEF SInv, sessionVars
<1>. QED BY <1>2, <1>3, <1>4, <1>5, <1>6, <1>7 DEF SessionsNext

LEMMA SessionsInvariant == SessionsSpec => [](SInv /\ CountInv)
PROOF
<1>1. SInv /\ CountInv /\ [SessionsNext]_sessionVars => SInv' /\ CountInv'
  BY SessionsStep, CountStep DEF SInv
<1>. QED BY <1>1, SessionsInitInv, PTL DEF SessionsSpec

(* The gauge never says less than the number of open connections, however  *)
(* many there are and whatever way Serve takes to its end (Serve).         *)
THEOREM GaugeIsEnough == SessionsSpec => []GaugeCovers
PROOF
<1>1. ASSUME CountInv PROVE GaugeCovers
  <2>1. Cardinality(Server!Open) \in Nat
    BY <1>1, FS_CardinalityType DEF CountInv
  <2>. QED BY <1>1, <2>1 DEF CountInv, GaugeCovers, Server!GaugeCovers, Server!Cardinality, Cardinality
<1>. QED BY <1>1, SessionsInvariant, PTL

(* A caller's next reply is its own, through restarts, resets and failing  *)
(* calls of any number of callers: connections are lent clean (Call, run,  *)
(* Serve).                                                                 *)
THEOREM AnswersAreOwn == SessionsSpec => AnswerIsOwn
PROOF
<1>1. SInv => \A c \in Callers : ReadReply(c) => Head(toClient[holds[c]]).to = c
  BY DEF SInv, OwnInv, Own, ReadReply
<1>. QED BY <1>1, SessionsInvariant, PTL DEF AnswerIsOwn

(* The variables of client and server keep their types, each direction of  *)
(* a connection holds one message at most, and a connection both ends have *)
(* closed holds none.                                                      *)
THEOREM SessionsTypes == SessionsSpec => []SessionsTypeOK
PROOF
<1>1. ASSUME SInv, CountInv PROVE SessionsTypeOK
  <2> USE DEF SInv, WireInv, WireType
  <2>1. \A messages : \A b \in Buffers(messages) : Len(b) <= 1
    <3>1. SUFFICES ASSUME NEW messages, NEW b \in Buffers(messages) PROVE Len(b) <= 1
      OBVIOUS
    <3>2. CASE b = <<>>
      BY <3>2
    <3>3. ASSUME NEW m, b = <<m>> PROVE Len(b) <= 1
      BY <3>3
    <3>. QED BY <3>2, <3>3 DEF Buffers
  <2>2. Server!ServerTypeOK
    BY <1>1, <2>1 DEF Server!ServerTypeOK, AllConns, EndsInv, CountInv
  <2>3. \A t \in Conns : Server!Free(t) => toServer[t] = <<>> /\ toClient[t] = <<>>
    BY <1>1, FreeIsClean DEF Clean, AllConns
  <2>. QED BY <1>1, <2>2, <2>3 DEF SessionsTypeOK, PoolInv, IInv, OwnInv
<1>. QED BY <1>1, SessionsInvariant, PTL
=============================================================================
