------------------------ MODULE ConnectionPoolProofs ------------------------
(***************************************************************************)
(* Proofs about ConnectionPool, for every set of callers, closers, pool    *)
(* entries and connections.  That a lent connection stays with its caller  *)
(* rests on three facts: no two entries hold the same connection, a        *)
(* holder's entry is busy, and no two callers hold the same connection.    *)
(***************************************************************************)
EXTENDS ConnectionPool, TLAPS

Connection == Conns \cup {None}

(* No two entries of cn hold the same connection.                          *)
Distinct(cn) == \A d, e \in Entries : cn[d] = cn[e] /\ d # e => cn[d] = None

StageInv == \A c \in Callers : holds[c] # None => pc[c] \in {"using", "returning"}

HolderInv ==
  /\ \A c \in Callers : holds[c] # None => \E e \in busy : conn[e] = holds[c]
  /\ \A c, d \in Callers : holds[c] = holds[d] /\ c # d => holds[c] = None

LendInv == Distinct(conn) /\ StageInv /\ HolderInv

IInv == TypeOK /\ LendInv

LEMMA InvImpliesLentOnce == IInv => LentOnce
BY DEF IInv, LendInv, TypeOK, Distinct, HolderInv, LentOnce

LEMMA InitInv == Init => IInv
PROOF
<1>1. Init => TypeOK
  BY PoolAssumption DEF Init, TypeOK, CallStages, CloseStages
<1>2. Init => LendInv
  BY DEF Init, LendInv, Distinct, StageInv, HolderInv
<1>. QED BY <1>1, <1>2 DEF IInv

-----------------------------------------------------------------------------
(* What the event of a turn has to leave to it: every holder has an entry  *)
(* that is still taken, and nobody that waits holds anything.              *)
Ready(cn, taken, wait, at) ==
  /\ cn \in [Entries -> Connection] /\ Distinct(cn)
  /\ \A e \in Entries : cn[e] \in {conn[e], None}
  /\ taken \subseteq Entries /\ wait \subseteq Callers
  /\ \A c \in wait : holds[c] = None
  /\ \A c \in Callers : holds[c] # None => at[c] \in {"using", "returning", "idle"}
  /\ \A c \in Callers : holds[c] # None /\ at[c] # "idle" =>
        \E e \in taken : cn[e] = holds[c]

(* The effect of a turn that has dialled f and lent the entries lent.      *)
TurnEnds(f, lent, taken, wait, at, late) ==
  LET served == {c \in wait : lent[c] # None}
      losers == (wait \cap late) \ served
  IN /\ conn' = f
     /\ busy' = taken \cup {lent[c] : c \in served}
     /\ old' = old \ (served \cup losers)
     /\ pc' = [g \in Callers \cup Closers |->
                 IF g \in served THEN "using" ELSE IF g \in losers THEN "idle" ELSE at[g]]
     /\ holds' = [c \in Callers |->
                    IF c \in served THEN f[lent[c]]
                    ELSE IF at[c] = "idle" THEN None ELSE holds[c]]
     /\ UNCHANGED end

LEMMA TurnInv ==
  ASSUME TypeOK, LendInv, NEW cn, NEW taken, NEW wait, NEW at, NEW late,
         Ready(cn, taken, wait, at), Turn(cn, taken, wait, at, late)
  PROVE LendInv'
PROOF
<1>1. PICK f \in Refills(cn) :
        \E lent \in Lendings(wait, Free(f, taken)) : TurnEnds(f, lent, taken, wait, at, late)
  BY DEF Turn, TurnEnds
<1>2. PICK lent \in Lendings(wait, Free(f, taken)) : TurnEnds(f, lent, taken, wait, at, late)
  BY <1>1
<1> DEFINE served == {c \in wait : lent[c] # None}
           Rest(c) == c \in Callers \ served
<1> USE DEF Ready
<1>3. f \in [Entries -> Connection] /\ Distinct(f)
  BY DEF Refills, Distinct, Connection
<1>4. \A e \in Entries : cn[e] # None => f[e] = cn[e]
  BY DEF Refills
<1>5. /\ \A c \in served : lent[c] \in Entries \ taken /\ f[lent[c]] # None
      /\ \A c, d \in served : lent[c] = lent[d] => c = d
  BY DEF Lendings, Free
<1>6. /\ \A c \in served : holds'[c] = f[lent[c]] /\ pc'[c] = "using"
      /\ \A c \in Callers : Rest(c) /\ holds'[c] # None =>
           holds'[c] = holds[c] /\ pc'[c] = at[c] /\ at[c] # "idle"
  BY <1>2 DEF TurnEnds
<1>7. Distinct(conn)'
  BY <1>2, <1>3 DEF Distinct, TurnEnds
<1>8. StageInv'
  BY <1>6 DEF StageInv
<1>9. \A c \in Callers : Rest(c) /\ holds'[c] # None =>
        \E e \in taken : f[e] = holds'[c]
  BY <1>4, <1>6
<1>10. HolderInv'
  <2>1. \A c \in Callers : holds'[c] # None => \E e \in busy' : conn'[e] = holds'[c]
    BY <1>2, <1>6, <1>9 DEF TurnEnds
  <2>2. ASSUME NEW c \in Callers, NEW d \in Callers, holds'[c] = holds'[d], c # d,
               holds'[c] # None
        PROVE FALSE
    <3>1. CASE c \in served /\ d \in served
      <4>1. lent[c] # lent[d] /\ f[lent[c]] = f[lent[d]]
        BY <1>5, <1>6, <2>2, <3>1
      <4>. QED BY <1>3, <1>5, <3>1, <4>1 DEF Distinct
    <3>2. CASE c \in served /\ Rest(d)
      <4>1. PICK e \in taken : f[e] = holds'[d]
        BY <1>9, <2>2, <3>2
      <4>. QED BY <1>3, <1>5, <1>6, <2>2, <3>2, <4>1 DEF Distinct
    <3>3. CASE Rest(c) /\ d \in served
      <4>1. PICK e \in taken : f[e] = holds'[c]
        BY <1>9, <2>2, <3>3
      <4>. QED BY <1>3, <1>5, <1>6, <2>2, <3>3, <4>1 DEF Distinct
    <3>4. CASE Rest(c) /\ Rest(d)
      BY <1>6, <2>2, <3>4 DEF LendInv, HolderInv
    <3>. QED BY <3>1, <3>2, <3>3, <3>4
  <2>. QED BY <2>1, <2>2 DEF HolderInv
<1>. QED BY <1>7, <1>8, <1>10 DEF LendInv

(* A turn keeps the types, too.                                            *)
LEMMA TurnType ==
  ASSUME TypeOK, NEW cn, NEW taken \in SUBSET Entries, NEW wait \in SUBSET Callers,
         NEW at \in [Callers \cup Closers -> CallStages \cup CloseStages], NEW late,
         \A c \in Callers : at[c] \in CallStages,
         \A k \in Closers : at[k] \in CloseStages,
         Turn(cn, taken, wait, at, late), errored' \subseteq Callers
  PROVE TypeOK'
PROOF
<1>0. PICK f \in Refills(cn) :
        \E lent \in Lendings(wait, Free(f, taken)) : TurnEnds(f, lent, taken, wait, at, late)
  BY DEF Turn, TurnEnds
<1>1. PICK lent \in Lendings(wait, Free(f, taken)) : TurnEnds(f, lent, taken, wait, at, late)
  BY <1>0
<1> USE DEF TurnEnds
<1>2. f \in [Entries -> Conns \cup {None}]
  BY DEF Refills
<1>3. \A c \in wait : lent[c] # None => lent[c] \in Entries
  BY DEF Lendings, Free
<1>4. conn' \in [Entries -> Conns \cup {None}] /\ busy' \subseteq Entries
  BY <1>1, <1>2, <1>3
<1>5. old' \subseteq Callers /\ running' \in BOOLEAN /\ drained' \in BOOLEAN
  BY <1>1 DEF TypeOK, end
<1>6. /\ pc' \in [Callers \cup Closers -> CallStages \cup CloseStages]
      /\ \A c \in Callers : pc'[c] \in CallStages
      /\ \A k \in Closers : pc'[k] \in CloseStages
  BY <1>1, PoolAssumption DEF CallStages
<1>7. holds' \in [Callers -> Conns \cup {None}]
  BY <1>1, <1>2, <1>3 DEF TypeOK
<1>. QED BY <1>4, <1>5, <1>6, <1>7 DEF TypeOK

-----------------------------------------------------------------------------
(* The three events of run that take a turn.                               *)

LEMMA TickInv == ASSUME IInv, Tick PROVE IInv'
PROOF
<1> USE DEF IInv
<1>1. Turn(conn, busy, Waiting, pc, Waiting) /\ errored' = errored
  BY DEF Tick
<1>2. Ready(conn, busy, Waiting, pc)
  BY DEF Ready, TypeOK, LendInv, Connection, Waiting, StageInv, HolderInv
<1>3. TypeOK'
  BY <1>1, TurnType DEF TypeOK, Waiting
<1>. QED BY <1>1, <1>2, <1>3, TurnInv

LEMMA TakeRequestInv == ASSUME IInv, NEW c \in Callers, TakeRequest(c) PROVE IInv'
PROOF
<1> USE DEF IInv
<1> DEFINE at == [pc EXCEPT ![c] = "waiting"]
           wait == Waiting \cup {c}
<1>1. PICK late \in SUBSET {c} : Turn(conn, busy, wait, at, old \cup late)
  BY DEF TakeRequest
<1>2. pc[c] = "asking" /\ errored' = errored
  BY DEF TakeRequest
<1>3. holds[c] = None
  BY <1>2 DEF LendInv, StageInv
<1>4. Ready(conn, busy, wait, at)
  BY <1>3 DEF Ready, TypeOK, LendInv, Connection, Waiting, StageInv, HolderInv
<1>5. /\ at \in [Callers \cup Closers -> CallStages \cup CloseStages]
      /\ \A d \in Callers : at[d] \in CallStages
      /\ \A k \in Closers : at[k] \in CloseStages
  BY PoolAssumption DEF TypeOK, CallStages
<1>6. wait \subseteq Callers
  BY DEF Waiting
<1> HIDE DEF at, wait
<1>7. TypeOK'
  BY <1>1, <1>2, <1>5, <1>6, TurnType DEF TypeOK
<1>. QED BY <1>1, <1>4, <1>7, TurnInv

LEMMA TakeReturnInv == ASSUME IInv, NEW c \in Callers, TakeReturn(c) PROVE IInv'
PROOF
<1> USE DEF IInv
<1> DEFINE mine == Returned(c)
           cn == [e \in Entries |-> IF e \in mine /\ Breaks(c) THEN None ELSE conn[e]]
           at == [pc EXCEPT ![c] = "idle"]
<1>1. Turn(cn, busy \ mine, Waiting, at, old) /\ errored' = errored \ {c}
  BY DEF TakeReturn
<1>2. /\ cn \in [Entries -> Connection] /\ Distinct(cn)
      /\ \A e \in Entries : cn[e] \in {conn[e], None}
  BY DEF TypeOK, LendInv, Distinct, Connection
<1>3. at[c] = "idle" /\ \A d \in Callers : d # c => at[d] = pc[d]
  BY DEF TypeOK
<1>4. ASSUME NEW d \in Callers, holds[d] # None, at[d] # "idle"
      PROVE \E e \in busy \ mine : cn[e] = holds[d]
  <2>1. PICK e \in busy : conn[e] = holds[d]
    BY <1>4 DEF LendInv, HolderInv
  <2>2. e \in Entries /\ d # c
    BY <1>3, <1>4 DEF TypeOK
  <2>3. e \notin mine
    BY <1>4, <2>1, <2>2 DEF LendInv, HolderInv, Returned
  <2>. QED BY <2>1, <2>2, <2>3
<1>5. /\ \A d \in Waiting : holds[d] = None
      /\ \A d \in Callers : holds[d] # None => at[d] \in {"using", "returning", "idle"}
  BY <1>3 DEF Waiting, LendInv, StageInv
<1>6. /\ at \in [Callers \cup Closers -> CallStages \cup CloseStages]
      /\ \A d \in Callers : at[d] \in CallStages
      /\ \A k \in Closers : at[k] \in CloseStages
  BY PoolAssumption DEF TypeOK, CallStages
<1>7. busy \ mine \subseteq Entries /\ Waiting \subseteq Callers
  BY DEF TypeOK, Waiting
<1> HIDE DEF at, cn, mine
<1>8. Ready(cn, busy \ mine, Waiting, at)
  BY <1>2, <1>4, <1>5, <1>7 DEF Ready
<1>9. TypeOK'
  BY <1>1, <1>6, <1>7, TurnType DEF TypeOK
<1>. QED BY <1>1, <1>8, <1>9, TurnInv

(* A step that moves goroutines only, and no holder out of its exchange.   *)
LEMMA MoveInv ==
  ASSUME LendInv, UNCHANGED <<conn, busy, holds>>,
         \A c \in Callers : holds[c] # None => pc'[c] \in {"using", "returning"}
  PROVE LendInv'
BY DEF LendInv, Distinct, StageInv, HolderInv

LEMMA NextInv == IInv /\ [Next]_vars => IInv'
PROOF
<1> SUFFICES ASSUME IInv, [Next]_vars PROVE IInv'
  OBVIOUS
<1> USE DEF IInv, CallStages, CloseStages
<1>1. ASSUME Forget PROVE IInv'
  <2>1. TypeOK'
    BY <1>1 DEF Forget, TypeOK, pool
  <2>. QED BY <1>1, <2>1, MoveInv DEF Forget, pool, LendInv, StageInv
<1>2. ASSUME NEW c \in Callers, Call(c) PROVE IInv'
  <2>1. TypeOK'
    BY <1>2, PoolAssumption DEF Call, TypeOK, pool, end
  <2>. QED BY <1>2, <2>1, MoveInv DEF Call, pool, LendInv, StageInv, TypeOK
<1>3. ASSUME NEW c \in Callers, Age(c) PROVE IInv'
  <2>1. TypeOK'
    BY <1>3 DEF Age, TypeOK, end
  <2>. QED BY <1>3, <2>1, MoveInv DEF Age, LendInv, StageInv
<1>4. ASSUME NEW c \in Callers, NEW err \in BOOLEAN, ReturnConn(c, err) PROVE IInv'
  <2>1. TypeOK'
    BY <1>4, PoolAssumption DEF ReturnConn, TypeOK, pool, end
  <2>. QED BY <1>4, <2>1, MoveInv DEF ReturnConn, pool, LendInv, StageInv, TypeOK
<1>5. ASSUME NEW c \in Callers, Garbled(c) PROVE IInv'
  <2>1. TypeOK'
    BY <1>5, PoolAssumption DEF Garbled, TypeOK, pool, end
  <2>2. LendInv'
    BY <1>5 DEF Garbled, TypeOK, pool, LendInv, Distinct, StageInv, HolderInv
  <2>. QED BY <2>1, <2>2
<1>6. ASSUME NEW k \in Closers, Close(k) PROVE IInv'
  <2>1. TypeOK'
    BY <1>6, PoolAssumption DEF Close, TypeOK, pool, end
  <2>. QED BY <1>6, <2>1, MoveInv, PoolAssumption DEF Close, pool, LendInv, StageInv, TypeOK
<1>7. ASSUME NEW k \in Closers, Drain(k) PROVE IInv'
  <2>1. TypeOK'
    BY <1>7, PoolAssumption DEF Drain, Waiting, TypeOK
  <2>. QED BY <1>7, <2>1, MoveInv, PoolAssumption DEF Drain, Waiting, LendInv, StageInv
<1>8. CASE Next
  BY <1>1, <1>2, <1>3, <1>4, <1>5, <1>6, <1>7, <1>8,
     TickInv, TakeRequestInv, TakeReturnInv DEF Next, Exchange, Answered, Broken
<1>9. CASE UNCHANGED vars
  <2>1. TypeOK'
    BY <1>9 DEF vars, pool, end, TypeOK
  <2>. QED BY <1>9, <2>1, MoveInv DEF vars, pool, LendInv, StageInv
<1>. QED BY <1>8, <1>9

-----------------------------------------------------------------------------
LEMMA Invariant == Spec => []IInv
BY InitInv, NextInv, PTL DEF Spec

(* Every variable keeps its type (run, Call, Close).                       *)
THEOREM TypeCorrect == Spec => []TypeOK
PROOF
<1>1. IInv => TypeOK
  BY DEF IInv
<1>. QED BY <1>1, Invariant, PTL

(* A connection is lent to one caller at a time, for any number of         *)
(* callers and entries, and whatever fails (run, Call).                    *)
THEOREM LentToOne == Spec => []LentOnce
BY Invariant, InvImpliesLentOnce, PTL

-----------------------------------------------------------------------------
(* Who is left waiting at the end of a turn finds no entry free: lending   *)
(* stops only when there are no more callers or no more entries, and       *)
(* between turns nothing but a turn makes a caller wait or an entry free.  *)

LEMMA TurnServes ==
  ASSUME TypeOK, NEW cn, NEW taken, NEW wait \in SUBSET Callers, NEW at, NEW late,
         \A c \in Callers : at[c] = "waiting" => c \in wait,
         Turn(cn, taken, wait, at, late)
  PROVE NoIdleConnection'
PROOF
<1>1. PICK f \in Refills(cn) :
        \E lent \in Lendings(wait, Free(f, taken)) : TurnEnds(f, lent, taken, wait, at, late)
  BY DEF Turn, TurnEnds
<1>2. PICK lent \in Lendings(wait, Free(f, taken)) : TurnEnds(f, lent, taken, wait, at, late)
  BY <1>1
<1>3. SUFFICES ASSUME NEW c \in Waiting', NEW e \in Entries \ busy', conn'[e] # None
               PROVE FALSE
  BY DEF NoIdleConnection
<1>4. c \in Callers /\ pc'[c] = "waiting"
  BY <1>3 DEF Waiting
<1>5. c \in wait /\ lent[c] = None
  BY <1>2, <1>4 DEF TurnEnds
<1>6. e \in Free(f, taken)
  BY <1>2, <1>3 DEF TurnEnds, Free
<1>7. PICK d \in wait : lent[d] = e
  BY <1>5, <1>6 DEF Lendings
<1>8. e # None
  BY PoolAssumption
<1>. QED BY <1>2, <1>3, <1>7, <1>8 DEF TurnEnds

LEMMA IdleStep == ASSUME IInv, NoIdleConnection, [Next]_vars PROVE NoIdleConnection'
PROOF
<1> USE DEF IInv
<1> DEFINE Still == UNCHANGED <<conn, busy>> /\ Waiting' \subseteq Waiting
<1>1. CASE Tick
  BY <1>1, TurnServes DEF Tick, Waiting
<1>2. ASSUME NEW c \in Callers, TakeRequest(c) PROVE NoIdleConnection'
  <2>1. PICK late \in SUBSET {c} :
          Turn(conn, busy, Waiting \cup {c}, [pc EXCEPT ![c] = "waiting"], old \cup late)
    BY <1>2 DEF TakeRequest
  <2>2. \A d \in Callers : [pc EXCEPT ![c] = "waiting"][d] = "waiting" => d \in Waiting \cup {c}
    BY DEF Waiting, TypeOK
  <2>. QED BY <2>1, <2>2, TurnServes DEF Waiting
<1>3. ASSUME NEW c \in Callers, TakeReturn(c) PROVE NoIdleConnection'
  <2>1. \A d \in Callers : [pc EXCEPT ![c] = "idle"][d] = "waiting" => d \in Waiting
    BY DEF Waiting, TypeOK
  <2>. QED BY <1>3, <2>1, TurnServes DEF TakeReturn, Waiting
<1>4. Still => NoIdleConnection'
  BY DEF NoIdleConnection
<1>5. CASE Forget \/ UNCHANGED vars
  BY <1>4, <1>5 DEF Forget, Waiting, pool, vars
<1>6. ASSUME NEW c \in Callers, Call(c) \/ Age(c) \/ Exchange(c) PROVE NoIdleConnection'
  BY <1>4, <1>6 DEF Call, Age, Exchange, Answered, Broken, Garbled, ReturnConn, pool, Waiting, TypeOK
<1>7. ASSUME NEW k \in Closers, Close(k) \/ Drain(k) PROVE NoIdleConnection'
  BY <1>4, <1>7 DEF Close, Drain, pool, Waiting, TypeOK
<1>. QED BY <1>1, <1>2, <1>3, <1>5, <1>6, <1>7 DEF Next

(* No caller waits while an entry has a connection to spare, for any       *)
(* number of callers and entries and whatever dials fail (run).            *)
THEOREM NobodyWaitsInVain == Spec => []NoIdleConnection
PROOF
<1>1. Init => NoIdleConnection
  BY PoolAssumption DEF Init, NoIdleConnection, Waiting
<1>2. IInv /\ NoIdleConnection /\ [Next]_vars => NoIdleConnection'
  BY IdleStep
<1>. QED BY <1>1, <1>2, Invariant, PTL DEF Spec

-----------------------------------------------------------------------------
(* A busy entry has a connection, and a turn takes a lent connection from  *)
(* nobody but the caller that returns it.                                  *)
BusyInv == \A e \in busy : conn[e] # None

(* A busy entry somebody uses is still used, or no longer busy.            *)
KeepsUsers == \A e \in busy : Users(e) # {} /\ e \in busy' => Users(e)' # {}

LEMMA TurnKeeps ==
  ASSUME IInv, BusyInv, NEW cn, NEW taken, NEW wait, NEW at, NEW late,
         Ready(cn, taken, wait, at), Turn(cn, taken, wait, at, late),
         \A e \in taken : e \in busy /\ cn[e] = conn[e] /\ \A c \in Users(e) : at[c] # "idle"
  PROVE BusyInv' /\ KeepsUsers
PROOF
<1>1. PICK f \in Refills(cn) :
        \E lent \in Lendings(wait, Free(f, taken)) : TurnEnds(f, lent, taken, wait, at, late)
  BY DEF Turn, TurnEnds
<1>2. PICK lent \in Lendings(wait, Free(f, taken)) : TurnEnds(f, lent, taken, wait, at, late)
  BY <1>1
<1> DEFINE served == {c \in wait : lent[c] # None}
<1> USE DEF IInv, Ready
<1>3. \A e \in taken : f[e] = conn[e] /\ f[e] # None
  BY DEF Refills, BusyInv
<1>4. \A c \in served : lent[c] \in Entries \ taken /\ f[lent[c]] # None
  BY DEF Lendings, Free
<1>5. conn' = f /\ busy' = taken \cup {lent[c] : c \in served}
  BY <1>2 DEF TurnEnds
<1>6. BusyInv'
  BY <1>3, <1>4, <1>5 DEF BusyInv
<1>7. ASSUME NEW e \in busy, NEW c \in Users(e), e \in busy'
      PROVE Users(e)' # {}
  <2>1. CASE e \in taken
    <3>1. c \in Callers /\ holds[c] = conn[e] /\ conn[e] # None
      BY <1>7 DEF Users, BusyInv
    <3>2. holds'[c] = holds[c]
      BY <1>2, <2>1, <3>1 DEF TurnEnds
    <3>. QED BY <1>3, <1>5, <2>1, <3>1, <3>2 DEF Users
  <2>2. CASE e \notin taken
    <3>1. PICK d \in served : e = lent[d]
      BY <1>5, <1>7, <2>2
    <3>2. d \in Callers /\ holds'[d] = f[e]
      BY <1>2, <3>1 DEF TurnEnds
    <3>. QED BY <1>5, <3>2 DEF Users
  <2>. QED BY <2>1, <2>2
<1>. QED BY <1>6, <1>7 DEF KeepsUsers

LEMMA KeepStep ==
  ASSUME IInv, BusyInv, [Next]_vars
  PROVE BusyInv' /\ (KeepsUsers \/ \E c \in Callers : Garbled(c))
PROOF
<1> USE DEF IInv
<1>1. CASE Tick
  <2>1. Ready(conn, busy, Waiting, pc)
    BY DEF Ready, TypeOK, LendInv, Connection, Waiting, StageInv, HolderInv
  <2>2. \A e \in busy : \A c \in Users(e) : pc[c] # "idle"
    BY DEF BusyInv, Users, LendInv, StageInv
  <2>. QED BY <1>1, <2>1, <2>2, TurnKeeps DEF Tick
<1>2. ASSUME NEW c \in Callers, TakeRequest(c) PROVE BusyInv' /\ KeepsUsers
  <2> DEFINE at == [pc EXCEPT ![c] = "waiting"]
  <2>1. PICK late \in SUBSET {c} : Turn(conn, busy, Waiting \cup {c}, at, old \cup late)
    BY <1>2 DEF TakeRequest
  <2>2. holds[c] = None
    BY <1>2 DEF TakeRequest, LendInv, StageInv
  <2>3. Ready(conn, busy, Waiting \cup {c}, at)
    BY <2>2 DEF Ready, TypeOK, LendInv, Connection, Waiting, StageInv, HolderInv
  <2>4. \A e \in busy : \A d \in Users(e) : at[d] # "idle"
    BY DEF BusyInv, Users, LendInv, StageInv, TypeOK
  <2> HIDE DEF at
  <2>. QED BY <2>1, <2>3, <2>4, TurnKeeps
<1>3. ASSUME NEW c \in Callers, TakeReturn(c) PROVE BusyInv' /\ KeepsUsers
  <2> DEFINE mine == Returned(c)
             cn == [e \in Entries |-> IF e \in mine /\ Breaks(c) THEN None ELSE conn[e]]
             at == [pc EXCEPT ![c] = "idle"]
  <2>1. Turn(cn, busy \ mine, Waiting, at, old)
    BY <1>3 DEF TakeReturn
  <2>2. /\ cn \in [Entries -> Connection] /\ Distinct(cn)
        /\ \A e \in Entries : cn[e] \in {conn[e], None}
    BY DEF TypeOK, LendInv, Distinct, Connection
  <2>3. at[c] = "idle" /\ \A d \in Callers : d # c => at[d] = pc[d]
    BY DEF TypeOK
  <2>4. \A e \in busy \ mine : e \in Entries /\ cn[e] = conn[e]
    BY DEF TypeOK
  <2>5. \A e \in busy \ mine : \A d \in Users(e) : d # c /\ holds[d] # None
    BY <2>4 DEF Users, Returned, BusyInv
  <2>6. \A e \in busy \ mine : \A d \in Users(e) : at[d] # "idle"
    BY <2>3, <2>5 DEF Users, LendInv, StageInv
  <2>7. \A d \in Callers : holds[d] # None /\ at[d] # "idle" =>
          \E e \in busy \ mine : cn[e] = holds[d]
    <3>1. SUFFICES ASSUME NEW d \in Callers, holds[d] # None, at[d] # "idle"
                   PROVE \E e \in busy \ mine : cn[e] = holds[d]
      OBVIOUS
    <3>2. PICK e \in busy : conn[e] = holds[d]
      BY <3>1 DEF LendInv, HolderInv
    <3>3. e \notin mine
      BY <2>3, <3>1, <3>2 DEF LendInv, HolderInv, Returned
    <3>. QED BY <2>4, <3>2, <3>3
  <2>8. /\ \A d \in Waiting : holds[d] = None
        /\ \A d \in Callers : holds[d] # None => at[d] \in {"using", "returning", "idle"}
    BY <2>3 DEF Waiting, LendInv, StageInv
  <2>9. busy \ mine \subseteq Entries /\ Waiting \subseteq Callers
    BY DEF TypeOK, Waiting
  <2> HIDE DEF at, cn, mine
  <2>10. Ready(cn, busy \ mine, Waiting, at)
    BY <2>2, <2>7, <2>8, <2>9 DEF Ready
  <2>. QED BY <2>1, <2>4, <2>6, <2>10, TurnKeeps
<1>4. UNCHANGED <<conn, busy, holds>> => BusyInv' /\ KeepsUsers
  BY DEF BusyInv, KeepsUsers, Users
<1>5. CASE Forget \/ UNCHANGED vars
  BY <1>4, <1>5 DEF Forget, pool, vars
<1>6. ASSUME NEW c \in Callers, Call(c) \/ Age(c) \/ Answered(c) \/ Broken(c)
      PROVE BusyInv' /\ KeepsUsers
  BY <1>4, <1>6 DEF Call, Age, Answered, Broken, ReturnConn, pool
<1>7. ASSUME NEW c \in Callers, Garbled(c) PROVE BusyInv'
  BY <1>7 DEF Garbled, BusyInv, pool
<1>8. ASSUME NEW k \in Closers, Close(k) \/ Drain(k) PROVE BusyInv' /\ KeepsUsers
  BY <1>4, <1>8 DEF Close, Drain, pool
<1>. QED BY <1>1, <1>2, <1>3, <1>5, <1>6, <1>7, <1>8 DEF Next, Exchange

(* Every end of a Call but one frees its entry: an entry is busy for ever  *)
(* only after an answer that was not understood (run, Call).               *)
THEOREM OnlyGarbledLoses == Spec => LostWhenGarbled
PROOF
<1>1. Init => BusyInv
  BY DEF Init, BusyInv
<1>2. IInv /\ BusyInv /\ [Next]_vars =>
        /\ BusyInv'
        /\ [\A e \in busy : Users(e) # {} /\ e \in busy' /\ Users(e)' = {}
              => \E c \in Callers : Garbled(c)]_vars
  BY KeepStep DEF KeepsUsers
<1>. QED BY <1>1, <1>2, Invariant, PTL DEF Spec, LostWhenGarbled
=============================================================================
