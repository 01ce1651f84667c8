--------------------------- MODULE HistoryProofs ----------------------------
(***************************************************************************)
(* Proofs about History, for any number of adders and readers, any limit,  *)
(* both storages, every time zone, crashes and failing storage calls.      *)
(***************************************************************************)
EXTENDS History, FiniteSetTheorems, TLAPS

(* The lock is held by the adder that is not idle, which works on the name *)
(* of the latest time, a name that no file had when it started.            *)
LockInv ==
  /\ \A w \in Adders : pc[w] # "idle" <=> holder = w
  /\ \A w \in Adders : pc[w] # "idle" =>
       key[w] = clock /\ clock \in Times /\ data[w] \in Snapshots
  /\ \A t \in Times : t > clock => backups[t] = None
  /\ \A w \in Adders : pc[w] = "backup" => backups[clock] = None

(* Where the adder is tells which of the two files is whole.               *)
WholeInv ==
  /\ \A w \in Adders : pc[w] \in {"current", "fillCurrent"} => backups[key[w]] = data[w]
  /\ \A w \in Adders : pc[w] \in {"list", "delete"} => current # Torn
  /\ \A w \in Adders : Backend = "filesystem" /\ pc[w] = "fillCurrent" => current = Torn
  /\ BackupOfDamaged

IInv == TypeOK /\ LockInv /\ WholeInv

LEMMA InitIInv == ASSUME Init PROVE IInv
<1> USE HistoryAssumption DEF Init
<1>1. TypeOK BY DEF TypeOK, Content, Stages
<1>2. LockInv BY DEF LockInv
<1>3. WholeInv BY DEF WholeInv, BackupOfDamaged
<1> QED BY <1>1, <1>2, <1>3 DEF IInv

LEMMA ClockIsInt == ASSUME TypeOK PROVE clock \in Int /\ \A t \in Times : t \in Int
BY HistoryAssumption DEF TypeOK, Times

LEMMA StepIInv == ASSUME IInv, [Next]_vars PROVE IInv'
<1> USE HistoryAssumption, ClockIsInt
<1> USE DEF IInv, TypeOK, LockInv, WholeInv, BackupOfDamaged, Content, Stages, files
<1> HIDE DEF Times
<1>1. CASE \E w \in Adders, e \in Snapshots : Add(w, e)
  BY <1>1 DEF Add, LockIsFree, Move, After
<1>2. CASE \E w \in Adders : OpenBackup(w) BY <1>2 DEF OpenBackup, Opened, Move
<1>3. CASE \E w \in Adders : FillBackup(w) BY <1>3 DEF FillBackup, Move, After
<1>4. CASE \E w \in Adders : OpenCurrent(w) BY <1>4 DEF OpenCurrent, Opened, Move
<1>5. CASE \E w \in Adders : FillCurrent(w) BY <1>5 DEF FillCurrent, Move, After
<1>6. CASE \E w \in Adders : List(w) BY <1>6 DEF List, Move, Outdated, Present
<1>7. CASE \E w \in Adders : Delete(w) BY <1>7 DEF Delete
<1>8. CASE \E w \in Adders : Done(w) BY <1>8 DEF Done, Unlock, Move
<1>9. CASE \E w \in Adders : Refused(w) BY <1>9 DEF Refused, Unlock, Move
<1>10. CASE \E r \in Readers : GetCurrent(r) BY <1>10 DEF GetCurrent
<1>11. CASE Crash BY <1>11 DEF Crash
<1>12. CASE UNCHANGED vars BY <1>12 DEF vars
<1> QED
  BY <1>1, <1>2, <1>3, <1>4, <1>5, <1>6, <1>7, <1>8, <1>9, <1>10, <1>11, <1>12 DEF Next

LEMMA Inductive == Spec => []IInv
<1>1. Init => IInv BY InitIInv
<1>2. IInv /\ [Next]_vars => IInv' BY StepIInv
<1> QED BY <1>1, <1>2, PTL DEF Spec

(* Whatever the storage refuses and whenever the process dies, a damaged   *)
(* current file is accompanied by a backup that is whole.                  *)
THEOREM WholeBackup == Spec => []BackupOfDamaged
<1>1. IInv => BackupOfDamaged BY DEF IInv, WholeInv
<1> QED BY <1>1, Inductive, PTL

-----------------------------------------------------------------------------
(* What Written is, without its CHOOSE.                                    *)
LEMMA WrittenIs ==
  ASSUME IInv
  PROVE  /\ (\A w \in Adders : pc[w] # "fillCurrent") => Written = current
         /\ Backend # "filesystem" => Written = current
         /\ \A w \in Adders : Backend = "filesystem" /\ pc[w] = "fillCurrent" => Written = data[w]
<1>1. ASSUME NEW w \in Adders, Backend = "filesystem", pc[w] = "fillCurrent"
      PROVE  Written = data[w]
  <2>1. \A v \in Adders : pc[v] = "fillCurrent" => v = w BY <1>1 DEF IInv, LockInv
  <2>2. (CHOOSE v \in Adders : pc[v] = "fillCurrent") = w BY <1>1, <2>1
  <2> QED BY <1>1, <2>2 DEF Written
<1> QED BY <1>1 DEF Written

(* The step of an adder that makes no call on the current file.            *)
LEMMA WrittenStays ==
  ASSUME IInv, IInv', UNCHANGED current, NEW w \in Adders, pc[w] # "fillCurrent",
         pc'[w] # "fillCurrent", \A v \in Adders : v # w => pc'[v] = pc[v] /\ data'[v] = data[v]
  PROVE  Written' = Written
<1>1. CASE Backend = "filesystem" /\ \E v \in Adders : pc[v] = "fillCurrent"
  <2>1. PICK v \in Adders : pc[v] = "fillCurrent" BY <1>1
  <2>2. Written = data[v] BY <1>1, <2>1, WrittenIs
  <2>3. pc'[v] = "fillCurrent" /\ data'[v] = data[v] BY <2>1
  <2>4. \A u \in Adders : pc'[u] = "fillCurrent" => u = v BY <2>3 DEF IInv, LockInv
  <2>5. (CHOOSE u \in Adders : pc'[u] = "fillCurrent") = v BY <2>3, <2>4
  <2>6. Written' = data'[v] BY <1>1, <2>3, <2>5 DEF Written
  <2> QED BY <2>2, <2>3, <2>6
<1>2. CASE ~(Backend = "filesystem" /\ \E v \in Adders : pc[v] = "fillCurrent")
  <2>1. Written = current BY <1>2 DEF Written
  <2>2. ~(Backend = "filesystem" /\ \E v \in Adders : pc'[v] = "fillCurrent") BY <1>2
  <2>3. Written' = current' BY <2>2 DEF Written
  <2> QED BY <2>1, <2>3
<1> QED BY <1>1, <1>2

LEMMA StepRegister == ASSUME IInv, [Next]_vars PROVE [Reg!Next]_<<Written, got>>
<1> USE HistoryAssumption
<1>0. IInv' BY StepIInv
<1> USE DEF Move, After, files, Unlock
<1> DEFINE Others(w) == \A v \in Adders : v # w => pc'[v] = pc[v] /\ data'[v] = data[v]
<1> USE DEF IInv, TypeOK
<1>1. CASE \E w \in Adders, e \in Snapshots : Add(w, e)
  <2>1. PICK w \in Adders, e \in Snapshots : Add(w, e) BY <1>1
  <2>2. pc[w] # "fillCurrent" /\ pc'[w] # "fillCurrent" /\ Others(w) BY <2>1 DEF Add
  <2>3. UNCHANGED <<current, got>> BY <2>1 DEF Add
  <2>4. Written' = Written BY <1>0, <2>2, <2>3, WrittenStays
  <2> QED BY <2>3, <2>4
<1>2. CASE \E w \in Adders : OpenBackup(w) \/ FillBackup(w) \/ List(w) \/ Delete(w) \/ Done(w)
  <2>1. PICK w \in Adders : OpenBackup(w) \/ FillBackup(w) \/ List(w) \/ Delete(w) \/ Done(w)
    BY <1>2
  <2>2. pc[w] # "fillCurrent" /\ pc'[w] # "fillCurrent" /\ Others(w)
    BY <2>1 DEF OpenBackup, FillBackup, List, Delete, Done
  <2>3. UNCHANGED <<current, got>> BY <2>1 DEF OpenBackup, FillBackup, List, Delete, Done
  <2>4. Written' = Written BY <1>0, <2>2, <2>3, WrittenStays
  <2> QED BY <2>3, <2>4
<1>3. CASE \E w \in Adders : OpenCurrent(w)
  <2>1. PICK w \in Adders : OpenCurrent(w) BY <1>3
  <2>2. pc[w] = "current" /\ pc'[w] = "fillCurrent" /\ data'[w] = data[w] /\ got' = got
    BY <2>1 DEF OpenCurrent
  <2>3. CASE Backend = "filesystem"
    <3>1. Written' = data[w]
      <4>1. \A v \in Adders : pc'[v] = "fillCurrent" => v = w BY <1>0, <2>2 DEF LockInv
      <4>2. (CHOOSE v \in Adders : pc'[v] = "fillCurrent") = w BY <2>2, <4>1
      <4> QED BY <2>2, <2>3, <4>2 DEF Written
    <3>2. data[w] \in Snapshots BY <2>2 DEF LockInv
    <3>3. Reg!Write(data[w]) BY <2>2, <3>1 DEF Reg!Write
    <3> QED BY <3>2, <3>3 DEF Reg!Next
  <2>4. CASE Backend # "filesystem"
    <3>1. current' = current BY <2>1, <2>4 DEF OpenCurrent, Opened
    <3>2. Written' = Written BY <2>4, <3>1 DEF Written
    <3> QED BY <2>2, <3>2
  <2> QED BY <2>3, <2>4
<1>4. CASE \E w \in Adders : FillCurrent(w)
  <2>1. PICK w \in Adders : FillCurrent(w) BY <1>4
  <2>2. pc[w] = "fillCurrent" /\ current' = data[w] /\ got' = got BY <2>1 DEF FillCurrent
  <2>3. \A v \in Adders : pc'[v] # "fillCurrent" BY <2>1 DEF FillCurrent, LockInv
  <2>4. Written' = data[w] BY <2>2, <2>3 DEF Written
  <2>5. CASE Backend = "filesystem"
    <3>1. Written = data[w] BY <2>2, <2>5, WrittenIs
    <3> QED BY <2>2, <2>4, <3>1
  <2>6. CASE Backend # "filesystem"
    <3>1. data[w] \in Snapshots BY <2>2 DEF LockInv
    <3>2. Reg!Write(data[w]) BY <2>2, <2>4 DEF Reg!Write
    <3> QED BY <3>1, <3>2 DEF Reg!Next
  <2> QED BY <2>5, <2>6
<1>5. CASE \E w \in Adders : Refused(w)
  <2>1. PICK w \in Adders : Refused(w) BY <1>5
  <2>2. UNCHANGED <<current, got>> /\ pc'[w] = "idle" /\ Others(w) BY <2>1 DEF Refused
  <2>3. CASE Backend = "filesystem" /\ pc[w] = "fillCurrent"
    <3>1. current = Torn BY <2>3 DEF WholeInv
    <3>2. \A v \in Adders : pc'[v] # "fillCurrent" BY <2>2, <2>3 DEF LockInv
    <3>3. Written' = Torn BY <2>2, <3>1, <3>2 DEF Written
    <3>4. Reg!Damage BY <2>2, <3>3 DEF Reg!Damage
    <3> QED BY <3>4 DEF Reg!Next
  <2>4. CASE Backend # "filesystem"
    <3>1. Written' = Written BY <2>2, <2>4 DEF Written
    <3> QED BY <2>2, <3>1
  <2>5. CASE pc[w] # "fillCurrent"
    <3>1. Written' = Written BY <1>0, <2>2, <2>5, WrittenStays
    <3> QED BY <2>2, <3>1
  <2> QED BY <2>3, <2>4, <2>5
<1>6. CASE \E r \in Readers : GetCurrent(r)
  <2>1. PICK r \in Readers : GetCurrent(r) BY <1>6
  <2>2. holder = None /\ UNCHANGED <<current, pc, data>> /\ got' = [got EXCEPT ![r] = current]
    BY <2>1 DEF GetCurrent, LockIsFree
  <2>3. \A v \in Adders : pc[v] # "fillCurrent" /\ pc'[v] # "fillCurrent" BY <2>2 DEF LockInv
  <2>4. Written = current /\ Written' = current BY <2>2, <2>3 DEF Written
  <2>5. Reg!Read(r) BY <2>2, <2>4 DEF Reg!Read
  <2> QED BY <2>5 DEF Reg!Next
<1>7. CASE Crash
  <2>1. \A v \in Adders : pc'[v] # "fillCurrent" BY <1>7 DEF Crash
  <2>2. Written' = current /\ got' = [r \in Readers |-> None] BY <1>7, <2>1 DEF Crash, Written
  <2>3. Written = current \/ current = Torn
    BY WrittenIs DEF WholeInv
  <2>4. Reg!Restart BY <2>2, <2>3 DEF Reg!Restart
  <2> QED BY <2>4 DEF Reg!Next
<1>8. CASE UNCHANGED vars
  <2>1. UNCHANGED <<current, pc, data, got>> BY <1>8 DEF vars
  <2>2. Written' = Written BY <2>1 DEF Written
  <2> QED BY <2>1, <2>2
<1> QED BY <1>1, <1>2, <1>3, <1>4, <1>5, <1>6, <1>7, <1>8 DEF Next

(* The history implements the register: whoever reads the current snapshot *)
(* reads what was last written, or the damage an interrupted write left,   *)
(* and never a write in progress.                                          *)
THEOREM IsRegister == Spec => Register
<1>1. Init => Reg!Init
  <2> SUFFICES ASSUME Init PROVE Reg!Init OBVIOUS
  <2>1. Written = current BY DEF Init, Written
  <2> QED BY <2>1 DEF Init, Reg!Init
<1>2. IInv /\ [Next]_vars => [Reg!Next]_<<Written, got>> BY StepRegister
<1> QED BY <1>1, <1>2, Inductive, PTL DEF Spec, Register, Reg!Spec

-----------------------------------------------------------------------------
(* The names of backups, and the order List puts them in.                  *)

LEMMA DivMod ==
  ASSUME NEW b \in {2, 3, 4, 5, 6, 7, 8, 9, 10}, NEW t \in Nat, NEW u \in Nat,
         NEW h \in Int, NEW l \in Int, h = t \div b, l = t % b,
         NEW g \in Int, NEW k \in Int, g = u \div b, k = u % b
  PROVE  /\ h >= 0 /\ l \in 0 .. (b - 1)
         /\ t < b * b => h <= b - 1
         /\ t < u => h < g \/ (h = g /\ l < k)
OBVIOUS

LEMMA DigitsOf ==
  ASSUME NEW t \in Times
  PROVE  t \in Nat /\ t \div Base \in 0 .. 9 /\ t % Base \in 0 .. 9
<1>1. Base \in {2, 3, 4, 5, 6, 7, 8, 9, 10} /\ t \in Nat /\ t < Base * Base
  BY HistoryAssumption DEF Times
<1>2. t \div Base \in Int /\ t % Base \in Int BY <1>1
<1> QED BY <1>1, <1>2, DivMod

LEMMA DigitsOrder ==
  ASSUME NEW t \in Times, NEW u \in Times, t < u
  PROVE  \/ t \div Base < u \div Base
         \/ t \div Base = u \div Base /\ t % Base < u % Base
<1>1. Base \in {2, 3, 4, 5, 6, 7, 8, 9, 10} BY HistoryAssumption
<1>2. t \div Base \in Int /\ t % Base \in Int /\ u \div Base \in Int /\ u % Base \in Int
  BY DigitsOf
<1> QED BY <1>1, <1>2, DivMod, DigitsOf

(* A name by its digits.                                                   *)
Spells(s, h, l) ==
  /\ s \in Seq(Int)
  /\ h = 0 /\ l = 0 => Len(s) = 1 /\ s[1] = Zone
  /\ h # 0 /\ l = 0 => Len(s) = 3 /\ s[1] = 46 /\ s[2] = 48 + h /\ s[3] = Zone
  /\ l # 0 => Len(s) = 4 /\ s[1] = 46 /\ s[2] = 48 + h /\ s[3] = 48 + l /\ s[4] = Zone

LEMMA Appended ==
  ASSUME NEW z \in Int, NEW a \in Int, NEW b \in Int, NEW c \in Int
  PROVE  /\ (<<>> \o <<z>>) \in Seq(Int) /\ Len(<<>> \o <<z>>) = 1 /\ (<<>> \o <<z>>)[1] = z
         /\ LET s == <<a, b>> \o <<z>>
            IN  s \in Seq(Int) /\ Len(s) = 3 /\ s[1] = a /\ s[2] = b /\ s[3] = z
         /\ LET s == <<a, b, c>> \o <<z>>
            IN  s \in Seq(Int) /\ Len(s) = 4 /\ s[1] = a /\ s[2] = b /\ s[3] = c /\ s[4] = z
<1>1. (<<>> \o <<z>>) \in Seq(Int) /\ Len(<<>> \o <<z>>) = 1 /\ (<<>> \o <<z>>)[1] = z OBVIOUS
<1>2. LET s == <<a, b>> \o <<z>>
      IN  s \in Seq(Int) /\ Len(s) = 3 /\ s[1] = a /\ s[2] = b /\ s[3] = z
  OBVIOUS
<1>3. LET s == <<a, b, c>> \o <<z>>
      IN  s \in Seq(Int) /\ Len(s) = 4 /\ s[1] = a /\ s[2] = b /\ s[3] = c /\ s[4] = z
  OBVIOUS
<1> QED BY <1>1, <1>2, <1>3

LEMMA NameSpells ==
  ASSUME NEW t \in Times
  PROVE  Spells(Name(t), t \div Base, t % Base)
<1> DEFINE h == t \div Base
           l == t % Base
<1>1. h \in Int /\ l \in Int /\ Zone \in Int
  BY DigitsOf, HistoryAssumption DEF Plus, Minus, Zulu
<1>2. 0 \in Times /\ 0 \div Base = 0 /\ 0 % Base = 0
  <2>1. Base \in {2, 3, 4, 5, 6, 7, 8, 9, 10} BY HistoryAssumption
  <2> QED BY <2>1 DEF Times
<1>3. t # 0 => h # 0 \/ l # 0
  BY <1>2, DigitsOf, DigitsOrder
<1>4. Name(t) = (IF t = 0 THEN <<>> ELSE IF l = 0 THEN <<46, 48 + h>> ELSE <<46, 48 + h, 48 + l>>)
                \o <<Zone>>
  BY DEF Name, Digits, Dot, Zero
<1> HIDE DEF h, l
<1>0. 48 + h \in Int /\ 48 + l \in Int /\ 46 \in Int BY <1>1
<1> DEFINE n == Name(t)
<1>5. CASE t = 0
  <2>1. h = 0 /\ l = 0 BY <1>2, <1>5 DEF h, l
  <2>2. n = <<>> \o <<Zone>> BY <1>4, <1>5
  <2>3. n \in Seq(Int) /\ Len(n) = 1 /\ n[1] = Zone BY ONLY <1>1, <2>2, Appended, <1>0
  <2> HIDE DEF n
  <2>4. Spells(n, h, l) BY <2>1, <2>3 DEF Spells
  <2> QED BY <2>4 DEF n, h, l
<1>6. CASE t # 0 /\ l = 0
  <2>1. n = <<46, 48 + h>> \o <<Zone>> BY <1>4, <1>6
  <2>2. n \in Seq(Int) /\ Len(n) = 3 /\ n[1] = 46 /\ n[2] = 48 + h /\ n[3] = Zone
    BY ONLY <1>1, <2>1, Appended, <1>0
  <2> HIDE DEF n
  <2>4. Spells(n, h, l) BY <1>3, <1>6, <2>2 DEF Spells
  <2> QED BY <2>4 DEF n, h, l
<1>7. CASE t # 0 /\ l # 0
  <2>1. n = <<46, 48 + h, 48 + l>> \o <<Zone>> BY <1>4, <1>7
  <2>2. n \in Seq(Int) /\ Len(n) = 4 /\ n[1] = 46 /\ n[2] = 48 + h /\ n[3] = 48 + l /\ n[4] = Zone
    BY ONLY <1>1, <2>1, Appended, <1>0
  <2> HIDE DEF n
  <2>4. Spells(n, h, l) BY <1>7, <2>2 DEF Spells
  <2> QED BY <2>4 DEF n, h, l
<1> QED BY <1>5, <1>6, <1>7

(* Names are in lexicographic order.                                       *)
LEMMA NotBeforeItself ==
  ASSUME NEW a \in Seq(Int)
  PROVE  ~Before(a, a)
BY DEF Before

LEMMA Elements ==
  ASSUME NEW s \in Seq(Int)
  PROVE  DOMAIN s = 1 .. Len(s) /\ Len(s) \in Nat /\ \A j \in 1 .. Len(s) : s[j] \in Int
OBVIOUS

LEMMA BeforeInOrder ==
  ASSUME NEW a \in Seq(Int), NEW b \in Seq(Int), NEW c \in Seq(Int), Before(a, b), Before(b, c)
  PROVE  Before(a, c)
<1>1. PICK i \in 1 .. Len(b) :
        /\ \A j \in 1 .. (i - 1) : j <= Len(a) /\ a[j] = b[j]
        /\ i > Len(a) \/ a[i] < b[i]
  BY Elements DEF Before
<1>2. PICK k \in 1 .. Len(c) :
        /\ \A j \in 1 .. (k - 1) : j <= Len(b) /\ b[j] = c[j]
        /\ k > Len(b) \/ b[k] < c[k]
  BY Elements DEF Before
<1> DEFINE m == Len(a)  n == Len(b)  p == Len(c)
<1>3. /\ m \in Nat /\ n \in Nat /\ p \in Nat /\ DOMAIN c = 1 .. p
      /\ \A j \in 1 .. m : a[j] \in Int
      /\ \A j \in 1 .. n : b[j] \in Int
      /\ \A j \in 1 .. p : c[j] \in Int
  BY Elements
<1> HIDE DEF m, n, p
<1>10. i \in 1 .. n /\ \A j \in 1 .. (i - 1) : j <= m /\ a[j] = b[j] BY <1>1 DEF m, n
<1>11. i > m \/ a[i] < b[i] BY <1>1 DEF m
<1>12. k \in 1 .. p /\ \A j \in 1 .. (k - 1) : j <= n /\ b[j] = c[j] BY <1>2 DEF n, p
<1>13. k > n \/ b[k] < c[k] BY <1>2 DEF n
<1>4. CASE i < k
  <2>0. i \in 1 .. (k - 1) /\ i \in 1 .. p BY <1>3, <1>4, <1>10, <1>12
  <2>1. b[i] = c[i] BY <1>12, <2>0
  <2>2. ASSUME NEW j \in 1 .. (i - 1) PROVE j <= m /\ a[j] = c[j]
    <3>1. j \in 1 .. (k - 1) BY <1>3, <1>4, <1>10, <1>12
    <3> QED BY <1>10, <1>12, <3>1
  <2>3. i > m \/ a[i] < c[i] BY <1>11, <2>1
  <2> QED BY <1>3, <2>0, <2>2, <2>3 DEF Before, m
<1>5. CASE k <= i
  <2>0. k <= n BY <1>3, <1>5, <1>10, <1>12
  <2>1. b[k] < c[k] BY <1>3, <1>10, <1>12, <1>13, <2>0
  <2>2. ASSUME NEW j \in 1 .. (k - 1) PROVE j <= m /\ a[j] = c[j]
    <3>1. j \in 1 .. (i - 1) BY <1>3, <1>5, <1>10, <1>12
    <3> QED BY <1>10, <1>12, <3>1
  <2>3. k > m \/ a[k] < c[k]
    <3>1. CASE k = i BY <1>3, <1>10, <1>11, <1>12, <2>0, <2>1, <3>1
    <3>2. CASE k < i
      <4>1. k \in 1 .. (i - 1) BY <1>3, <1>10, <1>12, <3>2
      <4> QED BY <1>10, <2>1, <4>1
    <3> QED BY <1>3, <1>5, <1>10, <1>12, <3>1, <3>2
  <2> QED BY <1>3, <1>12, <2>2, <2>3 DEF Before, m
<1> QED BY <1>3, <1>4, <1>5, <1>10, <1>12

(* Where two names differ, with digits in between that are larger than the *)
(* dot, the plus and the minus, and smaller than the Z.                    *)
LEMMA DiffersAt ==
  ASSUME NEW s \in Seq(Int), NEW r \in Seq(Int), NEW i \in 1 .. 3,
         Len(s) >= i, Len(r) >= i, s[i] < r[i], \A j \in 1 .. (i - 1) : s[j] = r[j]
  PROVE  Before(s, r)
<1>1. i \in DOMAIN r BY Elements
<1>2. \A j \in 1 .. (i - 1) : j <= Len(s) /\ s[j] = r[j] BY Elements
<1> QED BY <1>1, <1>2 DEF Before

LEMMA SpelledOrder ==
  ASSUME NEW a, NEW b, NEW h \in 0 .. 9, NEW l \in 0 .. 9, NEW g \in 0 .. 9, NEW k \in 0 .. 9,
         Spells(a, h, l), Spells(b, g, k), h < g \/ (h = g /\ l < k)
  PROVE  Before(a, b) \/ (Zone = Zulu /\ Before(b, a))
<1>0. Zone \in {43, 45, 90} /\ Zulu = 90 BY HistoryAssumption DEF Plus, Minus, Zulu
<1>1. a \in Seq(Int) /\ b \in Seq(Int) BY DEF Spells
<1>2. Len(b) >= 3 /\ b[1] = 46 /\ b[2] = 48 + g
  BY DEF Spells
<1>3. CASE h = 0 /\ l = 0
  <2>1. Len(a) = 1 /\ a[1] = Zone BY <1>3 DEF Spells
  <2>2. CASE Zone = 90
    <3>1. b[1] < a[1] BY <1>2, <2>1, <2>2
    <3>2. 1 \in 1 .. 3 /\ Len(a) >= 1 /\ Len(b) >= 1 /\ \A j \in 1 .. (1 - 1) : b[j] = a[j]
      BY <1>2, <2>1
    <3>3. Before(b, a) BY <1>1, <3>1, <3>2, DiffersAt
    <3> QED BY <1>0, <2>2, <3>3
  <2>3. CASE Zone # 90
    <3>1. a[1] < b[1] BY <1>0, <1>2, <2>1, <2>3
    <3>2. 1 \in 1 .. 3 /\ Len(a) >= 1 /\ Len(b) >= 1 /\ \A j \in 1 .. (1 - 1) : a[j] = b[j]
      BY <1>2, <2>1
    <3> QED BY <1>1, <3>1, <3>2, DiffersAt
  <2> QED BY <2>2, <2>3
<1>4. CASE ~(h = 0 /\ l = 0)
  <2>1. Len(a) >= 3 /\ a[1] = 46 /\ a[2] = 48 + h BY <1>4 DEF Spells
  <2>2. CASE h < g
    <3>1. a[2] < b[2] /\ \A j \in 1 .. (2 - 1) : a[j] = b[j] BY <1>2, <2>1, <2>2
    <3>2. 2 \in 1 .. 3 /\ Len(a) >= 2 /\ Len(b) >= 2 BY <1>1, <1>2, <2>1, Elements
    <3> QED BY <1>1, <3>1, <3>2, DiffersAt
  <2>3. CASE h = g /\ l < k
    <3>1. b[3] = 48 + k BY <2>3 DEF Spells
    <3>2. \A j \in 1 .. (3 - 1) : a[j] = b[j] /\ b[j] = a[j] BY <1>2, <2>1, <2>3
    <3>3. CASE l = 0
      <4>1. a[3] = Zone BY <1>4, <3>3 DEF Spells
      <4>2. CASE Zone = 90
        <5>1. b[3] < a[3] BY <3>1, <4>1, <4>2
        <5> QED BY <1>0, <1>1, <1>2, <2>1, <3>2, <4>2, <5>1, DiffersAt
      <4>3. CASE Zone # 90
        <5>1. a[3] < b[3] BY <1>0, <3>1, <4>1, <4>3
        <5> QED BY <1>1, <1>2, <2>1, <3>2, <5>1, DiffersAt
      <4> QED BY <4>2, <4>3
    <3>4. CASE l # 0
      <4>1. a[3] = 48 + l BY <3>4 DEF Spells
      <4>2. a[3] < b[3] BY <2>3, <3>1, <4>1
      <4> QED BY <1>1, <1>2, <2>1, <3>2, <4>2, DiffersAt
    <3> QED BY <3>3, <3>4
  <2> QED BY <2>2, <2>3
<1> QED BY <1>3, <1>4

(* List puts the names in an order.                                        *)
LEMMA ListsOnce ==
  ASSUME NEW t \in Times
  PROVE  ~ListsFirst(t, t)
BY NameSpells, NotBeforeItself DEF ListsFirst, Spells

LEMMA ListsInOrder ==
  ASSUME NEW t \in Times, NEW u \in Times, NEW v \in Times, ListsFirst(t, u), ListsFirst(u, v)
  PROVE  ListsFirst(t, v)
BY NameSpells, BeforeInOrder DEF ListsFirst, Spells

LEMMA ListsAll ==
  ASSUME NEW t \in Times, NEW u \in Times, t # u
  PROVE  ListsFirst(t, u) \/ ListsFirst(u, t)
<1>1. CASE t < u
  BY <1>1, NameSpells, DigitsOf, DigitsOrder, SpelledOrder DEF ListsFirst
<1>2. CASE u < t
  BY <1>2, NameSpells, DigitsOf, DigitsOrder, SpelledOrder DEF ListsFirst
<1> QED BY <1>1, <1>2, DigitsOf

(* Unless the zone is written as Z, later names are listed first.          *)
LEMMA NewestFirst ==
  ASSUME Zone # Zulu, NEW t \in Times, NEW u \in Times, u <= t
  PROVE  ~ListsFirst(u, t)
<1>1. CASE u < t
  <2>1. ListsFirst(t, u)
    BY <1>1, NameSpells, DigitsOf, DigitsOrder, SpelledOrder DEF ListsFirst
  <2> QED BY <2>1, ListsInOrder, ListsOnce
<1>2. CASE u = t BY <1>2, ListsOnce
<1> QED BY <1>1, <1>2, DigitsOf

-----------------------------------------------------------------------------
(* What an Add that gets through leaves of the backups.                    *)

(* The first Limit names that List returns are Limit names at most.        *)
Ahead(t) == {u \in Present : ListsFirst(u, t)}

LEMMA AheadIsFinite ==
  ASSUME NEW t \in Times
  PROVE  IsFiniteSet(Present) /\ IsFiniteSet(Ahead(t)) /\ Cardinality(Ahead(t)) \in Nat
<1>1. IsFiniteSet(Times)
  <2>1. Base * Base - 1 \in Int
    <3>1. Base \in {2, 3, 4, 5, 6, 7, 8, 9, 10} BY HistoryAssumption
    <3> QED BY <3>1
  <2> QED BY <2>1, FS_Interval DEF Times
<1>2. Present \in SUBSET Times BY DEF Present
<1>3. IsFiniteSet(Present) BY <1>1, <1>2, FS_Subset
<1>4. Ahead(t) \in SUBSET Present BY DEF Ahead
<1> QED BY <1>3, <1>4, FS_Subset, FS_CardinalityType

LEMMA FewerAhead ==
  ASSUME NEW t \in Present, NEW u \in Present, ListsFirst(t, u)
  PROVE  Cardinality(Ahead(t)) # Cardinality(Ahead(u))
<1>0. t \in Times /\ u \in Times /\ Present \subseteq Times BY DEF Present
<1>1. Ahead(t) \in SUBSET Ahead(u)
  BY <1>0, ListsInOrder DEF Ahead
<1>2. t \in Ahead(u) BY DEF Ahead
<1>3. t \notin Ahead(t) BY <1>0, ListsOnce DEF Ahead
<1>4. Ahead(t) # Ahead(u) BY <1>2, <1>3
<1> HIDE DEF Ahead
<1> QED BY <1>0, <1>1, <1>4, AheadIsFinite, FS_Subset

LEMMA KeptFew ==
  Cardinality(Present \ Outdated) <= Limit
<1> DEFINE Kept == Present \ Outdated
           f == [t \in Kept |-> Cardinality(Ahead(t))]
<1>0. Limit \in Nat /\ Limit - 1 \in Int /\ 0 \in Int /\ 0 \in Times
  <2>1. Base \in {2, 3, 4, 5, 6, 7, 8, 9, 10} BY HistoryAssumption
  <2> QED BY <2>1, HistoryAssumption DEF Times
<1>1. IsFiniteSet(Kept) /\ Cardinality(Kept) \in Nat
  <2>1. IsFiniteSet(Present) BY <1>0, AheadIsFinite
  <2>2. Kept \in SUBSET Present OBVIOUS
  <2> QED BY <2>1, <2>2, FS_Subset, FS_CardinalityType
<1>2. IsFiniteSet(0 .. (Limit - 1)) /\ Cardinality(0 .. (Limit - 1)) = Limit
  <2>1. 0 > Limit - 1 => Limit = 0 BY <1>0
  <2> QED BY <1>0, <2>1, FS_Interval
<1>3. f \in [Kept -> 0 .. (Limit - 1)]
  <2> SUFFICES ASSUME NEW t \in Kept PROVE Cardinality(Ahead(t)) \in 0 .. (Limit - 1) OBVIOUS
  <2>1. t \in Times /\ ~(Cardinality(Ahead(t)) >= Limit) BY DEF Present, Outdated, Ahead
  <2>2. Cardinality(Ahead(t)) \in Nat BY <2>1, AheadIsFinite
  <2> QED BY <1>0, <2>1, <2>2
<1>4. ASSUME NEW t \in Kept, NEW u \in Kept, t # u PROVE f[t] # f[u]
  <2>1. t \in Present /\ u \in Present /\ t \in Times /\ u \in Times BY DEF Present
  <2>2. ListsFirst(t, u) \/ ListsFirst(u, t) BY <1>4, <2>1, ListsAll
  <2>3. Cardinality(Ahead(t)) # Cardinality(Ahead(u)) BY <2>1, <2>2, FewerAhead
  <2> QED BY <2>3
<1> HIDE DEF f, Kept
<1>5. ASSUME Limit < Cardinality(Kept) PROVE FALSE
  <2>1. \E t, u \in Kept : t # u /\ f[t] = f[u]
    BY <1>1, <1>2, <1>3, <1>5, FS_PigeonHole
  <2> QED BY <1>4, <2>1
<1> QED BY <1>0, <1>1, <1>5 DEF Kept

(* From the cleanup's listing on, what is not outdated stays; nobody else  *)
(* touches the backups meanwhile.                                          *)
CleanupInv ==
  \A w \in Adders : pc[w] = "delete" =>
    outdated[w] \subseteq Present /\ Cardinality(Present \ outdated[w]) <= Limit

LEMMA StepCleanup == ASSUME IInv, IInv', CleanupInv, [Next]_vars PROVE CleanupInv'
<1> USE DEF CleanupInv, IInv, files
<1>0. \A v, w \in Adders : pc[v] # "idle" /\ pc[w] # "idle" => v = w BY DEF LockInv
<1>1. CASE \E w \in Adders, e \in Snapshots : Add(w, e)
  BY <1>1 DEF Add, LockIsFree, Move, After, LockInv, TypeOK
<1>2. CASE \E w \in Adders :
         OpenBackup(w) \/ FillBackup(w) \/ OpenCurrent(w) \/ FillCurrent(w)
         \/ Done(w) \/ Refused(w)
  <2>1. PICK w \in Adders :
         OpenBackup(w) \/ FillBackup(w) \/ OpenCurrent(w) \/ FillCurrent(w)
         \/ Done(w) \/ Refused(w)
    BY <1>2
  <2>2. pc[w] # "idle" /\ pc'[w] # "delete" /\ \A v \in Adders : v # w => pc'[v] = pc[v]
    BY <2>1 DEF OpenBackup, FillBackup, OpenCurrent, FillCurrent, Done, Refused, Unlock, Move,
                After, TypeOK
  <2> QED BY <1>0, <2>2
<1>3. CASE \E w \in Adders : List(w)
  <2>1. PICK w \in Adders : List(w) BY <1>3
  <2>2. /\ pc[w] # "idle" /\ outdated'[w] = Outdated /\ backups' = backups
        /\ \A v \in Adders : v # w => pc'[v] = pc[v]
    BY <2>1 DEF List, Move, TypeOK
  <2>3. Present' = Present BY <2>2 DEF Present
  <2>4. Outdated \subseteq Present BY DEF Outdated
  <2>5. outdated'[w] \subseteq Present' /\ Cardinality(Present' \ outdated'[w]) <= Limit
    BY <2>2, <2>3, <2>4, KeptFew
  <2> QED BY <1>0, <2>2, <2>5
<1>4. CASE \E w \in Adders : Delete(w)
  <2>1. PICK w \in Adders : Delete(w) BY <1>4
  <2>2. PICK t \in outdated[w] :
          backups' = [backups EXCEPT ![t] = None] /\ outdated' = [outdated EXCEPT ![w] = @ \ {t}]
    BY <2>1 DEF Delete
  <2>3. pc[w] = "delete" /\ pc' = pc BY <2>1 DEF Delete
  <2>4. Present' = Present \ {t} BY <2>2, <2>3 DEF Present, TypeOK
  <2>5. outdated'[w] = outdated[w] \ {t} BY <2>2 DEF TypeOK
  <2>6. Present' \ outdated'[w] = Present \ outdated[w] BY <2>4, <2>5, <2>3
  <2>7. outdated'[w] \subseteq Present' /\ Cardinality(Present' \ outdated'[w]) <= Limit
    BY <2>3, <2>4, <2>5, <2>6
  <2> QED BY <1>0, <2>3, <2>7
<1>5. CASE (\E r \in Readers : GetCurrent(r)) \/ UNCHANGED vars
  <2>1. UNCHANGED <<backups, pc, outdated>> BY <1>5 DEF GetCurrent, vars
  <2> QED BY <2>1 DEF Present
<1>6. CASE Crash BY <1>6 DEF Crash
<1> QED BY <1>1, <1>2, <1>3, <1>4, <1>5, <1>6 DEF Next

(* An Add that gets through leaves at most Limit backups, those of earlier *)
(* Adds that failed, or died, included.                                    *)
THEOREM LimitIsKept == Spec => WithinLimit
<1> DEFINE A == \A w \in Adders : Done(w) => Cardinality(Present) <= Limit
<1>1. Init => CleanupInv BY DEF Init, CleanupInv
<1>2. IInv /\ IInv' /\ CleanupInv /\ [Next]_vars => CleanupInv' BY StepCleanup
<1>3. CleanupInv => A
  <2> SUFFICES ASSUME CleanupInv, NEW w \in Adders, Done(w) PROVE Cardinality(Present) <= Limit
    OBVIOUS
  <2>1. pc[w] = "delete" /\ outdated[w] = {} BY DEF Done
  <2>2. Present \ {} = Present OBVIOUS
  <2> QED BY <2>1, <2>2 DEF CleanupInv
<1> QED BY <1>1, <1>2, <1>3, Inductive, PTL DEF Spec, WithinLimit

(* The backup just written is whole and is not one of the outdated: its    *)
(* name is the first that List returns.                                    *)
FreshInv ==
  /\ \A w \in Adders : pc[w] \in {"list", "delete"} => backups[key[w]] = data[w]
  /\ \A w \in Adders : pc[w] = "delete" => key[w] \notin outdated[w]

LEMMA StepFresh == ASSUME Zone # Zulu, IInv, IInv', FreshInv, [Next]_vars PROVE FreshInv'
<1> USE HistoryAssumption
<1> USE DEF FreshInv, IInv, files
<1>0. \A v, w \in Adders : pc[v] # "idle" /\ pc[w] # "idle" => v = w BY DEF LockInv
<1>1. CASE \E w \in Adders, e \in Snapshots : Add(w, e)
  BY <1>1 DEF Add, LockIsFree, Move, After, LockInv, TypeOK
<1>2. CASE \E w \in Adders :
         OpenBackup(w) \/ FillBackup(w) \/ OpenCurrent(w) \/ Done(w) \/ Refused(w)
  <2>1. PICK w \in Adders :
         OpenBackup(w) \/ FillBackup(w) \/ OpenCurrent(w) \/ Done(w) \/ Refused(w)
    BY <1>2
  <2>2. /\ pc[w] # "idle" /\ pc'[w] \notin {"list", "delete"}
        /\ \A v \in Adders : v # w => pc'[v] = pc[v]
    BY <2>1 DEF OpenBackup, FillBackup, OpenCurrent, Done, Refused, Unlock, Move, After, TypeOK
  <2> QED BY <1>0, <2>2
<1>3. CASE \E w \in Adders : FillCurrent(w)
  <2>1. PICK w \in Adders : FillCurrent(w) BY <1>3
  <2>2. /\ pc[w] = "fillCurrent" /\ pc'[w] = "list" /\ UNCHANGED <<backups, key, data>>
        /\ \A v \in Adders : v # w => pc'[v] = pc[v]
    BY <2>1 DEF FillCurrent, Move, After, TypeOK
  <2>3. backups[key[w]] = data[w] BY <2>2 DEF WholeInv
  <2> QED BY <1>0, <2>2, <2>3
<1>4. CASE \E w \in Adders : List(w)
  <2>1. PICK w \in Adders : List(w) BY <1>4
  <2>2. /\ pc[w] = "list" /\ pc'[w] = "delete" /\ UNCHANGED <<backups, key, data, clock>>
        /\ outdated'[w] = Outdated /\ \A v \in Adders : v # w => pc'[v] = pc[v]
    BY <2>1 DEF List, Move, TypeOK
  <2>3. key[w] = clock /\ clock \in Times BY <2>2 DEF LockInv
  <2>4. ASSUME NEW u \in Present PROVE ~ListsFirst(u, clock)
    <3>1. u \in Times /\ u <= clock
      BY <2>3, ClockIsInt DEF Present, LockInv
    <3> QED BY <2>3, <3>1, NewestFirst
  <2>5. {u \in Present : ListsFirst(u, clock)} = {} BY <2>4
  <2>6. clock \notin Outdated
    <3>1. Cardinality({}) = 0 /\ ~(0 >= Limit) BY FS_EmptySet
    <3> QED BY <2>5, <3>1 DEF Outdated
  <2> QED BY <1>0, <2>2, <2>3, <2>6
<1>5. CASE \E w \in Adders : Delete(w)
  <2>1. PICK w \in Adders : Delete(w) BY <1>5
  <2>2. PICK t \in outdated[w] :
          backups' = [backups EXCEPT ![t] = None] /\ outdated' = [outdated EXCEPT ![w] = @ \ {t}]
    BY <2>1 DEF Delete
  <2>3. pc[w] = "delete" /\ UNCHANGED <<pc, key, data>> BY <2>1 DEF Delete
  <2>4. key[w] # t BY <2>3
  <2>5. backups'[key[w]] = backups[key[w]] /\ outdated'[w] \subseteq outdated[w]
    <3>1. key[w] \in Times BY <2>3 DEF LockInv
    <3> QED BY <2>2, <2>4, <3>1 DEF TypeOK
  <2> QED BY <1>0, <2>3, <2>5
<1>6. CASE (\E r \in Readers : GetCurrent(r)) \/ UNCHANGED vars
  BY <1>6 DEF GetCurrent, vars
<1>7. CASE Crash BY <1>7 DEF Crash
<1> QED BY <1>1, <1>2, <1>3, <1>4, <1>5, <1>6, <1>7 DEF Next

(* Unless the zone is written as Z, an Add that gets through has not       *)
(* deleted the backup it has just written.                                 *)
THEOREM BackupIsKept == ASSUME Zone # Zulu PROVE Spec => KeepsItsBackup
<1> DEFINE A == \A w \in Adders : Done(w) => backups[key[w]] = data[w]
<1>1. Init => FreshInv BY DEF Init, FreshInv
<1>2. IInv /\ IInv' /\ FreshInv /\ [Next]_vars => FreshInv' BY StepFresh
<1>3. FreshInv => A BY DEF FreshInv, Done
<1> QED BY <1>1, <1>2, <1>3, Inductive, PTL DEF Spec, KeepsItsBackup
=============================================================================
