------------------------------ MODULE History -------------------------------
(***************************************************************************)
(* pkg/repo/history.go over its two storages: Add writes a backup and the  *)
(* current snapshot and deletes outdated backups, one storage call after   *)
(* the other, under the history's lock; GetCurrent reads the current       *)
(* snapshot.                                                               *)
(*                                                                         *)
(* A file is None (absent), a snapshot, or Torn: truncated and not yet, or *)
(* only partly, written.  os.WriteFile truncates first, so the filesystem  *)
(* storage leaves a torn file when it is interrupted; a blob appears as a  *)
(* whole when its writer is closed.                                        *)
(*                                                                         *)
(* A backup is named by the time of its Add.  Only the order of the names  *)
(* matters, and that depends on how time.RFC3339Nano writes a fraction of  *)
(* a second: without its trailing zeros, and followed by the time zone.    *)
(* Times are the fractions of one second, with two digits below Base.      *)
(***************************************************************************)
EXTENDS Integers, Sequences, FiniteSets

CONSTANTS
  Adders,        \* goroutines that call Add
  Readers,       \* goroutines that call GetCurrent
  Snapshots,
  None, Torn,
  Backend,       \* "filesystem" or "blob"
  Limit,         \* historyLimit
  Base,          \* bound on a digit of a time
  Zone,          \* the character after the fraction: Plus, Minus or Zulu
  Events         \* which of {"crash", "refused"} may happen

Plus == 43  Minus == 45  Dot == 46  Zero == 48  Zulu == 90
Times == 0 .. (Base * Base - 1)
Content == Snapshots \cup {None, Torn}

ASSUME HistoryAssumption ==
  /\ None # Torn /\ None \notin Snapshots \cup Times /\ Torn \notin Snapshots
  /\ None \notin Adders
  /\ Backend \in {"filesystem", "blob"}
  /\ Limit \in Nat \ {0} /\ Base \in 2 .. 10
  /\ Zone \in {Plus, Minus, Zulu}
  /\ Events \subseteq {"crash", "refused"}

VARIABLES
  backups,       \* the file of each time
  current,       \* the file under CurrentKey
  clock,         \* the time of the last Add, -1 before the first
  holder,        \* who holds History.mu for writing
  pc,            \* the storage call each adder is about to make
  data,          \* jsonBytes of each Add
  key,           \* backupKey of each Add
  outdated,      \* what is left of getFilesForCleanup
  got            \* what each reader last read

files == <<backups, current>>
vars == <<backups, current, clock, holder, pc, data, key, outdated, got>>

Stages == {"idle", "backup", "fillBackup", "current", "fillCurrent", "list", "delete"}

TypeOK ==
  /\ backups \in [Times -> Content] /\ current \in Content
  /\ clock \in Times \cup {-1} /\ holder \in Adders \cup {None}
  /\ pc \in [Adders -> Stages]
  /\ data \in [Adders -> Snapshots \cup {None}]
  /\ key \in [Adders -> Times \cup {None}]
  /\ outdated \in [Adders -> SUBSET Times]
  /\ got \in [Readers -> Content]

Init ==
  /\ backups = [t \in Times |-> None] /\ current = None
  /\ clock = -1 /\ holder = None
  /\ pc = [w \in Adders |-> "idle"]
  /\ data = [w \in Adders |-> None] /\ key = [w \in Adders |-> None]
  /\ outdated = [w \in Adders |-> {}]
  /\ got = [r \in Readers |-> None]

-----------------------------------------------------------------------------
(* The names of backups, from the fraction on, and the order of List.      *)

Digits(t) == <<t \div Base, t % Base>>

Name(t) ==
  (IF t = 0 THEN <<>>
   ELSE IF t % Base = 0 THEN <<Dot, Zero + Digits(t)[1]>>
   ELSE <<Dot, Zero + Digits(t)[1], Zero + Digits(t)[2]>>) \o <<Zone>>

Before(a, b) ==
  \E i \in DOMAIN b :
    /\ \A j \in 1 .. (i - 1) : j <= Len(a) /\ a[j] = b[j]
    /\ i > Len(a) \/ a[i] < b[i]

(* Faulty: sorted ascending.                                               *)
ListsAscending(t, u) == Before(Name(t), Name(u))

(* List returns t ahead of u: names in descending order.                   *)
ListsFirst(t, u) == Before(Name(u), Name(t))

Present == {t \in Times : backups[t] # None}

(* Faulty: one backup too few is kept.                                     *)
OutdatedOffByOne == {t \in Present : Cardinality({u \in Present : ListsFirst(u, t)}) >= Limit + 1}

(* getFilesForCleanup: what List returns behind the first Limit names.     *)
Outdated == {t \in Present : Cardinality({u \in Present : ListsFirst(u, t)}) >= Limit}

-----------------------------------------------------------------------------
(* Add.                                                                    *)

Move(w, stage) == pc' = [pc EXCEPT ![w] = stage]

Unlock(w) ==
  /\ Move(w, "idle") /\ holder' = None
  /\ data' = [data EXCEPT ![w] = None] /\ key' = [key EXCEPT ![w] = None]
  /\ outdated' = [outdated EXCEPT ![w] = {}]

(* The two halves of a Write: the file of a blob is not touched before the *)
(* write is complete.                                                      *)
Opened(old) == IF Backend = "filesystem" THEN Torn ELSE old

(* Faulty: the current file is written ahead of the backup.                *)
AfterBackupLast(stage) ==
  CASE stage = "idle" -> "current"
    [] stage = "fillCurrent" -> "backup"
    [] stage = "fillBackup" -> "list"

(* The order of the storage calls: backup, current, cleanup.               *)
After(stage) ==
  CASE stage = "idle" -> "backup"
    [] stage = "fillBackup" -> "current"
    [] stage = "fillCurrent" -> "list"

(* Faulty: nobody takes the lock.                                          *)
AlwaysFree == TRUE

LockIsFree == holder = None

Add(w, e) ==
  /\ pc[w] = "idle" /\ LockIsFree
  /\ holder' = w
  /\ \E t \in Times : t > clock /\ clock' = t /\ key' = [key EXCEPT ![w] = t]
  /\ data' = [data EXCEPT ![w] = e]
  /\ Move(w, After("idle"))
  /\ UNCHANGED <<files, outdated, got>>

OpenBackup(w) ==
  /\ pc[w] = "backup"
  /\ backups' = [backups EXCEPT ![key[w]] = Opened(@)]
  /\ Move(w, "fillBackup")
  /\ UNCHANGED <<current, clock, holder, data, key, outdated, got>>

FillBackup(w) ==
  /\ pc[w] = "fillBackup"
  /\ backups' = [backups EXCEPT ![key[w]] = data[w]]
  /\ Move(w, After("fillBackup"))
  /\ UNCHANGED <<current, clock, holder, data, key, outdated, got>>

OpenCurrent(w) ==
  /\ pc[w] = "current"
  /\ current' = Opened(current)
  /\ Move(w, "fillCurrent")
  /\ UNCHANGED <<backups, clock, holder, data, key, outdated, got>>

FillCurrent(w) ==
  /\ pc[w] = "fillCurrent"
  /\ current' = data[w]
  /\ Move(w, After("fillCurrent"))
  /\ UNCHANGED <<backups, clock, holder, data, key, outdated, got>>

List(w) ==
  /\ pc[w] = "list"
  /\ outdated' = [outdated EXCEPT ![w] = Outdated]
  /\ Move(w, "delete")
  /\ UNCHANGED <<files, clock, holder, data, key, got>>

Delete(w) ==
  /\ pc[w] = "delete"
  /\ \E t \in outdated[w] :
       /\ \A u \in outdated[w] \ {t} : ListsFirst(t, u)
       /\ backups' = [backups EXCEPT ![t] = None]
       /\ outdated' = [outdated EXCEPT ![w] = @ \ {t}]
  /\ UNCHANGED <<current, clock, holder, pc, data, key, got>>

Done(w) ==
  /\ pc[w] = "delete" /\ outdated[w] = {}
  /\ Unlock(w)
  /\ UNCHANGED <<files, clock, got>>

(* Any storage call may fail; Add returns at once and leaves things as     *)
(* they are.                                                               *)
Refused(w) ==
  /\ "refused" \in Events
  /\ pc[w] # "idle" /\ (pc[w] = "delete" => outdated[w] # {})
  /\ Unlock(w)
  /\ UNCHANGED <<files, clock, got>>

-----------------------------------------------------------------------------
(* GetCurrent, and the death of the process.                               *)

GetCurrent(r) ==
  /\ LockIsFree
  /\ got' = [got EXCEPT ![r] = current]
  /\ UNCHANGED <<files, clock, holder, pc, data, key, outdated>>

Crash ==
  /\ "crash" \in Events
  /\ holder' = None /\ pc' = [w \in Adders |-> "idle"]
  /\ data' = [w \in Adders |-> None] /\ key' = [w \in Adders |-> None]
  /\ outdated' = [w \in Adders |-> {}]
  /\ got' = [r \in Readers |-> None]
  /\ UNCHANGED <<files, clock>>

Next ==
  \/ \E w \in Adders, e \in Snapshots : Add(w, e)
  \/ \E w \in Adders :
       OpenBackup(w) \/ FillBackup(w) \/ OpenCurrent(w) \/ FillCurrent(w) \/ List(w)
       \/ Delete(w) \/ Done(w) \/ Refused(w)
  \/ \E r \in Readers : GetCurrent(r)
  \/ Crash

Spec == Init /\ [][Next]_vars

-----------------------------------------------------------------------------
(* Seen from outside, Add and GetCurrent are the write and the read of a   *)
(* register that an interrupted write can damage: no reader gets to see a  *)
(* snapshot being written, or one that two Adds wrote into each other.     *)
(* Truncating the file is where a write of the filesystem storage takes    *)
(* effect, since until it is complete nobody reads (Add, GetCurrent).      *)
Written ==
  IF Backend = "filesystem" /\ \E w \in Adders : pc[w] = "fillCurrent"
    THEN data[CHOOSE w \in Adders : pc[w] = "fillCurrent"]
    ELSE current

Reg == INSTANCE SnapshotRegister WITH value <- Written
Register == Reg!Spec

(* However often the process dies or the storage fails, a damaged current  *)
(* file leaves a whole backup to go back to: Add writes the backup first,  *)
(* and cleans up only when the current file has been written.              *)
BackupOfDamaged == current = Torn => \E t \in Times : backups[t] \in Snapshots

(* An Add that returns without an error leaves at most Limit backups,      *)
(* those that earlier, failed Adds left behind included.                   *)
WithinLimit == [][\A w \in Adders : Done(w) => Cardinality(Present) <= Limit]_vars

(* "sorted alphabetically descending (newest first)" (storage.go 17): when *)
(* Add returns without an error, the backup it has written is one of those *)
(* that survived its cleanup.                                              *)
KeepsItsBackup == [][\A w \in Adders : Done(w) => backups[key[w]] = data[w]]_vars
=============================================================================
