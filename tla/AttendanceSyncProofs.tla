------------------------ MODULE AttendanceSyncProofs ------------------------
(***************************************************************************)
(* Theorems about AttendanceSync for any devices, logs, tasks and settings. *)
(***************************************************************************)
EXTENDS AttendanceSync, FiniteSetTheorems, TLAPS

-----------------------------------------------------------------------------
(* Type correctness *)

LEMMA IdleTypes == Idle \in Task /\ NoUpdate \in Update /\ NoCounts \in Counts
BY DEF Idle, Task, NoUpdate, Update, NoCounts, Counts, Serials

LEMMA ReadingType ==
  ASSUME NEW q \in Task, NEW d \in Devices
  PROVE  /\ Reading(q, d) \in Task
         /\ Reading(q, d).pc = "fetch" /\ Reading(q, d).added = {} /\ Reading(q, d).found = {}
         /\ Reading(q, d).total = q.total
BY DEF Reading, Task, Serials

LEMMA CountsTypes ==
  ASSUME NEW q \in Task, NEW total \in Counts
  PROVE  DeviceCounts(q) \in Counts /\ Plus(total, DeviceCounts(q)) \in Counts
BY DEF DeviceCounts, Plus, Counts, Task

(* Inserting rows makes every key's count grow by a natural number, and    *)
(* only keys of added entries change.                                      *)
LEMMA InsertGrows ==
  ASSUME TypeOK, NEW q \in Task, Insert(q)
  PROVE  /\ table' \in [Punches \X Serials -> Nat]
         /\ inserted' \subseteq Entries
         /\ \A k \in Punches \X Serials :
              /\ table'[k] >= table[k]
              /\ table'[k] # table[k] => \E e \in q.added : <<PunchOf[e], q.device_sn>> = k
         /\ \A e \in q.added : /\ <<PunchOf[e], q.device_sn>> \in Punches \X Serials
                               /\ table'[<<PunchOf[e], q.device_sn>>] > 0
<1> DEFINE new(k) == {e \in q.added : <<PunchOf[e], q.device_sn>> = k}
<1>1. q.added \subseteq Entries /\ q.device_sn \in Serials
  BY DEF Task
<1>2. \A k : IsFiniteSet(new(k)) /\ Cardinality(new(k)) \in Nat
  BY <1>1, FS_Subset, FS_CardinalityType, AttendanceSyncAssumption
<1>3. \A k : (Cardinality(new(k)) = 0) <=> (new(k) = {})
  BY <1>2, FS_EmptySet
<1>4. table' = [k \in Punches \X Serials |-> table[k] + Cardinality(new(k))]
  BY DEF Insert
<1>5. table \in [Punches \X Serials -> Nat] /\ inserted \subseteq Entries
  BY DEF TypeOK
<1>6. \A e \in q.added : /\ <<PunchOf[e], q.device_sn>> \in Punches \X Serials
                         /\ e \in new(<<PunchOf[e], q.device_sn>>)
  BY <1>1, AttendanceSyncAssumption
<1>7. inserted' \subseteq Entries
  BY <1>1, <1>5 DEF Insert
<1> HIDE DEF new
<1>8. table' \in [Punches \X Serials -> Nat]
  BY <1>2, <1>4, <1>5
<1>9. ASSUME NEW k \in Punches \X Serials
      PROVE  /\ table'[k] >= table[k]
             /\ table'[k] # table[k] => new(k) # {}
             /\ new(k) # {} => table'[k] > 0
  BY <1>2, <1>3, <1>4, <1>5
<1>10. \A k : new(k) # {} => \E e \in q.added : <<PunchOf[e], q.device_sn>> = k
  BY DEF new
<1> QED
  BY <1>6, <1>7, <1>8, <1>9, <1>10

LEMMA DailyRunType ==
  ASSUME NEW s \in Settings
  PROVE  DailyRun(s) \in Times \cup {None}
BY DEF DailyRun, Settings

LEMMA InitType == Init => TypeOK
<1> SUFFICES ASSUME Init PROVE TypeOK
  OBVIOUS
<1>1. settings \in Settings /\ row \in Settings /\ schedule \in Times \cup {None}
  BY AttendanceSyncAssumption, DailyRunType DEF Init
<1>2. /\ tasks \in [Tasks -> Task] /\ updates \in [Updates -> Update]
      /\ status \in [stage : Stages, counts : Counts]
  BY IdleTypes DEF Init, Stages
<1>3. table \in [Punches \X Serials -> Nat] /\ started \in 0 .. MaxRequests
  BY AttendanceSyncAssumption DEF Init
<1> QED
  BY <1>1, <1>2, <1>3 DEF Init, TypeOK

(* A step of a task that stores a run, shows a stage and changes nothing   *)
(* else that a type speaks of.                                             *)
LEMMA TaskStepType ==
  ASSUME TypeOK, NEW t \in Tasks, NEW q \in Task, Put(t, q),
         status' \in [stage : Stages, counts : Counts],
         running' \in BOOLEAN, table' \in [Punches \X Serials -> Nat],
         inserted' \subseteq Entries, reported' \subseteq Punches,
         started' \in 0 .. MaxRequests, UNCHANGED <<log, settingsVars>>
  PROVE  TypeOK'
BY DEF TypeOK, Put, settingsVars

LEMMA StageType ==
  ASSUME TypeOK, NEW stage \in Stages, Stage(stage)
  PROVE  status' \in [stage : Stages, counts : Counts]
BY DEF TypeOK, Stage

LEMMA BeginRunType ==
  ASSUME NEW stage \in Stages, BeginRun(stage)
  PROVE  /\ running' = TRUE /\ inserted' = {}
         /\ status' \in [stage : Stages, counts : Counts]
BY IdleTypes DEF BeginRun

LEMMA ScannedType ==
  ASSUME TypeOK, NEW t \in Tasks, NEW q \in Task, Scanned(t, q)
  PROVE  /\ status' \in [stage : Stages, counts : Counts]
         /\ \E pc \in {"commit", "scan"} :
              [q EXCEPT !.pc = pc] \in Task /\ Put(t, [q EXCEPT !.pc = pc])
<1>1. \A pc \in {"commit", "scan"} : [q EXCEPT !.pc = pc] \in Task
  BY DEF Task
<1>2. CASE q.todo = {}
  BY <1>1, <1>2, CountsTypes, IdleTypes DEF Scanned, Stages
<1>3. CASE q.todo # {}
  BY <1>1, <1>3 DEF Scanned, TypeOK
<1> QED
  BY <1>2, <1>3

LEMMA RunStepType ==
  ASSUME TypeOK, NEW t \in Tasks,
         \/ \E d \in Devices, incremental \in BOOLEAN : StartManualSync(t, d, incremental)
         \/ RunScheduledJob(t)
         \/ RunManualSync(t) \/ RunScheduledSync(t)
  PROVE  TypeOK'
<1> USE IdleTypes, AttendanceSyncAssumption
<1>0. /\ tasks[t] \in Task /\ running \in BOOLEAN /\ table \in [Punches \X Serials -> Nat]
      /\ inserted \subseteq Entries /\ reported \subseteq Punches /\ started \in 0 .. MaxRequests
      /\ status \in [stage : Stages, counts : Counts]
  BY DEF TypeOK
<1>1. Request => started' \in 0 .. MaxRequests
  BY <1>0 DEF Request
<1>2. ASSUME NEW d \in Devices, NEW incremental \in BOOLEAN, StartManualSync(t, d, incremental)
      PROVE  TypeOK'
  <2> DEFINE q == [Idle EXCEPT !.pc = "start", !.incremental = incremental, !.left = {d}]
  <2>1. q \in Task
    BY DEF Task
  <2>2. Put(t, q) /\ BeginRun("starting")
    BY <1>2 DEF StartManualSync
  <2> HIDE DEF q
  <2> QED
    BY <1>0, <1>1, <1>2, <2>1, <2>2, BeginRunType, TaskStepType DEF StartManualSync, Stages
<1>3. CASE RunScheduledJob(t)
  <2> DEFINE q == [Idle EXCEPT !.pc = "load_ips"]
  <2>1. q \in Task
    BY DEF Task
  <2>2. Put(t, q)
    BY <1>3 DEF RunScheduledJob
  <2> HIDE DEF q
  <2> QED
    BY <1>0, <1>1, <1>3, <2>1, <2>2, TaskStepType DEF RunScheduledJob
<1>4. CASE RunManualSync(t)
  <2>1. PICK d \in tasks[t].left : Put(t, Reading(tasks[t], d))
    BY <1>4 DEF RunManualSync
  <2>2. d \in Devices
    BY <1>0 DEF Task
  <2>3. status' \in [stage : Stages, counts : Counts]
    BY <1>4, StageType DEF RunManualSync, Stages
  <2> QED
    BY <1>0, <1>4, <2>1, <2>2, <2>3, ReadingType, TaskStepType DEF RunManualSync
<1>5. CASE RunScheduledSync(t)
  <2>1. CASE Put(t, Idle) /\ UNCHANGED <<running, status, inserted>>
    BY <1>0, <1>5, <2>1, TaskStepType DEF RunScheduledSync
  <2>2. ASSUME NEW ips \in SUBSET Devices, NEW d \in ips, BeginRun("fetching"),
               Put(t, Reading([tasks[t] EXCEPT !.left = ips], d))
        PROVE  TypeOK'
    <3>1. [tasks[t] EXCEPT !.left = ips] \in Task
      BY <1>0 DEF Task
    <3> QED
      BY <1>0, <1>5, <2>2, <3>1, ReadingType, BeginRunType, TaskStepType DEF RunScheduledSync, Stages
  <2>3. \/ Put(t, Idle) /\ UNCHANGED <<running, status, inserted>>
        \/ \E ips \in SUBSET Devices : \E d \in ips :
             BeginRun("fetching") /\ Put(t, Reading([tasks[t] EXCEPT !.left = ips], d))
    BY <1>5 DEF RunScheduledSync
  <2> QED
    BY <2>1, <2>2, <2>3
<1> QED
  BY <1>2, <1>3, <1>4, <1>5

LEMMA ReadStepType ==
  ASSUME TypeOK, NEW t \in Tasks,
         FetchDone(t) \/ SerialDone(t) \/ \E e \in Entries : ScanRecord(t, e)
  PROVE  TypeOK'
<1> DEFINE q == tasks[t]
<1>0. /\ q \in Task /\ running \in BOOLEAN /\ table \in [Punches \X Serials -> Nat]
      /\ inserted \subseteq Entries /\ reported \subseteq Punches /\ started \in 0 .. MaxRequests
      /\ status \in [stage : Stages, counts : Counts] /\ log \subseteq Entries
  BY DEF TypeOK
<1>1. CASE FetchDone(t)
  <2>1. PICK entries \in {{e \in log : DeviceOf[e] = q.device}, {}} :
          /\ Put(t, [q EXCEPT !.pc = "serial", !.todo = entries])
          /\ status' = [status EXCEPT !.stage = "processing", !.counts.fetched = entries]
    BY <1>1 DEF FetchDone
  <2>2. entries \subseteq Entries
    BY <1>0
  <2>3. [q EXCEPT !.pc = "serial", !.todo = entries] \in Task
    BY <1>0, <2>2 DEF Task
  <2>4. status' \in [stage : Stages, counts : Counts]
    BY <1>0, <2>1, <2>2 DEF Stages, Counts
  <2> QED
    BY <1>0, <1>1, <2>1, <2>3, <2>4, TaskStepType DEF FetchDone
<1>2. ASSUME NEW n \in Task, Scanned(t, n),
             UNCHANGED <<log, table, running, inserted, reported, settingsVars, started>>
      PROVE  TypeOK'
  BY <1>0, <1>2, ScannedType, TaskStepType
<1>3. CASE SerialDone(t)
  <2>1. PICK sn \in {q.device, None} :
          Scanned(t, IF q.incremental THEN [q EXCEPT !.device_sn = sn]
                     ELSE [q EXCEPT !.device_sn = sn, !.todo = {}, !.added = q.todo])
    BY <1>3 DEF SerialDone
  <2>2. sn \in Serials
    BY <1>0 DEF Task, Serials
  <2>3. /\ [q EXCEPT !.device_sn = sn] \in Task
        /\ [q EXCEPT !.device_sn = sn, !.todo = {}, !.added = q.todo] \in Task
    BY <1>0, <2>2 DEF Task
  <2> QED
    BY <1>2, <1>3, <2>1, <2>3 DEF SerialDone
<1>4. CASE \E e \in Entries : ScanRecord(t, e)
  <2>1. PICK e \in Entries : ScanRecord(t, e)
    BY <1>4
  <2>2. /\ [q EXCEPT !.todo = @ \ {e}, !.found = @ \cup {e}] \in Task
        /\ [q EXCEPT !.todo = @ \ {e}, !.added = @ \cup {e}] \in Task
    BY <1>0 DEF Task
  <2> QED
    BY <1>2, <2>1, <2>2 DEF ScanRecord
<1> QED
  BY <1>1, <1>3, <1>4

LEMMA EndStepType ==
  ASSUME TypeOK, NEW t \in Tasks, CommitDone(t) \/ FailRun(t)
  PROVE  TypeOK'
<1> USE IdleTypes
<1> DEFINE q == tasks[t]
           total == Plus(q.total, DeviceCounts(q))
<1>0. /\ q \in Task /\ running \in BOOLEAN /\ table \in [Punches \X Serials -> Nat]
      /\ inserted \subseteq Entries /\ reported \subseteq Punches /\ started \in 0 .. MaxRequests
  BY DEF TypeOK
<1>1. q.total \in Counts /\ total \in Counts
  BY <1>0, CountsTypes DEF Task
<1>2. Insert(q) => table' \in [Punches \X Serials -> Nat] /\ inserted' \subseteq Entries
  BY <1>0, InsertGrows
<1>3. CASE FailRun(t)
  BY <1>0, <1>2, <1>3, StageType, TaskStepType DEF FailRun, Stages
<1>4. CASE CommitDone(t)
  <2>1. Insert(q) /\ UNCHANGED <<log, settingsVars, started>>
    BY <1>4 DEF CommitDone
  <2>2. CASE FinishRun(total, DeviceCounts(q)) /\ Put(t, Idle)
    <3>1. reported' \subseteq Punches
      BY <1>0, <1>1, <2>2, AttendanceSyncAssumption DEF FinishRun, Counts
    <3>2. status' \in [stage : Stages, counts : Counts] /\ running' \in BOOLEAN
      BY <1>1, <2>2 DEF FinishRun, Stages
    <3> QED
      BY <1>0, <1>2, <2>1, <2>2, <3>1, <3>2, TaskStepType
  <2>3. CASE /\ \E d \in q.left : Put(t, Reading([q EXCEPT !.total = total], d))
             /\ Stage("fetching") /\ UNCHANGED <<running, reported>>
    <3>1. PICK d \in q.left : Put(t, Reading([q EXCEPT !.total = total], d))
      BY <2>3
    <3>2. d \in Devices /\ [q EXCEPT !.total = total] \in Task
      BY <1>0, <1>1 DEF Task
    <3>3. status' \in [stage : Stages, counts : Counts]
      BY <2>3, StageType DEF Stages
    <3> HIDE DEF total
    <3> QED
      BY <1>0, <1>2, <2>1, <2>3, <3>1, <3>2, <3>3, ReadingType, TaskStepType
  <2> QED
    BY <1>4, <2>2, <2>3 DEF CommitDone
<1> QED
  BY <1>3, <1>4

LEMMA OtherStepType ==
  ASSUME TypeOK,
         \/ \E e \in Entries : Punch(e)
         \/ \E x \in Updates : (\E body \in Bodies : UpdateSettings(x, body)) \/ Save(x)
         \/ Restart
         \/ UNCHANGED vars
  PROVE  TypeOK'
<1> USE IdleTypes, AttendanceSyncAssumption
<1>1. CASE \E e \in Entries : Punch(e)
  BY <1>1 DEF TypeOK, Punch, runVars, settingsVars
<1>2. CASE UNCHANGED vars
  BY <1>2 DEF TypeOK, vars, runVars, settingsVars
<1>3. CASE Restart
  BY <1>3, DailyRunType DEF Restart, TypeOK, Stages
<1>4. ASSUME NEW x \in Updates, NEW body \in Bodies, UpdateSettings(x, body)
      PROVE  TypeOK'
  <2>1. [NoUpdate EXCEPT !.pc = "load"] \in Update
    BY DEF NoUpdate, Update
  <2>2. body \in Settings /\ updates' \in [Updates -> Update]
    BY <1>4, <2>1 DEF TypeOK, UpdateSettings
  <2> QED
    BY <1>4, <2>2 DEF TypeOK, UpdateSettings, Request, runVars
<1>5. ASSUME NEW x \in Updates, SaveLoad(x)
      PROVE  TypeOK'
  <2>1. updates' \in [Updates -> Update]
    BY <1>5 DEF TypeOK, SaveLoad, Update
  <2> QED
    BY <1>5, <2>1 DEF TypeOK, SaveLoad, runVars
<1>6. ASSUME NEW x \in Updates, SaveFails(x)
      PROVE  TypeOK'
  BY <1>6 DEF TypeOK, SaveFails, runVars
<1>7. ASSUME NEW x \in Updates, SaveCommit(x)
      PROVE  TypeOK'
  <2>1. /\ updates[x].loaded \in Settings /\ updates[x].mem \in Settings
        /\ row \in Settings /\ row' = Saved(updates[x].loaded, updates[x].mem)
    BY <1>7 DEF TypeOK, SaveCommit, Update
  <2>2. row' \in Settings
    BY <2>1 DEF Saved, Settings
  <2>3. [NoUpdate EXCEPT !.pc = "refresh"] \in Update
    BY DEF NoUpdate, Update
  <2>4. updates' \in [Updates -> Update] /\ unsaved' \in BOOLEAN
    BY <1>7, <2>3 DEF TypeOK, SaveCommit
  <2> QED
    BY <1>7, <2>2, <2>4 DEF TypeOK, SaveCommit, runVars
<1>8. ASSUME NEW x \in Updates, RefreshSchedule(x)
      PROVE  TypeOK'
  <2>1. schedule' \in Times \cup {None} /\ updates' \in [Updates -> Update]
    BY <1>8, DailyRunType, IdleTypes DEF TypeOK, RefreshSchedule
  <2> QED
    BY <1>8, <2>1 DEF TypeOK, RefreshSchedule, runVars
<1> QED
  BY <1>1, <1>2, <1>3, <1>4, <1>5, <1>6, <1>7, <1>8 DEF Save

LEMMA NextType == TypeOK /\ [Next]_vars => TypeOK'
<1> SUFFICES ASSUME TypeOK, [Next]_vars PROVE TypeOK'
  OBVIOUS
<1>1. ASSUME NEW t \in Tasks, Step(t) PROVE TypeOK'
  BY <1>1, RunStepType, ReadStepType, EndStepType DEF Step
<1> QED
  BY <1>1, RunStepType, OtherStepType DEF Next

(* Every variable of the manager and of its runs keeps its type. *)
THEOREM TypeCorrect == Spec => []TypeOK
BY InitType, NextType, PTL DEF Spec

-----------------------------------------------------------------------------
(* One run at a time, and what it knows of the table *)

Resting == {"idle", "load_ips"}

LEMMA RunKnows ==
  ASSUME Safe, NEW t \in Tasks, Working(t)
  PROVE  RunOK(tasks[t], table) /\ running = TRUE
<1>1. RunOK(tasks[t], table)
  <2>1. RunsOK
    BY DEF Safe
  <2> QED
    BY <2>1 DEF RunsOK
<1>2. running = TRUE
  BY DEF Safe, OneRun, TypeOK
<1> QED
  BY <1>1, <1>2

LEMMA InitSafe == Init => Safe
<1> SUFFICES ASSUME Init PROVE Safe
  OBVIOUS
<1>1. \A t \in Tasks : ~Working(t) /\ tasks[t].total.fetched = {}
  BY DEF Init, Working, Idle, NoCounts
<1> QED
  BY <1>1, InitType DEF Init, Safe, OneRun, RunsOK, ReportedIsRecorded

(* A step of task t keeps the invariant if it changes the table only while *)
(* it is the run, takes the flag only when it is down, gives it back when  *)
(* it rests, and knows the table it leaves.                                *)
LEMMA TaskStepSafe ==
  ASSUME Safe, TypeOK', NEW t \in Tasks, NEW q, Put(t, q),
         table' = table \/ Working(t),
         q.pc \notin Resting => RunOK(q, table') /\ running' = TRUE /\ (Working(t) \/ ~running),
         q.pc \in Resting => running' = (running /\ ~Working(t)) /\ q.total.fetched = {},
         \A p \in reported' : Recorded(p, table')
  PROVE  Safe'
<1>1. tasks' = [tasks EXCEPT ![t] = q] /\ tasks \in [Tasks -> Task]
  BY DEF Put, Safe, TypeOK
<1>2. Working(t)' <=> q.pc \notin Resting
  BY <1>1 DEF Working, Resting
<1>3. ASSUME NEW w \in Tasks, w # t PROVE tasks'[w] = tasks[w] /\ (Working(w)' <=> Working(w))
  BY <1>1, <1>3 DEF Working
<1>4. \A w \in Tasks : w # t /\ Working(w) => ~Working(t) /\ running /\ table' = table
  BY DEF Safe, OneRun
<1>5. OneRun'
  <2>1. CASE q.pc \notin Resting
    BY <1>2, <1>3, <1>4, <2>1 DEF OneRun
  <2>2. CASE q.pc \in Resting
    <3>1. \A v, w \in Tasks : Working(v)' /\ Working(w)' => v = w
      BY <1>2, <1>3, <2>2 DEF OneRun, Safe
    <3>2. running' <=> \E w \in Tasks : Working(w)'
      BY <1>2, <1>3, <1>4, <2>2 DEF OneRun, Safe
    <3> QED
      BY <3>1, <3>2 DEF OneRun
  <2> QED
    BY <2>1, <2>2
<1>6. RunsOK'
  <2>1. ASSUME NEW w \in Tasks
        PROVE  /\ Working(w)' => RunOK(tasks'[w], table')
               /\ ~Working(w)' => tasks'[w].total.fetched = {}
    <3>1. CASE w = t
      <4>1. tasks'[w] = q /\ (Working(w)' <=> q.pc \notin Resting)
        BY <1>1, <1>2, <3>1
      <4>2. CASE q.pc \notin Resting
        BY <4>1, <4>2
      <4>3. CASE q.pc \in Resting
        BY <4>1, <4>3
      <4> QED
        BY <4>2, <4>3
    <3>2. CASE w # t
      BY <1>3, <1>4, <2>1, <3>2 DEF Safe, RunsOK
    <3> QED
      BY <3>1, <3>2
  <2> QED
    BY <2>1 DEF RunsOK
<1> QED
  BY <1>5, <1>6 DEF Safe, ReportedIsRecorded

(* A run that goes on to a device knows nothing but what it has reported.  *)
LEMMA ReadingOK ==
  ASSUME NEW q \in Task, NEW d \in Devices, NEW rows,
         \A e \in q.total.fetched : Recorded(PunchOf[e], rows)
  PROVE  RunOK(Reading(q, d), rows) /\ Reading(q, d).pc \notin Resting
BY ReadingType DEF RunOK, Resting

LEMMA RunStepSafe ==
  ASSUME Safe, TypeOK', NEW t \in Tasks,
         \/ \E d \in Devices, incremental \in BOOLEAN : StartManualSync(t, d, incremental)
         \/ RunScheduledJob(t)
         \/ RunManualSync(t) \/ RunScheduledSync(t)
  PROVE  Safe'
<1>0. /\ tasks[t] \in Task /\ running \in BOOLEAN
      /\ Working(t) => RunOK(tasks[t], table)
      /\ \A p \in reported : Recorded(p, table)
  BY RunKnows DEF Safe, TypeOK, ReportedIsRecorded
<1>1. ASSUME NEW d \in Devices, NEW incremental \in BOOLEAN, StartManualSync(t, d, incremental)
      PROVE  Safe'
  <2> DEFINE q == [Idle EXCEPT !.pc = "start", !.incremental = incremental, !.left = {d}]
  <2>1. RunOK(q, table) /\ q.pc \notin Resting
    BY DEF Idle, NoCounts, RunOK, Resting
  <2>2. Put(t, q) /\ running' = TRUE /\ ~running
    BY <1>1 DEF StartManualSync, BeginRun
  <2> HIDE DEF q
  <2> QED
    BY <1>0, <1>1, <2>1, <2>2, TaskStepSafe DEF StartManualSync
<1>2. CASE RunScheduledJob(t)
  <2> DEFINE q == [Idle EXCEPT !.pc = "load_ips"]
  <2>1. q.pc \in Resting /\ q.total.fetched = {} /\ ~Working(t)
    BY <1>2 DEF RunScheduledJob, Working, Idle, Resting, NoCounts
  <2>2. Put(t, q)
    BY <1>2 DEF RunScheduledJob
  <2> HIDE DEF q
  <2> QED
    BY <1>0, <1>2, <2>1, <2>2, TaskStepSafe DEF RunScheduledJob
<1>3. CASE RunManualSync(t)
  <2>1. PICK d \in tasks[t].left : Put(t, Reading(tasks[t], d))
    BY <1>3 DEF RunManualSync
  <2>2. d \in Devices /\ Working(t)
    BY <1>0, <1>3 DEF Task, RunManualSync, Working
  <2>3. RunOK(Reading(tasks[t], d), table) /\ Reading(tasks[t], d).pc \notin Resting
    BY <1>0, <2>2, ReadingOK DEF RunOK
  <2>4. running = TRUE
    BY <1>0, <2>2 DEF Safe, OneRun
  <2> QED
    BY <1>0, <1>3, <2>1, <2>2, <2>3, <2>4, TaskStepSafe DEF RunManualSync
<1>4. CASE RunScheduledSync(t)
  <2>0. ~Working(t) /\ UNCHANGED <<table, reported>>
    BY <1>4 DEF RunScheduledSync, Working
  <2>1. CASE Put(t, Idle) /\ UNCHANGED running
    <3>1. Idle.pc \in Resting /\ Idle.total.fetched = {}
      BY DEF Idle, Resting, NoCounts
    <3> QED
      BY <1>0, <2>0, <2>1, <3>1, TaskStepSafe
  <2>2. ASSUME NEW ips \in SUBSET Devices, NEW d \in ips, BeginRun("fetching"),
               Put(t, Reading([tasks[t] EXCEPT !.left = ips], d)),
               tasks[t].total.fetched = {}
        PROVE  Safe'
    <3> DEFINE q == [tasks[t] EXCEPT !.left = ips]
    <3>1. q \in Task /\ q.total.fetched = {}
      BY <1>0, <2>2 DEF Task
    <3>2. RunOK(Reading(q, d), table) /\ Reading(q, d).pc \notin Resting
      BY <3>1, ReadingOK
    <3>3. running' = TRUE /\ ~running
      BY <2>2 DEF BeginRun
    <3> QED
      BY <1>0, <2>0, <2>2, <3>2, <3>3, TaskStepSafe
  <2>3. tasks[t].total.fetched = {}
    BY <2>0 DEF Safe, RunsOK
  <2>4. \/ Put(t, Idle) /\ UNCHANGED running
        \/ \E ips \in SUBSET Devices : \E d \in ips :
             BeginRun("fetching") /\ Put(t, Reading([tasks[t] EXCEPT !.left = ips], d))
    BY <1>4 DEF RunScheduledSync
  <2> QED
    BY <2>1, <2>2, <2>3, <2>4
<1> QED
  BY <1>1, <1>2, <1>3, <1>4

LEMMA ReadStepSafe ==
  ASSUME Safe, TypeOK', NEW t \in Tasks,
         FetchDone(t) \/ SerialDone(t) \/ \E e \in Entries : ScanRecord(t, e)
  PROVE  Safe'
<1> DEFINE q == tasks[t]
<1>0. /\ q \in Task /\ table \in [Punches \X Serials -> Nat]
      /\ \A p \in reported : Recorded(p, table)
      /\ UNCHANGED <<table, running, reported>>
  BY DEF Safe, TypeOK, ReportedIsRecorded, FetchDone, SerialDone, ScanRecord
<1>1. Working(t) /\ running = TRUE /\ RunOK(q, table)
  <2>1. Working(t)
    BY DEF FetchDone, SerialDone, ScanRecord, Working
  <2> QED
    BY <2>1, RunKnows
<1>2. ASSUME NEW n, Put(t, n), RunOK(n, table), n.pc \notin Resting
      PROVE  Safe'
  BY <1>0, <1>1, <1>2, TaskStepSafe
<1>3. CASE FetchDone(t)
  <2>1. PICK entries : Put(t, [q EXCEPT !.pc = "serial", !.todo = entries])
    BY <1>3 DEF FetchDone
  <2> DEFINE n == [q EXCEPT !.pc = "serial", !.todo = entries]
  <2>2. /\ n.pc = "serial" /\ n.added = q.added /\ n.found = q.found /\ n.total = q.total
        /\ n.device_sn = q.device_sn /\ n.incremental = q.incremental
    BY <1>0 DEF Task
  <2>3. q.added = {} /\ q.found = {}
    BY <1>1, <1>3 DEF RunOK, FetchDone
  <2> HIDE DEF n
  <2>4. RunOK(n, table) /\ n.pc \notin Resting
    BY <1>1, <2>2, <2>3 DEF RunOK, Resting
  <2> QED
    BY <1>2, <2>1, <2>4 DEF n
<1>4. ASSUME NEW n \in Task, Scanned(t, n),
             \A e \in n.found : table[<<PunchOf[e], n.device_sn>>] > 0,
             n.incremental => \A e \in n.added : table[<<PunchOf[e], n.device_sn>>] = 0,
             n.total = q.total
      PROVE  Safe'
  <2>1. ASSUME NEW pc \in {"commit", "scan"}, pc = "commit" => n.todo = {}
        PROVE  RunOK([n EXCEPT !.pc = pc], table) /\ [n EXCEPT !.pc = pc].pc \notin Resting
    <3> DEFINE m == [n EXCEPT !.pc = pc]
    <3>1. /\ m.pc = pc /\ m.todo = n.todo /\ m.added = n.added /\ m.found = n.found
          /\ m.total = n.total /\ m.device_sn = n.device_sn /\ m.incremental = n.incremental
      BY <1>4 DEF Task
    <3> HIDE DEF m
    <3>2. RunOK(m, table) /\ m.pc \notin Resting
      BY <1>1, <1>4, <2>1, <3>1 DEF RunOK, Resting
    <3> QED
      BY <3>2 DEF m
  <2> QED
    BY <1>2, <1>4, <2>1 DEF Scanned
<1>5. CASE SerialDone(t)
  <2>1. PICK sn \in {q.device, None} :
          Scanned(t, IF q.incremental THEN [q EXCEPT !.device_sn = sn]
                     ELSE [q EXCEPT !.device_sn = sn, !.todo = {}, !.added = q.todo])
    BY <1>5 DEF SerialDone
  <2>2. sn \in Serials /\ q.added = {} /\ q.found = {}
    BY <1>0, <1>1, <1>5 DEF Task, Serials, RunOK, SerialDone
  <2>3. CASE q.incremental
    <3> DEFINE n == [q EXCEPT !.device_sn = sn]
    <3>1. n \in Task /\ n.added = {} /\ n.found = {} /\ n.total = q.total
      BY <1>0, <2>2 DEF Task
    <3>2. Scanned(t, n)
      BY <2>1, <2>3
    <3> HIDE DEF n
    <3> QED
      BY <1>4, <3>1, <3>2
  <2>4. CASE ~q.incremental
    <3> DEFINE n == [q EXCEPT !.device_sn = sn, !.todo = {}, !.added = q.todo]
    <3>1. n \in Task /\ ~n.incremental /\ n.found = {} /\ n.total = q.total
      BY <1>0, <2>2, <2>4 DEF Task
    <3>2. Scanned(t, n)
      BY <2>1, <2>4
    <3> HIDE DEF n
    <3> QED
      BY <1>4, <3>1, <3>2
  <2> QED
    BY <2>3, <2>4
<1>6. CASE \E e \in Entries : ScanRecord(t, e)
  <2>1. PICK e \in Entries : ScanRecord(t, e)
    BY <1>6
  <2> DEFINE a == [q EXCEPT !.todo = @ \ {e}, !.found = @ \cup {e}]
             b == [q EXCEPT !.todo = @ \ {e}, !.added = @ \cup {e}]
             key == <<PunchOf[e], q.device_sn>>
  <2>2. /\ a \in Task /\ a.found = q.found \cup {e} /\ a.added = q.added
        /\ a.total = q.total /\ a.device_sn = q.device_sn /\ a.incremental = q.incremental
    BY <1>0 DEF Task
  <2>3. /\ b \in Task /\ b.found = q.found /\ b.added = q.added \cup {e}
        /\ b.total = q.total /\ b.device_sn = q.device_sn /\ b.incremental = q.incremental
    BY <1>0 DEF Task
  <2>4. key \in Punches \X Serials /\ table[key] \in Nat
    BY <1>0, AttendanceSyncAssumption DEF Task
  <2>5. CASE table[key] > 0
    <3>1. Scanned(t, a)
      BY <2>1, <2>5 DEF ScanRecord, ExistsRecord
    <3> HIDE DEF a, b
    <3> QED
      BY <1>1, <1>4, <2>2, <2>5, <3>1 DEF RunOK
  <2>6. CASE ~(table[key] > 0)
    <3>1. Scanned(t, b)
      BY <2>1, <2>6 DEF ScanRecord, ExistsRecord
    <3>2. table[key] = 0
      BY <2>4, <2>6
    <3> HIDE DEF a, b
    <3> QED
      BY <1>1, <1>4, <2>3, <3>1, <3>2 DEF RunOK
  <2> QED
    BY <2>5, <2>6
<1> QED
  BY <1>3, <1>5, <1>6

(* The device of a commit: its rows are there, and the run reports only    *)
(* what is there.                                                          *)
LEMMA InsertSafe ==
  ASSUME Safe, NEW q \in Task, RunOK(q, table), q.pc = "commit", Insert(q)
  PROVE  /\ \A p : Recorded(p, table) /\ p \in Punches => Recorded(p, table')
         /\ \A e \in Plus(q.total, DeviceCounts(q)).fetched : Recorded(PunchOf[e], table')
<1>0. table \in [Punches \X Serials -> Nat] /\ q.device_sn \in Serials /\ q.found \subseteq Entries
      /\ q.total.fetched \subseteq Entries
  BY DEF Safe, TypeOK, Task, Counts
<1>1. /\ table' \in [Punches \X Serials -> Nat]
      /\ \A k \in Punches \X Serials : table'[k] >= table[k]
      /\ \A e \in q.added : table'[<<PunchOf[e], q.device_sn>>] > 0
  BY InsertGrows DEF Safe
<1>2. ASSUME NEW p \in Punches, Recorded(p, table) PROVE Recorded(p, table')
  <2>1. PICK sn \in Serials : table[<<p, sn>>] > 0
    BY <1>2 DEF Recorded
  <2>2. table'[<<p, sn>>] > 0
    BY <1>0, <1>1, <2>1
  <2> QED
    BY <2>2 DEF Recorded
<1>3. ASSUME NEW e \in q.found PROVE Recorded(PunchOf[e], table')
  <2>1. PunchOf[e] \in Punches /\ Recorded(PunchOf[e], table)
    BY <1>0, AttendanceSyncAssumption DEF RunOK, Recorded
  <2> QED
    BY <1>2, <2>1
<1>4. ASSUME NEW e \in q.total.fetched PROVE Recorded(PunchOf[e], table')
  <2>1. PunchOf[e] \in Punches /\ Recorded(PunchOf[e], table)
    BY <1>0, AttendanceSyncAssumption DEF RunOK
  <2> QED
    BY <1>2, <2>1
<1>5. \A e \in q.added : Recorded(PunchOf[e], table')
  BY <1>0, <1>1 DEF Recorded
<1>6. Plus(q.total, DeviceCounts(q)).fetched = q.total.fetched \cup q.added \cup q.found
  BY DEF Plus, DeviceCounts, RunOK
<1> QED
  BY <1>2, <1>3, <1>4, <1>5, <1>6

LEMMA EndStepSafe ==
  ASSUME Safe, TypeOK', NEW t \in Tasks, CommitDone(t) \/ FailRun(t)
  PROVE  Safe'
<1> DEFINE q == tasks[t]
           total == Plus(q.total, DeviceCounts(q))
<1>0. /\ q \in Task /\ reported \subseteq Punches
      /\ \A p \in reported : Recorded(p, table)
  BY DEF Safe, TypeOK, ReportedIsRecorded
<1>1. Working(t) /\ running = TRUE /\ RunOK(q, table)
  <2>1. Working(t)
    BY DEF CommitDone, FailRun, Working
  <2> QED
    BY <2>1, RunKnows
<1>2. Idle.pc \in Resting /\ Idle.total.fetched = {}
  BY DEF Idle, Resting, NoCounts
<1>3. CASE FailRun(t)
  <2>1. /\ Put(t, Idle) /\ running' = FALSE /\ reported' = reported
        /\ (q.pc = "commit" /\ Insert(q)) \/ UNCHANGED table
    BY <1>3 DEF FailRun
  <2>2. \A p \in reported' : Recorded(p, table')
    BY <1>0, <1>1, <2>1, InsertSafe
  <2> QED
    BY <1>1, <1>2, <2>1, <2>2, TaskStepSafe
<1>4. CASE CommitDone(t)
  <2>1. q.pc = "commit" /\ Insert(q)
    BY <1>4 DEF CommitDone
  <2>2. /\ \A p \in reported : Recorded(p, table')
        /\ \A e \in total.fetched : Recorded(PunchOf[e], table')
    BY <1>0, <1>1, <2>1, InsertSafe
  <2>3. CASE FinishRun(total, DeviceCounts(q)) /\ Put(t, Idle)
    <3>1. running' = FALSE /\ reported' = reported \cup {PunchOf[e] : e \in total.fetched}
      BY <2>3 DEF FinishRun
    <3> HIDE DEF total
    <3>2. \A p \in reported' : Recorded(p, table')
      BY <2>2, <3>1
    <3> QED
      BY <1>1, <1>2, <2>3, <3>1, <3>2, TaskStepSafe
  <2>4. CASE /\ \E d \in q.left : Put(t, Reading([q EXCEPT !.total = total], d))
             /\ UNCHANGED <<running, reported>>
    <3> DEFINE n == [q EXCEPT !.total = total]
    <3>1. PICK d \in q.left : Put(t, Reading(n, d))
      BY <2>4
    <3>2. total \in Counts
      BY <1>0, CountsTypes DEF Task
    <3> HIDE DEF total
    <3>3. d \in Devices /\ n \in Task /\ n.total = total
      BY <1>0, <3>2 DEF Task
    <3> HIDE DEF n
    <3>4. RunOK(Reading(n, d), table') /\ Reading(n, d).pc \notin Resting
      BY <2>2, <3>3, ReadingOK
    <3> QED
      BY <1>1, <2>2, <2>4, <3>1, <3>4, TaskStepSafe
  <2> QED
    BY <1>4, <2>3, <2>4 DEF CommitDone
<1> QED
  BY <1>3, <1>4

LEMMA OtherStepSafe ==
  ASSUME Safe, TypeOK',
         \/ \E e \in Entries : Punch(e)
         \/ \E x \in Updates : (\E body \in Bodies : UpdateSettings(x, body)) \/ Save(x)
         \/ Restart
         \/ UNCHANGED vars
  PROVE  Safe'
<1>1. CASE UNCHANGED <<table, tasks, running, reported>>
  BY <1>1 DEF Safe, OneRun, RunsOK, ReportedIsRecorded, Working
<1>2. CASE Restart
  <2>1. \A t \in Tasks : ~Working(t)' /\ tasks'[t].total.fetched = {}
    BY <1>2 DEF Restart, Working, Idle, NoCounts
  <2> QED
    BY <1>2, <2>1 DEF Restart, Safe, OneRun, RunsOK, ReportedIsRecorded
<1>3. Restart \/ UNCHANGED <<table, tasks, running, reported>>
  BY DEF Punch, UpdateSettings, Save, SaveLoad, SaveCommit, RefreshSchedule, SaveFails, vars, runVars
<1> QED
  BY <1>1, <1>2, <1>3

LEMMA NextSafe == Safe /\ [Next]_vars => Safe'
<1> SUFFICES ASSUME Safe, [Next]_vars PROVE Safe'
  OBVIOUS
<1>1. TypeOK'
  BY NextType DEF Safe
<1>2. ASSUME NEW t \in Tasks, Step(t) PROVE Safe'
  BY <1>1, <1>2, RunStepSafe, ReadStepSafe, EndStepSafe DEF Step
<1> QED
  BY <1>1, <1>2, RunStepSafe, OtherStepSafe DEF Next

(* At most one run at a time, and the flag says whether there is one.      *)
THEOREM RunsExclusive == Spec => []OneRun
<1>1. Safe => OneRun
  BY DEF Safe
<1> QED
  BY <1>1, InitSafe, NextSafe, PTL DEF Spec

(* No step moves two coroutines, but a restart, which ends them all: with  *)
(* at most one run before and after it, the run has begun, has ended or is *)
(* the same.                                                               *)
LEMMA FlagStep ==
  ASSUME Safe, Safe', [Next]_vars
  PROVE  [Flag!Next]_(Flag!vars)
<1> DEFINE H == {t \in Tasks : Working(t)}
<1>1. \/ \E t \in Tasks : \A w \in Tasks \ {t} : Working(w)' <=> Working(w)
      \/ \A w \in Tasks : ~Working(w)'
      \/ \A w \in Tasks : Working(w)' <=> Working(w)
  <2>1. CASE Restart
    BY <2>1 DEF Restart, Working, Idle
  <2>2. CASE UNCHANGED tasks
    BY <2>2 DEF Working
  <2>3. ASSUME NEW t \in Tasks, NEW q, Put(t, q)
        PROVE  \A w \in Tasks \ {t} : Working(w)' <=> Working(w)
    BY <2>3 DEF Put, Working, Safe, TypeOK
  <2>4. \/ Restart
        \/ UNCHANGED tasks
        \/ \E t \in Tasks : \E q : Put(t, q)
    BY DEF Next, Step, StartManualSync, RunManualSync, RunScheduledJob, RunScheduledSync,
           FetchDone, SerialDone, ScanRecord, Scanned, CommitDone, FailRun, Punch, UpdateSettings,
           Save, SaveLoad, SaveCommit, RefreshSchedule, SaveFails, vars, runVars
  <2> QED
    BY <2>1, <2>2, <2>3, <2>4
<1>2. /\ \A t, w \in Tasks : Working(t) /\ Working(w) => t = w
      /\ running = \E t \in Tasks : Working(t)
  BY DEF Safe, OneRun, TypeOK
<1>3. /\ \A t, w \in Tasks : Working(t)' /\ Working(w)' => t = w
      /\ running' = \E t \in Tasks : Working(t)'
  BY DEF Safe, OneRun, TypeOK
<1>4. CASE H' = H
  BY <1>2, <1>3, <1>4 DEF Flag!vars
<1>5. CASE H' # H
  <2>1. PICK t \in Tasks : Working(t)' # Working(t)
    BY <1>5 DEF Working
  <2>2. CASE Working(t)
    <3>1. H = {t} /\ H' = {}
      BY <1>1, <1>2, <1>3, <2>1, <2>2
    <3> QED
      BY <1>3, <3>1 DEF Flag!Next, Flag!End
  <2>3. CASE ~Working(t)
    <3>1. Working(t)'
      BY <2>1, <2>3 DEF Working
    <3>2. ASSUME NEW w \in Tasks, Working(w) PROVE FALSE
      BY <1>1, <1>3, <2>3, <3>1, <3>2
    <3>3. H = {} /\ H' = {t}
      BY <1>3, <3>1, <3>2
    <3> QED
      BY <1>2, <1>3, <3>1, <3>3 DEF Flag!Next, Flag!Begin
  <2> QED
    BY <2>2, <2>3
<1> QED
  BY <1>4, <1>5

(* The manager implements RunFlag, whatever runs it is asked for.          *)
THEOREM FlagImplemented == Spec => ImplementsRunFlag
<1>1. Init => Flag!Init
  BY DEF Init, Flag!Init, Working, Idle
<1>2. Safe /\ Safe' /\ [Next]_vars => [Flag!Next]_(Flag!vars)
  BY FlagStep
<1> QED
  BY <1>1, <1>2, InitSafe, NextSafe, PTL DEF Spec, ImplementsRunFlag, Flag!Spec

(* What a completed run has fetched is in the table from then on.          *)
THEOREM NothingReportedIsLost == Spec => []ReportedIsRecorded
<1>1. Safe => ReportedIsRecorded
  BY DEF Safe
<1> QED
  BY <1>1, InitSafe, NextSafe, PTL DEF Spec

-----------------------------------------------------------------------------
(* Punches from the logs to the table *)

(* A step of one task keeps FromLog if what the task has read is in the    *)
(* log, which only grows.                                                  *)
LEMMA TaskStepFromLog ==
  ASSUME TypeOK, FromLog, NEW t \in Tasks, NEW q, Put(t, q), log' = log,
         q.todo \cup q.added \cup q.found \cup q.total.fetched \subseteq log
  PROVE  FromLog'
BY DEF TypeOK, FromLog, Put

LEMMA ReadingFromLog ==
  ASSUME NEW q \in Task, NEW d, q.total.fetched \subseteq log
  PROVE  LET n == Reading(q, d) IN n.todo \cup n.added \cup n.found \cup n.total.fetched \subseteq log
BY DEF Reading, Task

LEMMA IdleFromLog ==
  Idle.todo \cup Idle.added \cup Idle.found \cup Idle.total.fetched \subseteq log
BY DEF Idle, NoCounts

LEMMA RunStepFromLog ==
  ASSUME TypeOK, FromLog, NEW t \in Tasks,
         \/ \E d \in Devices, incremental \in BOOLEAN : StartManualSync(t, d, incremental)
         \/ RunScheduledJob(t)
         \/ RunManualSync(t) \/ RunScheduledSync(t)
  PROVE  FromLog'
<1>0. tasks[t] \in Task /\ tasks[t].total.fetched \subseteq log
  BY DEF TypeOK, FromLog
<1>1. ASSUME NEW d \in Devices, NEW incremental \in BOOLEAN, StartManualSync(t, d, incremental)
      PROVE  FromLog'
  <2> DEFINE q == [Idle EXCEPT !.pc = "start", !.incremental = incremental, !.left = {d}]
  <2>1. q.todo \cup q.added \cup q.found \cup q.total.fetched \subseteq log
    BY DEF Idle, NoCounts
  <2>2. Put(t, q) /\ log' = log
    BY <1>1 DEF StartManualSync
  <2> HIDE DEF q
  <2> QED
    BY <2>1, <2>2, TaskStepFromLog
<1>2. CASE RunScheduledJob(t)
  <2> DEFINE q == [Idle EXCEPT !.pc = "load_ips"]
  <2>1. q.todo \cup q.added \cup q.found \cup q.total.fetched \subseteq log
    BY DEF Idle, NoCounts
  <2>2. Put(t, q) /\ log' = log
    BY <1>2 DEF RunScheduledJob
  <2> HIDE DEF q
  <2> QED
    BY <2>1, <2>2, TaskStepFromLog
<1>3. CASE RunManualSync(t)
  <2>1. PICK d \in tasks[t].left : Put(t, Reading(tasks[t], d))
    BY <1>3 DEF RunManualSync
  <2>2. log' = log
    BY <1>3 DEF RunManualSync
  <2> QED
    BY <1>0, <2>1, <2>2, ReadingFromLog, TaskStepFromLog
<1>4. CASE RunScheduledSync(t)
  <2>0. log' = log
    BY <1>4 DEF RunScheduledSync
  <2>1. ASSUME NEW ips \in SUBSET Devices, NEW d \in ips,
               Put(t, Reading([tasks[t] EXCEPT !.left = ips], d))
        PROVE  FromLog'
    <3> DEFINE q == [tasks[t] EXCEPT !.left = ips]
    <3>1. q \in Task /\ q.total.fetched \subseteq log
      BY <1>0 DEF Task
    <3> HIDE DEF q
    <3> QED
      BY <2>0, <2>1, <3>1, ReadingFromLog, TaskStepFromLog DEF q
  <2>2. \/ Put(t, Idle)
        \/ \E ips \in SUBSET Devices : \E d \in ips : Put(t, Reading([tasks[t] EXCEPT !.left = ips], d))
    BY <1>4 DEF RunScheduledSync
  <2> QED
    BY <2>0, <2>1, <2>2, IdleFromLog, TaskStepFromLog
<1> QED
  BY <1>1, <1>2, <1>3, <1>4

LEMMA ReadStepFromLog ==
  ASSUME TypeOK, FromLog, NEW t \in Tasks,
         FetchDone(t) \/ SerialDone(t) \/ \E e \in Entries : ScanRecord(t, e)
  PROVE  FromLog'
<1> DEFINE q == tasks[t]
<1>0. /\ q \in Task /\ log' = log
      /\ q.todo \subseteq log /\ q.added \subseteq log /\ q.found \subseteq log
      /\ q.total.fetched \subseteq log
  BY DEF TypeOK, FromLog, FetchDone, SerialDone, ScanRecord
<1>1. CASE FetchDone(t)
  <2>1. PICK entries \in {{e \in log : DeviceOf[e] = q.device}, {}} :
          Put(t, [q EXCEPT !.pc = "serial", !.todo = entries])
    BY <1>1 DEF FetchDone
  <2> DEFINE n == [q EXCEPT !.pc = "serial", !.todo = entries]
  <2>2. n.todo = entries /\ n.added = q.added /\ n.found = q.found /\ n.total = q.total
    BY <1>0 DEF Task
  <2>3. entries \subseteq log
    BY <2>1
  <2> HIDE DEF n
  <2>4. n.todo \cup n.added \cup n.found \cup n.total.fetched \subseteq log
    BY <1>0, <2>2, <2>3
  <2> QED
    BY <1>0, <2>1, <2>4, TaskStepFromLog DEF n
<1>2. ASSUME NEW n \in Task, Scanned(t, n), n.total = q.total,
             n.todo \cup n.added \cup n.found \subseteq log
      PROVE  FromLog'
  <2>1. ASSUME NEW pc, Put(t, [n EXCEPT !.pc = pc]) PROVE FromLog'
    <3> DEFINE m == [n EXCEPT !.pc = pc]
    <3>1. m.todo = n.todo /\ m.added = n.added /\ m.found = n.found /\ m.total = n.total
      BY <1>2 DEF Task
    <3> HIDE DEF m
    <3>2. m.todo \cup m.added \cup m.found \cup m.total.fetched \subseteq log
      BY <1>0, <1>2, <3>1
    <3> QED
      BY <1>0, <2>1, <3>2, TaskStepFromLog DEF m
  <2> QED
    BY <1>2, <2>1 DEF Scanned
<1>3. CASE SerialDone(t)
  <2>1. PICK sn \in {q.device, None} :
          Scanned(t, IF q.incremental THEN [q EXCEPT !.device_sn = sn]
                     ELSE [q EXCEPT !.device_sn = sn, !.todo = {}, !.added = q.todo])
    BY <1>3 DEF SerialDone
  <2>2. sn \in Serials
    BY <1>0 DEF Task, Serials
  <2> DEFINE n == IF q.incremental THEN [q EXCEPT !.device_sn = sn]
                  ELSE [q EXCEPT !.device_sn = sn, !.todo = {}, !.added = q.todo]
  <2>3. /\ n \in Task /\ n.total = q.total
        /\ n.todo \cup n.added \cup n.found \subseteq q.todo \cup q.added \cup q.found
    BY <1>0, <2>2 DEF Task
  <2>4. Scanned(t, n)
    BY <2>1
  <2> HIDE DEF n
  <2> QED
    BY <1>0, <1>2, <2>3, <2>4
<1>4. ASSUME NEW e \in Entries, ScanRecord(t, e) PROVE FromLog'
  <2> DEFINE a == [q EXCEPT !.todo = @ \ {e}, !.found = @ \cup {e}]
             b == [q EXCEPT !.todo = @ \ {e}, !.added = @ \cup {e}]
  <2>1. e \in q.todo /\ (Scanned(t, a) \/ Scanned(t, b))
    BY <1>4 DEF ScanRecord
  <2>2. /\ a \in Task /\ a.total = q.total
        /\ a.todo = q.todo \ {e} /\ a.added = q.added /\ a.found = q.found \cup {e}
        /\ b \in Task /\ b.total = q.total
        /\ b.todo = q.todo \ {e} /\ b.added = q.added \cup {e} /\ b.found = q.found
    BY <1>0 DEF Task
  <2> HIDE DEF a, b
  <2>3. /\ a.todo \cup a.added \cup a.found \subseteq log
        /\ b.todo \cup b.added \cup b.found \subseteq log
    BY <1>0, <2>1, <2>2
  <2> QED
    BY <1>2, <2>1, <2>2, <2>3
<1> QED
  BY <1>1, <1>3, <1>4

LEMMA EndStepFromLog ==
  ASSUME TypeOK, FromLog, NEW t \in Tasks, CommitDone(t) \/ FailRun(t)
  PROVE  FromLog'
<1> DEFINE q == tasks[t]
           total == Plus(q.total, DeviceCounts(q))
           n == [q EXCEPT !.total = total]
<1>0. /\ q \in Task /\ log' = log
      /\ q.todo \subseteq log /\ q.added \subseteq log /\ q.found \subseteq log
      /\ q.total.fetched \subseteq log
  BY DEF TypeOK, FromLog, CommitDone, FailRun
<1>1. total \in Counts /\ total.fetched \subseteq log
  BY <1>0, CountsTypes DEF Task, Plus, DeviceCounts
<1>2. \/ Put(t, Idle)
      \/ \E d \in q.left : Put(t, Reading(n, d))
  BY DEF CommitDone, FailRun
<1> HIDE DEF total
<1>3. n \in Task /\ n.total.fetched \subseteq log
  BY <1>0, <1>1 DEF Task
<1> HIDE DEF n
<1> QED
  BY <1>0, <1>2, <1>3, IdleFromLog, ReadingFromLog, TaskStepFromLog

LEMMA NextFromLog == TypeOK /\ FromLog /\ [Next]_vars => FromLog'
<1> SUFFICES ASSUME TypeOK, FromLog, [Next]_vars PROVE FromLog'
  OBVIOUS
<1>1. ASSUME NEW t \in Tasks, Step(t) PROVE FromLog'
  BY <1>1, RunStepFromLog, ReadStepFromLog, EndStepFromLog DEF Step
<1>2. CASE Restart
  BY <1>2, IdleFromLog DEF Restart, FromLog
<1>3. CASE tasks' = tasks /\ log \subseteq log'
  BY <1>3 DEF FromLog
<1>4. \/ \E t \in Tasks : \/ \E d \in Devices, incremental \in BOOLEAN : StartManualSync(t, d, incremental)
                          \/ RunScheduledJob(t) \/ Step(t)
      \/ Restart
      \/ tasks' = tasks /\ log \subseteq log'
  BY DEF Next, Punch, UpdateSettings, Save, SaveLoad, SaveCommit, RefreshSchedule, SaveFails, vars, runVars
<1> QED
  BY <1>1, <1>2, <1>3, <1>4, RunStepFromLog

(* The commit of a device's rows records the punches it added, no others. *)
LEMMA InsertRecords ==
  ASSUME TypeOK, NEW q \in Task, Insert(q)
  PROVE  {p \in Punches : Recorded(p, table')} =
           {p \in Punches : Recorded(p, table)} \cup {PunchOf[e] : e \in q.added}
<1>0. table \in [Punches \X Serials -> Nat] /\ q.added \subseteq Entries /\ q.device_sn \in Serials
  BY DEF TypeOK, Task
<1>1. /\ table' \in [Punches \X Serials -> Nat]
      /\ \A k \in Punches \X Serials :
           /\ table'[k] >= table[k]
           /\ table'[k] # table[k] => \E e \in q.added : <<PunchOf[e], q.device_sn>> = k
      /\ \A e \in q.added : table'[<<PunchOf[e], q.device_sn>>] > 0
  BY InsertGrows
<1>2. ASSUME NEW p \in Punches, Recorded(p, table') PROVE Recorded(p, table) \/ p \in {PunchOf[e] : e \in q.added}
  <2>1. PICK sn \in Serials : table'[<<p, sn>>] > 0
    BY <1>2 DEF Recorded
  <2>2. CASE table'[<<p, sn>>] = table[<<p, sn>>]
    BY <2>1, <2>2 DEF Recorded
  <2>3. CASE table'[<<p, sn>>] # table[<<p, sn>>]
    BY <1>1, <2>3
  <2> QED
    BY <2>2, <2>3
<1>3. ASSUME NEW p \in Punches, Recorded(p, table) PROVE Recorded(p, table')
  <2>1. PICK sn \in Serials : table[<<p, sn>>] > 0
    BY <1>3 DEF Recorded
  <2>2. table'[<<p, sn>>] > 0
    BY <1>0, <1>1, <2>1
  <2> QED
    BY <2>2 DEF Recorded
<1>4. ASSUME NEW e \in q.added PROVE PunchOf[e] \in Punches /\ Recorded(PunchOf[e], table')
  BY <1>0, <1>1, AttendanceSyncAssumption DEF Recorded
<1> QED
  BY <1>2, <1>3, <1>4

(* Only the end of a device's part of a run writes to the table or ends a  *)
(* run that reports; all other steps leave table and report alone.         *)
LEMMA TransferStep ==
  ASSUME Safe, FromLog, [Next]_vars
  PROVE  [Transfer!Next]_(Transfer!vars)
<1> DEFINE said(l) == {PunchOf[e] : e \in l}
           rows(tb) == {p \in Punches : Recorded(p, tb)}
<1>0. TypeOK /\ running \in BOOLEAN /\ log \subseteq Entries
  BY DEF Safe, TypeOK
<1>1. ASSUME NEW e \in Entries, Punch(e) PROVE Transfer!Next
  <2>1. said(log') = said(log) \cup {PunchOf[e]} /\ PunchOf[e] \in Punches
    BY <1>1, AttendanceSyncAssumption DEF Punch
  <2>2. UNCHANGED <<running, table, reported>>
    BY <1>1 DEF Punch, runVars
  <2> QED
    BY <2>1, <2>2 DEF Transfer!Next, Transfer!Punch
<1>2. CASE UNCHANGED <<log, table, reported>> /\ ~running /\ running'
  BY <1>2 DEF Transfer!Next, Transfer!Begin
<1>3. CASE UNCHANGED <<log, table, reported, running>>
  BY <1>3 DEF Transfer!vars
<1>4. CASE UNCHANGED <<log, table, reported>> /\ running /\ running' = FALSE
  <2>1. Transfer!End({}, {})
    BY <1>4 DEF Transfer!End
  <2> QED
    BY <2>1 DEF Transfer!Next
<1>5. ASSUME NEW t \in Tasks, tasks[t].pc = "commit", Insert(tasks[t]),
             CommitDone(t) \/ FailRun(t)
      PROVE  Transfer!Next
  <2> DEFINE q == tasks[t]
             S == said(q.added)
             total == Plus(q.total, DeviceCounts(q))
             R == said(total.fetched)
  <2>1. Working(t) /\ q \in Task
    BY <1>0, <1>5 DEF Working, TypeOK
  <2>2. running = TRUE /\ RunOK(q, table)
    BY <2>1, RunKnows
  <2>3. log' = log /\ S \subseteq said(log)
    BY <1>5 DEF CommitDone, FailRun, FromLog
  <2>4. rows(table') = rows(table) \cup S
    BY <1>0, <1>5, <2>1, InsertRecords
  <2>5. R \subseteq rows(table')
    <3>1. total \in Counts
      BY <2>1, CountsTypes DEF Task
    <3>2. \A e \in total.fetched : PunchOf[e] \in Punches /\ Recorded(PunchOf[e], table')
      BY <1>5, <2>1, <2>2, <3>1, InsertSafe, AttendanceSyncAssumption DEF Counts
    <3> QED
      BY <3>2
  <2>6. \/ running' = running /\ reported' = reported
        \/ running' = FALSE /\ reported' = reported \cup R
        \/ running' = FALSE /\ reported' = reported
    BY <1>5 DEF CommitDone, FailRun, FinishRun
  <2> HIDE DEF S, R
  <2>7. CASE running' = running /\ reported' = reported
    <3>1. Transfer!Record(S)
      BY <2>2, <2>3, <2>4, <2>7 DEF Transfer!Record
    <3> QED
      BY <2>3, <3>1 DEF Transfer!Next
  <2>8. CASE running' = FALSE /\ reported' = reported \cup R
    <3>1. Transfer!End(S, R)
      BY <2>2, <2>3, <2>4, <2>5, <2>8 DEF Transfer!End
    <3>2. R \in SUBSET (rows(table) \cup S)
      BY <2>4, <2>5
    <3> QED
      BY <2>3, <3>1, <3>2 DEF Transfer!Next
  <2>9. CASE running' = FALSE /\ reported' = reported
    <3>1. Transfer!End(S, {})
      BY <2>2, <2>3, <2>4, <2>9 DEF Transfer!End
    <3> QED
      BY <2>3, <3>1 DEF Transfer!Next
  <2> QED
    BY <2>6, <2>7, <2>8, <2>9
<1>6. ASSUME NEW t \in Tasks, FailRun(t) PROVE UNCHANGED <<log, table, reported>> \/ (tasks[t].pc = "commit" /\ Insert(tasks[t]))
  BY <1>6 DEF FailRun
<1>7. \/ \E e \in Entries : Punch(e)
      \/ \E t \in Tasks : tasks[t].pc = "commit" /\ Insert(tasks[t]) /\ (CommitDone(t) \/ FailRun(t))
      \/ UNCHANGED <<log, table, reported>> /\ (running' = running \/ (~running /\ running'))
      \/ UNCHANGED <<log, table, reported>> /\ running' = FALSE
  BY <1>6 DEF Next, Step, StartManualSync, RunManualSync, RunScheduledJob, RunScheduledSync, BeginRun,
         FetchDone, SerialDone, ScanRecord, CommitDone, FailRun, UpdateSettings,
         Save, SaveLoad, SaveCommit, RefreshSchedule, SaveFails, Restart, vars, runVars
<1> QED
  BY <1>0, <1>1, <1>2, <1>3, <1>4, <1>5, <1>7

(* Punches get to the table in runs alone and stay there, and completed    *)
(* runs report none that is not there, for any devices, logs and failures. *)
THEOREM TransferImplemented == Spec => ImplementsPunchTransfer
<1>1. Init => Transfer!Init /\ FromLog
  <2> SUFFICES ASSUME Init PROVE Transfer!Init /\ FromLog
    OBVIOUS
  <2>1. ASSUME NEW p \in Punches PROVE ~Recorded(p, table)
    <3>1. \A sn \in Serials : <<p, sn>> \in Punches \X Serials
      OBVIOUS
    <3>2. \A sn \in Serials : table[<<p, sn>>] = 0
      BY <3>1 DEF Init
    <3>3. \A sn \in Serials : ~(table[<<p, sn>>] > 0)
      BY <3>2
    <3> QED
      BY <3>3 DEF Recorded
  <2>2. {PunchOf[e] : e \in log} \subseteq Punches
    BY AttendanceSyncAssumption DEF Init
  <2>3. Transfer!Init
    BY <2>1, <2>2 DEF Init, Transfer!Init
  <2> QED
    BY <2>3, IdleFromLog DEF Init, FromLog
<1>2. Safe /\ FromLog /\ [Next]_vars => FromLog' /\ [Transfer!Next]_(Transfer!vars)
  BY NextFromLog, TransferStep DEF Safe
<1> QED
  BY <1>1, <1>2, InitSafe, NextSafe, PTL DEF Spec, ImplementsPunchTransfer, Transfer!Spec

(* What PunchTransfer promises: a reported punch is in the table, and one  *)
(* in the table was made at a terminal, here in the words of the manager.  *)
THEOREM TransferInOrder == Spec => []Transfer!InOrder
<1>1. Transfer!Init => Transfer!InOrder
  BY DEF Transfer!Init, Transfer!InOrder
<1>2. ASSUME Transfer!InOrder, [Transfer!Next]_(Transfer!vars) PROVE Transfer!InOrder'
  <2> DEFINE said == {PunchOf[e] : e \in log}
             rows == {p \in Punches : Recorded(p, table)}
  <2>0. said \subseteq Punches /\ rows \subseteq said /\ reported \subseteq rows
    BY <1>2 DEF Transfer!InOrder
  <2>1. \/ \E p \in Punches : said' = said \cup {p} /\ UNCHANGED <<rows, reported>>
        \/ UNCHANGED <<said, rows, reported>>
        \/ \E S \in SUBSET said : rows' = rows \cup S /\ UNCHANGED <<said, reported>>
        \/ \E S \in SUBSET said, R \in SUBSET rows' :
              rows' = rows \cup S /\ reported' = reported \cup R /\ UNCHANGED said
    BY <1>2 DEF Transfer!Next, Transfer!vars, Transfer!Punch, Transfer!Begin, Transfer!Record, Transfer!End
  <2> HIDE DEF said, rows
  <2>2. said' \subseteq Punches /\ rows' \subseteq said' /\ reported' \subseteq rows'
    BY <2>0, <2>1
  <2> QED
    BY <2>2 DEF Transfer!InOrder, said, rows
<1> QED
  BY <1>1, <1>2, TransferImplemented, PTL DEF ImplementsPunchTransfer, Transfer!Spec

-----------------------------------------------------------------------------
(* Only a full run inserts a row beside one that is there.                 *)
THEOREM IncrementalIsIncremental == Spec => IncrementalAddsOnlyNew
<1> DEFINE A == \A k \in Punches \X Serials :
                  table'[k] # table[k] =>
                    \/ table[k] = 0
                    \/ \E t \in Tasks : tasks[t].pc = "commit" /\ ~tasks[t].incremental
<1>1. ASSUME Safe, [Next]_vars PROVE A
  <2>1. ASSUME NEW t \in Tasks, tasks[t].pc = "commit", Insert(tasks[t])
        PROVE  A
    <3>1. Working(t)
      BY <2>1 DEF Working
    <3>2. tasks[t] \in Task /\ RunOK(tasks[t], table)
      BY <1>1, <3>1, RunKnows DEF Safe, TypeOK
    <3>3. ASSUME NEW k \in Punches \X Serials, table'[k] # table[k]
          PROVE  \E e \in tasks[t].added : <<PunchOf[e], tasks[t].device_sn>> = k
      BY <1>1, <2>1, <3>2, <3>3, InsertGrows DEF Safe
    <3> QED
      BY <2>1, <3>2, <3>3 DEF RunOK
  <2>2. \/ UNCHANGED table
        \/ \E t \in Tasks : tasks[t].pc = "commit" /\ Insert(tasks[t])
    BY <1>1 DEF Next, Step, StartManualSync, RunManualSync, RunScheduledJob, RunScheduledSync,
                FetchDone, SerialDone, ScanRecord, CommitDone, FailRun, Punch, UpdateSettings,
                Save, SaveLoad, SaveCommit, RefreshSchedule, SaveFails, Restart, vars
  <2>3. CASE UNCHANGED table
    BY <2>3
  <2> QED
    BY <2>1, <2>2, <2>3
<1>2. Safe /\ [Next]_vars => [A]_vars
  BY <1>1
<1> QED
  BY <1>2, InitSafe, NextSafe, PTL DEF Spec, IncrementalAddsOnlyNew

-----------------------------------------------------------------------------
(* What a completed run shows *)

LEMMA InitCounts == Init => CountsOK
BY DEF Init, CountsOK, CompletedCounts, Working, Idle

(* A step of task t keeps the counts right if the run it leaves counts     *)
(* what it inserted, or, at rest, has shown as completed what it inserted. *)
LEMMA TaskStepCounts ==
  ASSUME Safe, CountsOK, NEW t \in Tasks, NEW q, Put(t, q),
         q.pc \notin Resting => /\ RunCounts(q) /\ inserted' = q.total.synced
                                /\ status'.stage # "completed"
                                /\ Working(t) \/ ~running,
         q.pc \in Resting => /\ q.total = NoCounts
                             /\ \/ Working(t) /\ CompletedCounts'
                                \/ UNCHANGED <<status, inserted>>
  PROVE  CountsOK'
<1>1. tasks' = [tasks EXCEPT ![t] = q] /\ tasks \in [Tasks -> Task]
  BY DEF Put, Safe, TypeOK
<1>2. tasks'[t] = q /\ (Working(t)' <=> q.pc \notin Resting)
  BY <1>1 DEF Working, Resting
<1>3. ASSUME NEW w \in Tasks, w # t PROVE tasks'[w] = tasks[w] /\ (Working(w)' <=> Working(w))
  BY <1>1, <1>3 DEF Working
<1>4. \A w \in Tasks : w # t /\ Working(w) => ~Working(t) /\ running
  BY DEF Safe, OneRun
<1>5. CASE q.pc \notin Resting
  <2>1. \A w \in Tasks : w # t => ~Working(w)' /\ tasks'[w].total = NoCounts
    BY <1>3, <1>4, <1>5 DEF CountsOK
  <2>2. CompletedCounts'
    BY <1>5 DEF CompletedCounts
  <2> QED
    BY <1>2, <1>5, <2>1, <2>2 DEF CountsOK
<1>6. CASE q.pc \in Resting /\ Working(t) /\ CompletedCounts'
  BY <1>2, <1>3, <1>4, <1>6 DEF CountsOK
<1>7. CASE q.pc \in Resting /\ UNCHANGED <<status, inserted>>
  BY <1>2, <1>3, <1>7 DEF CountsOK, CompletedCounts
<1> QED
  BY <1>5, <1>6, <1>7

(* A run that goes on to one of the devices left has counted none of its   *)
(* entries.                                                                *)
LEMMA ReadingCounts ==
  ASSUME NEW q \in Task, NEW d \in q.left,
         \A e \in q.total.fetched : DeviceOf[e] \notin q.left,
         q.total.fetched = q.total.synced \cup q.total.duplicate,
         q.total.synced \cap q.total.duplicate = {}
  PROVE  RunCounts(Reading(q, d)) /\ Reading(q, d).pc \notin Resting /\ Reading(q, d).total = q.total
<1>1. /\ Reading(q, d).device = d /\ Reading(q, d).left = q.left \ {d}
      /\ Reading(q, d).todo = {} /\ Reading(q, d).added = {} /\ Reading(q, d).found = {}
      /\ Reading(q, d).total = q.total /\ Reading(q, d).pc = "fetch"
  BY DEF Reading, Task
<1> QED
  BY <1>1 DEF RunCounts, Resting

LEMMA RunStepCounts ==
  ASSUME Safe, CountsOK, NEW t \in Tasks,
         \/ \E d \in Devices, incremental \in BOOLEAN : StartManualSync(t, d, incremental)
         \/ RunScheduledJob(t)
         \/ RunManualSync(t) \/ RunScheduledSync(t)
  PROVE  CountsOK'
<1>0. tasks[t] \in Task /\ status \in [stage : Stages, counts : Counts]
  BY DEF Safe, TypeOK
<1>1. ASSUME NEW d \in Devices, NEW incremental \in BOOLEAN, StartManualSync(t, d, incremental)
      PROVE  CountsOK'
  <2> DEFINE q == [Idle EXCEPT !.pc = "start", !.incremental = incremental, !.left = {d}]
  <2>1. RunCounts(q) /\ q.pc \notin Resting /\ q.total.synced = {}
    BY AttendanceSyncAssumption DEF Idle, NoCounts, RunCounts, Resting
  <2>2. Put(t, q) /\ ~running /\ inserted' = {} /\ status'.stage = "starting"
    BY <1>1 DEF StartManualSync, BeginRun
  <2> HIDE DEF q
  <2> QED
    BY <2>1, <2>2, TaskStepCounts
<1>2. CASE RunScheduledJob(t)
  <2> DEFINE q == [Idle EXCEPT !.pc = "load_ips"]
  <2>1. q.pc \in Resting /\ q.total = NoCounts
    BY DEF Idle, Resting
  <2>2. Put(t, q) /\ UNCHANGED <<status, inserted>>
    BY <1>2 DEF RunScheduledJob
  <2> HIDE DEF q
  <2> QED
    BY <2>1, <2>2, TaskStepCounts
<1>3. CASE RunManualSync(t)
  <2>1. PICK d \in tasks[t].left : Put(t, Reading(tasks[t], d))
    BY <1>3 DEF RunManualSync
  <2>2. Working(t) /\ inserted' = inserted
    BY <1>3 DEF RunManualSync, Working
  <2>3. status'.stage = "fetching"
    BY <1>0, <1>3 DEF RunManualSync, Stage
  <2>4. RunCounts(tasks[t]) /\ inserted = tasks[t].total.synced
    BY <2>2 DEF CountsOK
  <2>5. /\ RunCounts(Reading(tasks[t], d)) /\ Reading(tasks[t], d).pc \notin Resting
        /\ Reading(tasks[t], d).total = tasks[t].total
    BY <1>0, <2>4, ReadingCounts DEF RunCounts
  <2> QED
    BY <2>1, <2>2, <2>3, <2>4, <2>5, TaskStepCounts
<1>4. CASE RunScheduledSync(t)
  <2>0. ~Working(t) /\ tasks[t].total = NoCounts
    BY <1>4 DEF RunScheduledSync, Working, CountsOK
  <2>1. CASE Put(t, Idle) /\ UNCHANGED <<running, status, inserted>>
    BY <2>1, TaskStepCounts DEF Idle, Resting
  <2>2. ASSUME NEW ips \in SUBSET Devices, NEW d \in ips, BeginRun("fetching"),
               Put(t, Reading([tasks[t] EXCEPT !.left = ips], d))
        PROVE  CountsOK'
    <3> DEFINE q == [tasks[t] EXCEPT !.left = ips]
    <3>1. q \in Task /\ q.left = ips /\ q.total = NoCounts
      BY <1>0, <2>0 DEF Task
    <3>2. Put(t, Reading(q, d))
      BY <2>2
    <3> HIDE DEF q
    <3>3. /\ RunCounts(Reading(q, d)) /\ Reading(q, d).pc \notin Resting
          /\ Reading(q, d).total.synced = {}
      BY <3>1, ReadingCounts DEF NoCounts
    <3>4. ~running /\ inserted' = {} /\ status'.stage = "fetching"
      BY <2>2 DEF BeginRun
    <3> QED
      BY <3>2, <3>3, <3>4, TaskStepCounts
  <2>3. \/ Put(t, Idle) /\ UNCHANGED <<running, status, inserted>>
        \/ \E ips \in SUBSET Devices : \E d \in ips :
             BeginRun("fetching") /\ Put(t, Reading([tasks[t] EXCEPT !.left = ips], d))
    BY <1>4 DEF RunScheduledSync
  <2> QED
    BY <2>1, <2>2, <2>3
<1> QED
  BY <1>1, <1>2, <1>3, <1>4

LEMMA ReadStepCounts ==
  ASSUME Safe, CountsOK, NEW t \in Tasks,
         FetchDone(t) \/ SerialDone(t) \/ \E e \in Entries : ScanRecord(t, e)
  PROVE  CountsOK'
<1> DEFINE q == tasks[t]
<1>0. q \in Task /\ status \in [stage : Stages, counts : Counts] /\ log \subseteq Entries
  BY DEF Safe, TypeOK
<1>1. Working(t) /\ inserted' = inserted
  BY DEF FetchDone, SerialDone, ScanRecord, Working
<1>2. /\ RunCounts(q) /\ inserted = q.total.synced /\ status.stage # "completed"
      /\ RunOK(q, table)
  BY <1>1, RunKnows DEF CountsOK
<1>3. CASE FetchDone(t)
  <2>1. PICK entries \in {{e \in log : DeviceOf[e] = q.device}, {}} :
          /\ Put(t, [q EXCEPT !.pc = "serial", !.todo = entries])
          /\ status' = [status EXCEPT !.stage = "processing", !.counts.fetched = entries]
    BY <1>3 DEF FetchDone
  <2> DEFINE n == [q EXCEPT !.pc = "serial", !.todo = entries]
  <2>2. /\ n.pc = "serial" /\ n.todo = entries /\ n.added = q.added /\ n.found = q.found
        /\ n.total = q.total /\ n.device = q.device /\ n.left = q.left
    BY <1>0 DEF Task
  <2>3. q.added = {} /\ q.found = {} /\ \A e \in entries : DeviceOf[e] = q.device
    BY <1>2, <1>3 DEF RunOK, FetchDone
  <2>4. status'.stage = "processing"
    BY <1>0, <2>1
  <2>5. Put(t, n)
    BY <2>1
  <2> HIDE DEF n
  <2>6. RunCounts(n) /\ n.pc \notin Resting
    BY <1>2, <2>2, <2>3 DEF RunCounts, Resting
  <2> QED
    BY <1>1, <1>2, <2>2, <2>4, <2>5, <2>6, TaskStepCounts
<1>4. ASSUME NEW n \in Task, Scanned(t, n), RunCounts(n), n.total = q.total
      PROVE  CountsOK'
  <2>1. ASSUME NEW pc \in {"commit", "scan"}
        PROVE  LET m == [n EXCEPT !.pc = pc]
               IN RunCounts(m) /\ m.pc \notin Resting /\ m.total = q.total
    <3> DEFINE m == [n EXCEPT !.pc = pc]
    <3>1. /\ m.pc = pc /\ m.todo = n.todo /\ m.added = n.added /\ m.found = n.found
          /\ m.total = n.total /\ m.device = n.device /\ m.left = n.left
      BY <1>4 DEF Task
    <3> HIDE DEF m
    <3>2. RunCounts(m) /\ m.pc \notin Resting /\ m.total = q.total
      BY <1>4, <2>1, <3>1 DEF RunCounts, Resting
    <3> QED
      BY <3>2 DEF m
  <2>2. PICK pc \in {"commit", "scan"} :
          Put(t, [n EXCEPT !.pc = pc]) /\ status'.stage # "completed"
    BY <1>2, <1>4 DEF Scanned
  <2> QED
    BY <1>1, <1>2, <2>1, <2>2, TaskStepCounts
<1>5. CASE SerialDone(t)
  <2>1. PICK sn \in {q.device, None} :
          Scanned(t, IF q.incremental THEN [q EXCEPT !.device_sn = sn]
                     ELSE [q EXCEPT !.device_sn = sn, !.todo = {}, !.added = q.todo])
    BY <1>5 DEF SerialDone
  <2>2. sn \in Serials /\ q.added = {} /\ q.found = {}
    BY <1>0, <1>2, <1>5 DEF Task, Serials, RunOK, SerialDone
  <2>3. CASE q.incremental
    <3> DEFINE n == [q EXCEPT !.device_sn = sn]
    <3>1. /\ n \in Task /\ n.todo = q.todo /\ n.added = q.added /\ n.found = q.found
          /\ n.total = q.total /\ n.device = q.device /\ n.left = q.left
      BY <1>0, <2>2 DEF Task
    <3>2. Scanned(t, n)
      BY <2>1, <2>3
    <3> HIDE DEF n
    <3>3. RunCounts(n)
      BY <1>2, <3>1 DEF RunCounts
    <3> QED
      BY <1>4, <3>1, <3>2, <3>3
  <2>4. CASE ~q.incremental
    <3> DEFINE n == [q EXCEPT !.device_sn = sn, !.todo = {}, !.added = q.todo]
    <3>1. /\ n \in Task /\ n.todo = {} /\ n.added = q.todo /\ n.found = q.found
          /\ n.total = q.total /\ n.device = q.device /\ n.left = q.left
      BY <1>0, <2>2 DEF Task
    <3>2. Scanned(t, n)
      BY <2>1, <2>4
    <3> HIDE DEF n
    <3>3. RunCounts(n)
      BY <1>2, <2>2, <3>1 DEF RunCounts
    <3> QED
      BY <1>4, <3>1, <3>2, <3>3
  <2> QED
    BY <2>3, <2>4
<1>6. CASE \E e \in Entries : ScanRecord(t, e)
  <2>1. PICK e \in Entries : ScanRecord(t, e)
    BY <1>6
  <2> DEFINE a == [q EXCEPT !.todo = @ \ {e}, !.found = @ \cup {e}]
             b == [q EXCEPT !.todo = @ \ {e}, !.added = @ \cup {e}]
  <2>2. /\ a \in Task /\ a.todo = q.todo \ {e} /\ a.found = q.found \cup {e} /\ a.added = q.added
        /\ a.total = q.total /\ a.device = q.device /\ a.left = q.left
    BY <1>0 DEF Task
  <2>3. /\ b \in Task /\ b.todo = q.todo \ {e} /\ b.found = q.found /\ b.added = q.added \cup {e}
        /\ b.total = q.total /\ b.device = q.device /\ b.left = q.left
    BY <1>0 DEF Task
  <2>4. Scanned(t, a) \/ Scanned(t, b)
    BY <2>1 DEF ScanRecord
  <2>5. e \in q.todo
    BY <2>1 DEF ScanRecord
  <2> HIDE DEF a, b
  <2>6. RunCounts(a)
    BY <1>2, <2>2, <2>5 DEF RunCounts
  <2>7. RunCounts(b)
    BY <1>2, <2>3, <2>5 DEF RunCounts
  <2> QED
    BY <1>4, <2>2, <2>3, <2>4, <2>6, <2>7
<1> QED
  BY <1>3, <1>5, <1>6

(* The counts of one more device: none of its entries was counted before. *)
LEMMA PlusCounts ==
  ASSUME NEW q \in Task, RunCounts(q), q.todo = {}
  PROVE  LET total == Plus(q.total, DeviceCounts(q))
         IN /\ total.synced = q.total.synced \cup q.added
            /\ total.fetched = total.synced \cup total.duplicate
            /\ total.synced \cap total.duplicate = {}
            /\ \A e \in total.fetched : DeviceOf[e] \notin q.left
<1> DEFINE total == Plus(q.total, DeviceCounts(q))
<1>1. /\ total.synced = q.total.synced \cup q.added
      /\ total.duplicate = q.total.duplicate \cup q.found
      /\ total.fetched = q.total.fetched \cup q.added \cup q.found
  BY DEF Plus, DeviceCounts
<1> HIDE DEF total
<1>2. \A e \in q.total.fetched : e \notin q.added /\ e \notin q.found
  BY DEF RunCounts
<1>3. total.fetched = total.synced \cup total.duplicate
  BY <1>1 DEF RunCounts
<1>4. total.synced \cap total.duplicate = {}
  BY <1>1, <1>2 DEF RunCounts
<1>5. \A e \in total.fetched : DeviceOf[e] \notin q.left
  BY <1>1 DEF RunCounts
<1> QED
  BY <1>1, <1>3, <1>4, <1>5 DEF total

LEMMA EndStepCounts ==
  ASSUME Safe, CountsOK, NEW t \in Tasks, CommitDone(t) \/ FailRun(t)
  PROVE  CountsOK'
<1> DEFINE q == tasks[t]
           total == Plus(q.total, DeviceCounts(q))
<1>0. q \in Task /\ status \in [stage : Stages, counts : Counts]
  BY DEF Safe, TypeOK
<1>1. Working(t)
  BY DEF CommitDone, FailRun, Working
<1>2. RunCounts(q) /\ inserted = q.total.synced /\ RunOK(q, table)
  BY <1>1, RunKnows DEF CountsOK
<1>3. Idle.pc \in Resting /\ Idle.total = NoCounts
  BY DEF Idle, Resting
<1>4. CASE FailRun(t)
  <2>1. Put(t, Idle) /\ status'.stage = "failed"
    BY <1>0, <1>4 DEF FailRun, Stage
  <2>2. CompletedCounts'
    BY <2>1 DEF CompletedCounts
  <2> QED
    BY <1>1, <1>3, <2>1, <2>2, TaskStepCounts
<1>5. CASE CommitDone(t)
  <2>1. q.pc = "commit" /\ inserted' = inserted \cup q.added
    BY <1>5 DEF CommitDone, Insert
  <2>2. q.todo = {}
    BY <1>2, <2>1 DEF RunOK
  <2>3. /\ inserted' = total.synced
        /\ total.fetched = total.synced \cup total.duplicate
        /\ total.synced \cap total.duplicate = {}
        /\ \A e \in total.fetched : DeviceOf[e] \notin q.left
    BY <1>0, <1>2, <2>1, <2>2, PlusCounts
  <2>4. CASE FinishRun(total, DeviceCounts(q)) /\ Put(t, Idle)
    <3>1. status'.counts = total
      BY <2>4 DEF FinishRun
    <3> HIDE DEF total
    <3>2. CompletedCounts'
      BY <2>3, <3>1 DEF CompletedCounts
    <3> QED
      BY <1>1, <1>3, <2>4, <3>2, TaskStepCounts
  <2>5. CASE (\E d \in q.left : Put(t, Reading([q EXCEPT !.total = total], d))) /\ Stage("fetching")
    <3> DEFINE n == [q EXCEPT !.total = total]
    <3>1. PICK d \in q.left : Put(t, Reading(n, d))
      BY <2>5
    <3>2. total \in Counts
      BY <1>0, CountsTypes DEF Task
    <3>3. status'.stage = "fetching"
      BY <1>0, <2>5 DEF Stage
    <3> HIDE DEF total
    <3>4. n \in Task /\ n.total = total /\ n.left = q.left
      BY <1>0, <3>2 DEF Task
    <3> HIDE DEF n
    <3>5. /\ RunCounts(Reading(n, d)) /\ Reading(n, d).pc \notin Resting
          /\ Reading(n, d).total = total
      BY <2>3, <3>1, <3>4, ReadingCounts
    <3> QED
      BY <1>1, <2>3, <3>1, <3>3, <3>5, TaskStepCounts
  <2> QED
    BY <1>5, <2>4, <2>5 DEF CommitDone
<1> QED
  BY <1>4, <1>5

LEMMA NextCounts == Safe /\ CountsOK /\ [Next]_vars => CountsOK'
<1> SUFFICES ASSUME Safe, CountsOK, [Next]_vars PROVE CountsOK'
  OBVIOUS
<1>1. ASSUME NEW t \in Tasks, Step(t) PROVE CountsOK'
  BY <1>1, RunStepCounts, ReadStepCounts, EndStepCounts DEF Step
<1>2. CASE UNCHANGED <<tasks, status, inserted>>
  BY <1>2 DEF CountsOK, CompletedCounts, Working
<1>3. CASE Restart
  BY <1>3 DEF Restart, CountsOK, CompletedCounts, Working, Idle
<1>4. CASE \E e \in Entries : Punch(e)
  BY <1>2, <1>4 DEF Punch, runVars
<1>5. ASSUME NEW x \in Updates, (\E body \in Bodies : UpdateSettings(x, body)) \/ Save(x)
      PROVE  CountsOK'
  BY <1>2, <1>5 DEF UpdateSettings, Save, SaveLoad, SaveCommit, RefreshSchedule, SaveFails, runVars
<1>6. CASE UNCHANGED vars
  BY <1>2, <1>6 DEF vars, runVars
<1> QED
  BY <1>1, <1>3, <1>4, <1>5, <1>6, RunStepCounts DEF Next

(* A completed run shows what it inserted, each entry it fetched once.     *)
THEOREM CountsRight == Spec => []CompletedCounts
<1>1. CountsOK => CompletedCounts
  BY DEF CountsOK
<1> QED
  BY <1>1, InitSafe, NextSafe, InitCounts, NextCounts, PTL DEF Spec

-----------------------------------------------------------------------------
(* However overlapping changes of the settings are saved, the last one to  *)
(* be saved leaves the daily run that the settings ask for.                *)
THEOREM ScheduleRight == Spec => []ScheduleFollowsSettings
<1>1. Init => ScheduleFollowsSettings
  BY DEF Init, ScheduleFollowsSettings
<1>2. ASSUME TypeOK, ScheduleFollowsSettings, [Next]_vars
      PROVE  ScheduleFollowsSettings'
  <2>1. CASE UNCHANGED settingsVars
    BY <1>2, <2>1 DEF ScheduleFollowsSettings, settingsVars, DailyRun
  <2>2. ASSUME NEW x \in Updates, NEW body \in Bodies, UpdateSettings(x, body)
        PROVE  ScheduleFollowsSettings'
    <3>1. updates'[x].pc = "load"
      BY <1>2, <2>2 DEF UpdateSettings, TypeOK, NoUpdate
    <3> QED
      BY <3>1 DEF ScheduleFollowsSettings, NoUpdate
  <2>3. ASSUME NEW x \in Updates, SaveLoad(x)
        PROVE  ScheduleFollowsSettings'
    <3>1. updates'[x].pc = "commit"
      BY <1>2, <2>3 DEF SaveLoad, TypeOK
    <3> QED
      BY <3>1 DEF ScheduleFollowsSettings, NoUpdate
  <2>4. ASSUME NEW x \in Updates, SaveCommit(x)
        PROVE  ScheduleFollowsSettings'
    <3>1. updates'[x].pc = "refresh"
      BY <1>2, <2>4 DEF SaveCommit, TypeOK, NoUpdate
    <3> QED
      BY <3>1 DEF ScheduleFollowsSettings, NoUpdate
  <2>8. ASSUME NEW x \in Updates, RefreshSchedule(x)
        PROVE  ScheduleFollowsSettings'
    BY <2>8 DEF RefreshSchedule, ScheduleFollowsSettings, DailyRun
  <2>5. ASSUME NEW x \in Updates, SaveFails(x)
        PROVE  ScheduleFollowsSettings'
    BY <2>5 DEF SaveFails, ScheduleFollowsSettings
  <2>6. CASE Restart
    BY <2>6 DEF Restart, ScheduleFollowsSettings, DailyRun
  <2>7. \/ UNCHANGED settingsVars
        \/ \E x \in Updates : (\E body \in Bodies : UpdateSettings(x, body)) \/ Save(x)
        \/ Restart
    BY <1>2 DEF Next, Step, StartManualSync, RunManualSync, RunScheduledJob, RunScheduledSync,
                FetchDone, SerialDone, ScanRecord, CommitDone, FailRun, Punch, vars
  <2> QED
    BY <2>1, <2>2, <2>3, <2>4, <2>5, <2>6, <2>7, <2>8 DEF Save
<1> QED
  BY <1>1, <1>2, InitType, NextType, PTL DEF Spec
-----------------------------------------------------------------------------
(* What can be said without fairness of RunEnds: a run is never without a  *)
(* next step, and each of its steps takes it forward in an order that has  *)
(* no infinite descent, first by the devices left, then by the await, then *)
(* by the entries left.                                                    *)
CanGoOn(q) ==
  /\ q.pc = "start" => q.left # {}
  /\ q.pc = "scan" => q.todo # {}

RunsCanGoOn == \A t \in Tasks : CanGoOn(tasks[t])

Place == [start |-> 0, fetch |-> 1, serial |-> 2, scan |-> 3, commit |-> 4]

Ahead(q, r) ==
  \/ r.left \subseteq q.left /\ r.left # q.left
  \/ r.left = q.left /\ Place[r.pc] > Place[q.pc]
  \/ r.left = q.left /\ r.pc = q.pc /\ r.todo \subseteq q.todo /\ r.todo # q.todo

RunsGoForward ==
  [][\A t \in Tasks :
       tasks'[t] # tasks[t] /\ Working(t) /\ tasks'[t] # Idle => Ahead(tasks[t], tasks'[t])]_vars

Onward(q, r) == CanGoOn(r) /\ (q.pc \notin {"idle", "load_ips"} => Ahead(q, r))

LEMMA IdleCanGoOn == CanGoOn(Idle)
BY DEF CanGoOn, Idle

LEMMA PutIs ==
  ASSUME TypeOK, NEW t \in Tasks, NEW q, Put(t, q)
  PROVE  tasks'[t] = q /\ \A w \in Tasks : w # t => tasks'[w] = tasks[w]
BY DEF TypeOK, Put

LEMMA ReadingOnward ==
  ASSUME NEW q \in Task, NEW d \in q.left
  PROVE  /\ CanGoOn(Reading(q, d))
         /\ Reading(q, d).left \subseteq q.left /\ Reading(q, d).left # q.left
BY DEF Reading, Task, CanGoOn

LEMMA ScannedOnward ==
  ASSUME TypeOK, NEW t \in Tasks, NEW q \in Task, q.left = tasks[t].left, Scanned(t, q),
         \/ tasks[t].pc = "serial"
         \/ tasks[t].pc = "scan" /\ q.todo \subseteq tasks[t].todo /\ q.todo # tasks[t].todo
  PROVE  Onward(tasks[t], tasks'[t]) /\ \A w \in Tasks : w # t => tasks'[w] = tasks[w]
<1>1. ASSUME NEW pc \in {"scan", "commit"}
      PROVE  LET r == [q EXCEPT !.pc = pc] IN r.pc = pc /\ r.left = q.left /\ r.todo = q.todo
  BY DEF Task
<1>2. Place["serial"] = 2 /\ Place["scan"] = 3 /\ Place["commit"] = 4
  BY DEF Place
<1>3. CASE q.todo = {}
  <2> DEFINE r == [q EXCEPT !.pc = "commit"]
  <2>1. Put(t, r)
    BY <1>3 DEF Scanned
  <2>2. r.pc = "commit" /\ r.left = q.left
    BY <1>1
  <2> HIDE DEF r
  <2>3. tasks'[t] = r /\ \A w \in Tasks : w # t => tasks'[w] = tasks[w]
    BY <2>1, PutIs
  <2>4. Place[r.pc] > Place[tasks[t].pc]
    BY <1>2, <2>2
  <2> QED
    BY <2>2, <2>3, <2>4 DEF Onward, CanGoOn, Ahead
<1>4. CASE q.todo # {}
  <2> DEFINE r == [q EXCEPT !.pc = "scan"]
  <2>1. Put(t, r)
    BY <1>4 DEF Scanned
  <2>2. r.pc = "scan" /\ r.left = q.left /\ r.todo = q.todo
    BY <1>1
  <2> HIDE DEF r
  <2>3. tasks'[t] = r /\ \A w \in Tasks : w # t => tasks'[w] = tasks[w]
    BY <2>1, PutIs
  <2>4. \/ Place[r.pc] > Place[tasks[t].pc]
        \/ r.pc = tasks[t].pc /\ r.todo \subseteq tasks[t].todo /\ r.todo # tasks[t].todo
    BY <1>2, <2>2
  <2>5. CanGoOn(r)
    BY <1>4, <2>2 DEF CanGoOn
  <2> QED
    BY <2>2, <2>3, <2>4, <2>5 DEF Onward, Ahead
<1> QED
  BY <1>3, <1>4

LEMMA StepOnward ==
  ASSUME TypeOK, NEW t \in Tasks, Step(t)
  PROVE  /\ tasks'[t] = Idle \/ Onward(tasks[t], tasks'[t])
         /\ \A w \in Tasks : w # t => tasks'[w] = tasks[w]
<1> DEFINE q == tasks[t]
<1>0. q \in Task
  BY DEF TypeOK
<1>1. CASE RunManualSync(t)
  <2>1. PICK d \in q.left : Put(t, Reading(q, d))
    BY <1>1 DEF RunManualSync
  <2> QED
    BY <1>0, <2>1, ReadingOnward, PutIs DEF Onward, Ahead
<1>2. CASE RunScheduledSync(t)
  <2>1. ASSUME NEW ips \in SUBSET Devices, NEW d \in ips,
               Put(t, Reading([q EXCEPT !.left = ips], d))
        PROVE  /\ Onward(q, tasks'[t])
               /\ \A w \in Tasks : w # t => tasks'[w] = tasks[w]
    <3> DEFINE r == [q EXCEPT !.left = ips]
    <3>1. r \in Task /\ r.left = ips
      BY <1>0 DEF Task
    <3>2. q.pc = "load_ips"
      BY <1>2 DEF RunScheduledSync
    <3> HIDE DEF r
    <3>3. CanGoOn(Reading(r, d))
      BY <2>1, <3>1, ReadingOnward
    <3> QED
      BY <2>1, <3>2, <3>3, PutIs DEF r, Onward
  <2>2. \/ Put(t, Idle)
        \/ \E ips \in SUBSET Devices : \E d \in ips : Put(t, Reading([q EXCEPT !.left = ips], d))
    BY <1>2 DEF RunScheduledSync
  <2> QED
    BY <2>1, <2>2, PutIs
<1>3. CASE FetchDone(t)
  <2>1. PICK entries : Put(t, [q EXCEPT !.pc = "serial", !.todo = entries])
    BY <1>3 DEF FetchDone
  <2> DEFINE r == [q EXCEPT !.pc = "serial", !.todo = entries]
  <2>2. r.pc = "serial" /\ r.left = q.left /\ q.pc = "fetch"
    BY <1>0, <1>3 DEF Task, FetchDone
  <2>3. Put(t, r)
    BY <2>1
  <2> HIDE DEF r
  <2>4. tasks'[t] = r /\ \A w \in Tasks : w # t => tasks'[w] = tasks[w]
    BY <2>3, PutIs
  <2>5. Place["serial"] > Place["fetch"]
    BY DEF Place
  <2>6. Ahead(q, r) /\ CanGoOn(r)
    BY <2>2, <2>5 DEF Ahead, CanGoOn
  <2> QED
    BY <2>4, <2>6 DEF Onward
<1>4. CASE SerialDone(t)
  <2>1. PICK sn \in {q.device, None} :
          Scanned(t, IF q.incremental THEN [q EXCEPT !.device_sn = sn]
                     ELSE [q EXCEPT !.device_sn = sn, !.todo = {}, !.added = q.todo])
    BY <1>4 DEF SerialDone
  <2> DEFINE r == IF q.incremental THEN [q EXCEPT !.device_sn = sn]
                  ELSE [q EXCEPT !.device_sn = sn, !.todo = {}, !.added = q.todo]
  <2>2. r \in Task /\ r.left = q.left
    BY <1>0, <2>1 DEF Task, Serials
  <2>3. Scanned(t, r) /\ q.pc = "serial"
    BY <1>4, <2>1 DEF SerialDone
  <2> HIDE DEF r
  <2> QED
    BY <2>2, <2>3, ScannedOnward
<1>5. ASSUME NEW e \in Entries, ScanRecord(t, e)
      PROVE  /\ Onward(q, tasks'[t])
             /\ \A w \in Tasks : w # t => tasks'[w] = tasks[w]
  <2> DEFINE a == [q EXCEPT !.todo = @ \ {e}, !.found = @ \cup {e}]
             b == [q EXCEPT !.todo = @ \ {e}, !.added = @ \cup {e}]
  <2>1. /\ q.pc = "scan" /\ e \in q.todo
        /\ Scanned(t, a) \/ Scanned(t, b)
    BY <1>5 DEF ScanRecord
  <2>2. /\ a \in Task /\ a.left = q.left /\ a.todo = q.todo \ {e}
        /\ b \in Task /\ b.left = q.left /\ b.todo = q.todo \ {e}
    BY <1>0 DEF Task
  <2> HIDE DEF a, b
  <2> QED
    BY <2>1, <2>2, ScannedOnward
<1>6. CASE CommitDone(t)
  <2> DEFINE r == [q EXCEPT !.total = Plus(q.total, DeviceCounts(q))]
  <2>1. Put(t, Idle) \/ \E d \in q.left : Put(t, Reading(r, d))
    BY <1>6 DEF CommitDone
  <2>2. r \in Task /\ r.left = q.left
    BY <1>0, CountsTypes DEF Task
  <2> HIDE DEF r
  <2> QED
    BY <2>1, <2>2, ReadingOnward, PutIs DEF Onward, Ahead
<1>7. CASE FailRun(t)
  BY <1>7, PutIs DEF FailRun
<1> QED
  BY <1>1, <1>2, <1>3, <1>4, <1>5, <1>6, <1>7 DEF Step

LEMMA NextOnward ==
  ASSUME TypeOK, NEW t \in Tasks, [Next]_vars, tasks'[t] # tasks[t]
  PROVE  tasks'[t] = Idle \/ Onward(tasks[t], tasks'[t])
<1>1. ASSUME NEW w \in Tasks, NEW d \in Devices, NEW incremental \in BOOLEAN,
             StartManualSync(w, d, incremental)
      PROVE  Onward(tasks[t], tasks'[t])
  <2> DEFINE q == [Idle EXCEPT !.pc = "start", !.incremental = incremental, !.left = {d}]
  <2>1. w = t /\ tasks[t].pc = "idle" /\ tasks'[t] = q
    BY <1>1, PutIs DEF StartManualSync, Idle
  <2>2. CanGoOn(q)
    BY DEF CanGoOn, Idle
  <2> QED
    BY <2>1, <2>2 DEF Onward
<1>2. ASSUME NEW w \in Tasks, RunScheduledJob(w) PROVE Onward(tasks[t], tasks'[t])
  <2> DEFINE q == [Idle EXCEPT !.pc = "load_ips"]
  <2>1. w = t /\ tasks[t].pc = "idle" /\ tasks'[t] = q
    BY <1>2, PutIs DEF RunScheduledJob, Idle
  <2>2. CanGoOn(q)
    BY DEF CanGoOn, Idle
  <2> QED
    BY <2>1, <2>2 DEF Onward
<1>3. ASSUME NEW w \in Tasks, Step(w)
      PROVE  tasks'[t] = Idle \/ Onward(tasks[t], tasks'[t])
  BY <1>3, StepOnward
<1>4. CASE Restart
  BY <1>4 DEF Restart
<1>5. \/ \E w \in Tasks : \/ \E d \in Devices, incremental \in BOOLEAN : StartManualSync(w, d, incremental)
                          \/ RunScheduledJob(w) \/ Step(w)
      \/ Restart
  BY DEF Next, Punch, UpdateSettings, Save, SaveLoad, SaveCommit, RefreshSchedule, SaveFails, vars, runVars
<1> QED
  BY <1>1, <1>2, <1>3, <1>4, <1>5

(* A run waits at its start for a device and in the loop for an entry, so  *)
(* the guard of a step of its own holds in every state.                    *)
THEOREM NoRunIsStuck == Spec => []RunsCanGoOn
<1>1. Init => RunsCanGoOn
  BY IdleCanGoOn DEF Init, RunsCanGoOn
<1>2. TypeOK /\ RunsCanGoOn /\ [Next]_vars => RunsCanGoOn'
  BY NextOnward, IdleCanGoOn DEF RunsCanGoOn, Onward
<1> QED
  BY <1>1, <1>2, InitType, NextType, PTL DEF Spec

(* No device is read twice and no entry looked at twice in a run: a step   *)
(* ends it or takes it forward (attendance_sync_manager.py:159-194,        *)
(* attendance.py:25-90).                                                   *)
THEOREM ForwardAlways == Spec => RunsGoForward
<1>1. TypeOK /\ [Next]_vars =>
        [\A t \in Tasks :
           tasks'[t] # tasks[t] /\ Working(t) /\ tasks'[t] # Idle => Ahead(tasks[t], tasks'[t])]_vars
  BY NextOnward DEF Onward, Working
<1> QED
  BY <1>1, InitType, NextType, PTL DEF Spec, RunsGoForward
=============================================================================
