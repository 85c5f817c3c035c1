---------------------------- MODULE Observation ----------------------------
(***************************************************************************)
(* The buffer of one Observation and its backup file (obs.c), through the  *)
(* handlers that reach it: pushes, the administrator's settings, the       *)
(* backup timer, deletion, and a Data Hub that dies and is restarted, when *)
(* nothing but the file is left until the Observation is created anew.     *)
(*                                                                         *)
(* Of the clock only what the code compares is kept: how long ago the last *)
(* backup was, up to LongAgo, which is longer than any period.  A time of  *)
(* last backup of zero is long ago: the device has been up that long.      *)
(***************************************************************************)
EXTENDS Integers, SequencesExt

CONSTANTS
    Types,          \* data types
    Trigger,        \* the type a resource has before it has a value
    Stamps,         \* timestamps that samples are given
    MaxCount,       \* bound: buffer sizes
    Periods,        \* backup periods in seconds, other than zero
    LongAgo,
    None

ASSUME ObservationAssumption ==
    /\ Trigger \in Types
    /\ Stamps \subseteq Nat
    /\ MaxCount \in Nat \ {0}
    /\ LongAgo \in Nat
    /\ Periods \subseteq 1 .. (LongAgo - 1)
    /\ None \notin Int \cup [type : Types, samples : Seq([type : Types, stamp : Stamps])]

VARIABLES
    exists,         \* the Observation exists; its fields follow
    maxCount,
    buffer,         \* the sample list, oldest first
    bufferedType,
    currentType,    \* type of the current value
    backupPeriod,
    age,            \* seconds since the last backup
    timer,          \* seconds until the backup timer expires, or None
    filtered,       \* some filter setting rejects samples
    isConfigChanging,
    updating,       \* IsUpdateInProgress
    stale,          \* timers run that deleted Observations have left behind
    file,           \* the backup file, or None
    pending,        \* history: a sample has been added since the last backup was tried
    covered         \* history: the buffer was backed up, and backups are still enabled

settings == <<maxCount, backupPeriod, filtered>>
data == <<buffer, bufferedType, currentType>>
backup == <<age, timer, file, pending, covered>>
update == <<isConfigChanging, updating>>
vars == <<exists, settings, data, backup, update, stale>>

Samples == [type : Types, stamp : Stamps]
Enabled == exists /\ maxCount > 0 /\ backupPeriod > 0

\* The file's data type code and its records.
BackupFile(t, b) == [type |-> t, samples |-> b]

\* The fields of an Observation just constructed, or of none.
Fresh ==
    /\ backupPeriod' = 0
    /\ age' = LongAgo
    /\ timer' = None
    /\ filtered' = FALSE
    /\ isConfigChanging' = FALSE
    /\ pending' = FALSE
    /\ covered' = FALSE

Empty ==
    /\ maxCount' = 0
    /\ buffer' = <<>>
    /\ bufferedType' = Trigger
    /\ currentType' = Trigger

Init ==
    /\ exists = FALSE
    /\ maxCount = 0
    /\ buffer = <<>>
    /\ bufferedType = Trigger
    /\ currentType = Trigger
    /\ backupPeriod = 0
    /\ age = LongAgo
    /\ timer = None
    /\ filtered = FALSE
    /\ isConfigChanging = FALSE
    /\ updating = FALSE
    /\ stale = FALSE
    /\ file = None
    /\ pending = FALSE
    /\ covered = FALSE

-----------------------------------------------------------------------------
(* The buffer *)

\* A sample older than the newest is dropped.
AddToBuffer(b, s) ==
    IF b # <<>> /\ Last(b).stamp > s.stamp THEN b ELSE Append(b, s)

TruncateBuffer(b, n) == IF Len(b) > n THEN SubSeq(b, Len(b) - n + 1, Len(b)) ELSE b

-----------------------------------------------------------------------------
(* Backups *)

\* b is written to the file, under the type code of the current value, which need
\* not be that of the records (a sample may be buffered and then filtered), or that
\* fails, at any of a dozen places: the time of last backup is now all the same.
\* Mutant: the newest sample is left out.
BackupButNewest(b) ==
    /\ timer' = None
    /\ age' = 0
    /\ file' = BackupFile(currentType, IF b = <<>> THEN b ELSE Front(b))
    /\ pending' = FALSE
    /\ covered' = Enabled
Backup(b) ==
    /\ timer' = None
    /\ age' = 0
    /\ pending' = FALSE
    /\ \/ file' = BackupFile(currentType, b) /\ covered' = Enabled
       \/ covered' = FALSE /\ UNCHANGED file

\* The timer is deleted, and so is the file.
DisableBackups ==
    /\ timer' = None
    /\ age' = LongAgo
    /\ file' = None
    /\ pending' = FALSE
    /\ covered' = FALSE

\* A sample was added to the buffer, which is b now.
\* Mutant: a backup that is not overdue gets no timer.
BackupOrNothing(b) ==
    IF age >= backupPeriod THEN Backup(b)
    ELSE pending' = TRUE /\ UNCHANGED <<age, timer, file, covered>>
BackupInTime(b) ==
    IF age >= backupPeriod THEN Backup(b)
    ELSE /\ timer' = IF timer = None THEN backupPeriod - age ELSE timer
         /\ pending' = TRUE
         /\ UNCHANGED <<age, file, covered>>

\* res_Push and obs_ProcessAccepted: the sample is buffered, then filtered, then
\* suspended, and only what is left becomes the current value.
\* Mutant: samples of another type stay in the buffer.
KeptWhatever(t) == buffer
Kept(t) == IF bufferedType = t THEN buffer ELSE <<>>

res_Push(t, s, passes) ==
    /\ exists
    /\ passes \/ filtered
    /\ IF maxCount > 0
       THEN /\ buffer' = TruncateBuffer(AddToBuffer(Kept(t), [type |-> t, stamp |-> s]), maxCount)
            /\ bufferedType' = t
            /\ IF backupPeriod > 0 THEN BackupInTime(buffer') ELSE UNCHANGED backup
       ELSE UNCHANGED <<buffer, bufferedType, backup>>
    /\ currentType' = IF passes /\ ~isConfigChanging THEN t ELSE currentType
    /\ UNCHANGED <<exists, settings, update, stale>>

BackupTimerExpired ==
    /\ timer = 0
    /\ Backup(buffer)
    /\ UNCHANGED <<exists, settings, data, update, stale>>

-----------------------------------------------------------------------------
(* The administrator *)

obs_SetBufferMaxCount(n) ==
    /\ exists
    /\ n # maxCount
    /\ maxCount' = n
    /\ buffer' = TruncateBuffer(buffer, n)
    /\ IF n = 0 /\ backupPeriod > 0 THEN DisableBackups ELSE UNCHANGED backup
    /\ UNCHANGED <<exists, backupPeriod, filtered, bufferedType, currentType, update, stale>>

\* The timer runs for something in the buffer: it is given the new period.
\* Mutant: it is left stopped until the next sample.
StopTimer(p) == timer' = None /\ UNCHANGED <<age, file, pending, covered>>
CorrectTimer(p) ==
    IF age > p THEN Backup(buffer)
    ELSE timer' = p - age /\ UNCHANGED <<age, file, pending, covered>>

obs_SetBufferBackupPeriod(p) ==
    /\ exists
    /\ p # backupPeriod
    /\ backupPeriod' = p
    /\ IF maxCount > 0 /\ p = 0 THEN DisableBackups
       ELSE IF maxCount > 0 /\ buffer # <<>> /\ backupPeriod # 0 /\ timer # None THEN CorrectTimer(p)
       ELSE UNCHANGED backup
    /\ UNCHANGED <<exists, maxCount, filtered, data, update, stale>>

res_SetTransform(none) ==
    /\ exists
    /\ maxCount' = IF ~none /\ maxCount = 0 THEN 1 ELSE maxCount
    /\ buffer' = <<>>
    /\ isConfigChanging' = (isConfigChanging \/ updating)
    /\ UNCHANGED <<exists, backupPeriod, filtered, bufferedType, currentType, backup, updating, stale>>

\* Any of the limits, the deadband, the change-by and the minimum period.
res_SetFilter(on) ==
    /\ exists
    /\ filtered' = on
    /\ isConfigChanging' = (isConfigChanging \/ updating)
    /\ UNCHANGED <<exists, maxCount, backupPeriod, data, backup, updating, stale>>

res_StartUpdate ==
    /\ updating' = TRUE
    /\ UNCHANGED <<exists, settings, data, backup, isConfigChanging, stale>>

res_EndUpdate ==
    /\ updating' = FALSE
    /\ isConfigChanging' = FALSE
    /\ file' = IF exists /\ backupPeriod > 0 THEN file ELSE None
    /\ UNCHANGED <<exists, settings, data, age, timer, pending, covered, stale>>

\* The buffer as it is read back.  Records written under another type's code are
\* an error, and the buffer is emptied, unless the sizes happen to agree.
ReadSamplesFromFile(f) ==
    IF \A i \in 1 .. Len(f.samples) : f.samples[i].type = f.type THEN {f.samples}
    ELSE {<<>>, [i \in 1 .. Len(f.samples) |-> [f.samples[i] EXCEPT !.type = f.type]]}

\* A buffer as large as the backup; backups are not enabled.
obs_RestoreBackup ==
    /\ maxCount' = Len(file.samples)
    /\ buffer' \in ReadSamplesFromFile(file)
    /\ bufferedType' = file.type
    /\ currentType' = IF buffer' = <<>> THEN Trigger ELSE file.type

resTree_GetObservation ==
    /\ ~exists
    /\ exists' = TRUE
    /\ Fresh
    /\ IF file = None THEN Empty ELSE obs_RestoreBackup
    /\ UNCHANGED <<updating, stale, file>>

\* The destructor does not delete the backup timer, whose context pointer is the
\* Observation.
resTree_DeleteObservation ==
    /\ exists
    /\ exists' = FALSE
    /\ Fresh
    /\ Empty
    /\ file' = IF backupPeriod > 0 THEN None ELSE file
    /\ stale' = (stale \/ timer # None)
    /\ UNCHANGED updating

-----------------------------------------------------------------------------
(* Time and failures *)

\* The Data Hub dies and is restarted: the file is all that is left.
Restart ==
    /\ exists' = FALSE
    /\ Fresh
    /\ Empty
    /\ updating' = FALSE
    /\ stale' = FALSE
    /\ UNCHANGED file

\* A timer of a deleted Observation expires.  Its memory is free, which is fatal,
\* or it belongs to the Observation that has been created since.
StaleTimerExpired ==
    /\ stale
    /\ \/ Restart
       \/ /\ exists
          /\ Backup(buffer)
          /\ stale' = FALSE
          /\ UNCHANGED <<exists, settings, data, update>>

Older(a) == IF a < LongAgo THEN a + 1 ELSE a

\* A second passes.  A timer that is due may still be late.
Tick ==
    /\ age' = Older(age)
    /\ timer' = IF timer = None \/ timer = 0 THEN timer ELSE timer - 1
    /\ UNCHANGED <<exists, settings, data, update, stale, file, pending, covered>>

-----------------------------------------------------------------------------

Next ==
    \/ \E t \in Types \ {Trigger}, s \in Stamps, passes \in BOOLEAN : res_Push(t, s, passes)
    \/ BackupTimerExpired
    \/ \E n \in 0 .. MaxCount : obs_SetBufferMaxCount(n)
    \/ \E p \in Periods \cup {0} : obs_SetBufferBackupPeriod(p)
    \/ \E none \in BOOLEAN : res_SetTransform(none)
    \/ \E on \in BOOLEAN : res_SetFilter(on)
    \/ res_StartUpdate \/ res_EndUpdate
    \/ resTree_GetObservation \/ resTree_DeleteObservation
    \/ Restart
    \/ StaleTimerExpired
    \/ Tick

\* Time passes, and the event loop serves a timer that has expired.
Spec == Init /\ [][Next]_vars /\ WF_vars(Tick) /\ WF_vars(BackupTimerExpired)

-----------------------------------------------------------------------------

TypeOK ==
    /\ exists \in BOOLEAN
    /\ maxCount \in 0 .. MaxCount
    /\ buffer \in Seq(Samples)
    /\ bufferedType \in Types
    /\ currentType \in Types
    /\ backupPeriod \in Periods \cup {0}
    /\ age \in 0 .. LongAgo
    /\ timer \in 0 .. LongAgo \cup {None}
    /\ filtered \in BOOLEAN
    /\ isConfigChanging \in BOOLEAN
    /\ updating \in BOOLEAN
    /\ stale \in BOOLEAN
    /\ file \in [type : Types, samples : Seq(Samples)] \cup {None}
    /\ pending \in BOOLEAN
    /\ covered \in BOOLEAN

\* Whatever order the pushes, the settings and the backups come in, the buffer
\* holds samples of one type, in the order of their timestamps, no more than
\* asked for: a traversal of it ends, and what is read from it is of its type.
BufferSound ==
    /\ Len(buffer) <= maxCount
    /\ \A i \in 1 .. Len(buffer) : buffer[i].type = bufferedType
    /\ \A i, j \in 1 .. Len(buffer) : i < j => buffer[i].stamp <= buffer[j].stamp

\* What is to be backed up has a timer that will do it (obs.c:1317).
PendingHasTimer == pending => timer # None

\* A buffer that was backed up, and has had no sample since, is in the file.
FileCoversBuffer ==
    covered /\ ~pending => file # None /\ IsSuffix(buffer, file.samples)

\* A sample waits for its backup no longer than until the timer expires, unless
\* backups are disabled or the Data Hub dies.
BackedUp == pending ~> ~pending

=============================================================================
