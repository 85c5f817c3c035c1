------------------------- MODULE ObservationProofs -------------------------
(***************************************************************************)
(* What is proved of Observation for any types, timestamps, buffer sizes   *)
(* and backup periods.                                                     *)
(***************************************************************************)
EXTENDS Observation, SequenceTheorems, TLAPS

-----------------------------------------------------------------------------
(* Buffers *)

\* b is a buffer of samples of type t, in the order of their timestamps.
Sorted(b) == \A i, j \in 1 .. Len(b) : i < j => b[i].stamp <= b[j].stamp
OfType(b, t) == \A i \in 1 .. Len(b) : b[i].type = t

\* The elements of a tail of a buffer.
LEMMA TailFacts ==
    ASSUME NEW b \in Seq(Samples), NEW n \in Nat, n < Len(b)
    PROVE  /\ SubSeq(b, Len(b) - n + 1, Len(b)) \in Seq(Samples)
           /\ Len(SubSeq(b, Len(b) - n + 1, Len(b))) = n
           /\ \A i \in 1 .. n : SubSeq(b, Len(b) - n + 1, Len(b))[i] = b[Len(b) - n + i]
<1>1. Len(b) \in Nat /\ b = [i \in 1 .. Len(b) |-> b[i]] /\ \A i \in 1 .. Len(b) : b[i] \in Samples
    BY LenProperties, ElementOfSeq
<1>2. \A i \in 1 .. n : i + (Len(b) - n + 1) - 1 = Len(b) - n + i /\ Len(b) - n + i \in 1 .. Len(b)
    BY <1>1
<1> QED
    BY <1>1, <1>2, SMTT(30)

\* What is left of a buffer that is cut to n samples is a buffer of n at most.
LEMMA TruncateKeeps ==
    ASSUME NEW b \in Seq(Samples), NEW n \in Nat, NEW t \in Types, Sorted(b), OfType(b, t)
    PROVE  /\ TruncateBuffer(b, n) \in Seq(Samples)
           /\ Len(TruncateBuffer(b, n)) <= n
           /\ Sorted(TruncateBuffer(b, n))
           /\ OfType(TruncateBuffer(b, n), t)
<1>1. Len(b) \in Nat
    BY LenProperties
<1>2. CASE ~(Len(b) > n)
  <2>1. TruncateBuffer(b, n) = b
      BY <1>2 DEF TruncateBuffer
  <2> QED
      BY <1>1, <1>2, <2>1
<1>3. CASE Len(b) > n
  <2> DEFINE c == SubSeq(b, Len(b) - n + 1, Len(b))
  <2>1. TruncateBuffer(b, n) = c
      BY <1>3 DEF TruncateBuffer
  <2>2. c \in Seq(Samples) /\ Len(c) = n /\ \A i \in 1 .. n : c[i] = b[Len(b) - n + i]
      BY <1>1, <1>3, TailFacts
  <2> HIDE DEF c
  <2>3. \A i \in 1 .. n : Len(b) - n + i \in 1 .. Len(b)
      BY <1>1, <1>3
  <2>4. OfType(c, t)
      BY <2>2, <2>3 DEF OfType
  <2>5. Sorted(c)
    <3> SUFFICES ASSUME NEW i \in 1 .. n, NEW j \in 1 .. n, i < j
                 PROVE  c[i].stamp <= c[j].stamp
        BY <2>2 DEF Sorted
    <3>1. Len(b) - n + i < Len(b) - n + j
        BY <1>1
    <3> QED
        BY <2>2, <2>3, <3>1 DEF Sorted
  <2> QED
      BY <2>1, <2>2, <2>4, <2>5
<1> QED
    BY <1>2, <1>3

\* A sample of the buffer's type keeps its order: an older one is dropped.
LEMMA AddKeeps ==
    ASSUME NEW b \in Seq(Samples), NEW t \in Types, NEW s \in Samples, s.type = t,
           Sorted(b), OfType(b, t), Stamps \subseteq Nat
    PROVE  /\ AddToBuffer(b, s) \in Seq(Samples)
           /\ Sorted(AddToBuffer(b, s))
           /\ OfType(AddToBuffer(b, s), t)
<1>1. Len(b) \in Nat /\ \A i \in 1 .. Len(b) : b[i] \in Samples
    BY LenProperties, ElementOfSeq
<1>2. CASE b # <<>> /\ Last(b).stamp > s.stamp
    BY <1>2 DEF AddToBuffer
<1>3. CASE ~(b # <<>> /\ Last(b).stamp > s.stamp)
  <2> DEFINE c == Append(b, s)
  <2>1. AddToBuffer(b, s) = c
      BY <1>3 DEF AddToBuffer
  <2>2. c \in Seq(Samples) /\ Len(c) = Len(b) + 1 /\ c[Len(b) + 1] = s
        /\ \A i \in 1 .. Len(b) : c[i] = b[i]
      BY AppendProperties
  <2> HIDE DEF c
  <2>3. OfType(c, t)
      BY <1>1, <2>2 DEF OfType
  <2>4. \A i \in 1 .. Len(b) : b[i].stamp <= s.stamp
    <3> SUFFICES ASSUME NEW i \in 1 .. Len(b)
                 PROVE  b[i].stamp <= s.stamp
        OBVIOUS
    <3>1. b # <<>> /\ Len(b) \in 1 .. Len(b)
        BY <1>1, EmptySeq
    <3>2. b[i].stamp \in Nat /\ b[Len(b)].stamp \in Nat /\ s.stamp \in Nat
        BY <1>1, <3>1 DEF Samples
    <3>3. b[Len(b)].stamp <= s.stamp
        BY <1>3, <3>1, <3>2 DEF Last
    <3>4. b[i].stamp <= b[Len(b)].stamp
      <4>1. CASE i = Len(b)
          BY <3>2, <4>1
      <4>2. CASE i < Len(b)
          BY <3>1, <4>2 DEF Sorted
      <4> QED
          BY <1>1, <4>1, <4>2
    <3> QED
        BY <3>2, <3>3, <3>4
  <2>5. Sorted(c)
    <3> SUFFICES ASSUME NEW i \in 1 .. Len(b) + 1, NEW j \in 1 .. Len(b) + 1, i < j
                 PROVE  c[i].stamp <= c[j].stamp
        BY <2>2 DEF Sorted
    <3>1. i \in 1 .. Len(b)
        BY <1>1
    <3>2. CASE j = Len(b) + 1
        BY <2>2, <2>4, <3>1, <3>2
    <3>3. CASE j \in 1 .. Len(b)
        BY <2>2, <3>1, <3>3 DEF Sorted
    <3> QED
        BY <1>1, <3>2, <3>3
  <2> QED
      BY <2>1, <2>2, <2>3, <2>5
<1> QED
    BY <1>2, <1>3

-----------------------------------------------------------------------------
(* The inductive invariant.  To keep the buffer sound when it is restored, the *)
(* file must hold a sound buffer too.                                          *)

Files == [type : Types, samples : Seq(Samples)]
FileSound == file # None => Len(file.samples) <= MaxCount /\ Sorted(file.samples)

DataOK ==
    /\ maxCount \in 0 .. MaxCount
    /\ buffer \in Seq(Samples)
    /\ bufferedType \in Types
    /\ currentType \in Types
    /\ Len(buffer) <= maxCount
    /\ OfType(buffer, bufferedType)
    /\ Sorted(buffer)

BackupOK ==
    /\ age \in 0 .. LongAgo
    /\ timer \in 0 .. LongAgo \cup {None}
    /\ file \in Files \cup {None}
    /\ pending \in BOOLEAN
    /\ covered \in BOOLEAN
    /\ FileSound

RestOK ==
    /\ exists \in BOOLEAN
    /\ backupPeriod \in Periods \cup {0}
    /\ filtered \in BOOLEAN
    /\ isConfigChanging \in BOOLEAN
    /\ updating \in BOOLEAN
    /\ stale \in BOOLEAN

ObsInv == DataOK /\ BackupOK /\ RestOK

\* A backup writes a sound buffer, whether it fails or not.
LEMMA BackupKeeps ==
    ASSUME BackupOK, DataOK, RestOK, NEW b \in Seq(Samples), Sorted(b), Len(b) <= MaxCount, Backup(b)
    PROVE  BackupOK'
<1>1. age' \in 0 .. LongAgo /\ timer' \in 0 .. LongAgo \cup {None}
    BY ObservationAssumption DEF Backup
<1>2. Enabled \in BOOLEAN
    BY DEF Enabled, RestOK
<1>3. CASE file' = BackupFile(currentType, b) /\ pending' = FALSE /\ covered' = Enabled
  <2>1. file' \in Files /\ file'.samples = b
      BY <1>3, ObservationAssumption DEF BackupFile, Files, DataOK
  <2>2. FileSound'
      BY <2>1 DEF FileSound, Sorted
  <2> QED
      BY <1>1, <1>2, <1>3, <2>1, <2>2 DEF BackupOK
<1>4. CASE pending' = FALSE /\ covered' = FALSE /\ UNCHANGED file
  <2>1. FileSound'
      BY <1>4 DEF FileSound, BackupOK, Sorted
  <2> QED
      BY <1>1, <1>2, <1>4, <2>1 DEF BackupOK
<1> QED
    BY <1>3, <1>4 DEF Backup

LEMMA BackupUnchanged ==
    ASSUME BackupOK, UNCHANGED backup
    PROVE  BackupOK'
BY DEF BackupOK, backup, FileSound, Sorted

\* The file is as it was or gone.
LEMMA FileStays ==
    ASSUME BackupOK, file' = file \/ file' = None
    PROVE  file' \in Files \cup {None} /\ FileSound'
BY DEF BackupOK, FileSound, Sorted

LEMMA DisableKeeps ==
    ASSUME BackupOK, DisableBackups
    PROVE  BackupOK'
<1>1. age' = LongAgo /\ timer' = None /\ pending' = FALSE /\ covered' = FALSE /\ file' = None
    BY DEF DisableBackups
<1>2. file' \in Files \cup {None} /\ FileSound'
    BY <1>1, FileStays
<1>3. age' \in 0 .. LongAgo /\ timer' \in 0 .. LongAgo \cup {None}
    BY <1>1, ObservationAssumption
<1>4. pending' \in BOOLEAN /\ covered' \in BOOLEAN
    BY <1>1
<1> QED
    BY <1>2, <1>3, <1>4 DEF BackupOK

LEMMA DataUnchanged ==
    ASSUME DataOK, UNCHANGED maxCount, UNCHANGED data
    PROVE  DataOK'
BY DEF DataOK, data, OfType, Sorted

LEMMA EmptyIsSound == Sorted(<<>>) /\ \A t \in Types : OfType(<<>>, t)
BY DEF Sorted, OfType

\* Fields of no Observation, or of a new one.
LEMMA FreshKeeps ==
    ASSUME BackupOK, RestOK, Fresh, file' = file \/ file' = None,
           exists' \in BOOLEAN, updating' \in BOOLEAN, stale' \in BOOLEAN
    PROVE  BackupOK' /\ RestOK'
<1>1. file' \in Files \cup {None} /\ FileSound'
    BY FileStays
<1>2. age' = LongAgo /\ timer' = None /\ pending' = FALSE /\ covered' = FALSE
    BY DEF Fresh
<1>3. age' \in 0 .. LongAgo /\ timer' \in 0 .. LongAgo \cup {None}
    BY <1>2, ObservationAssumption
<1>4. pending' \in BOOLEAN /\ covered' \in BOOLEAN
    BY <1>2
<1> QED
  <2>1. BackupOK'
      BY <1>1, <1>3, <1>4 DEF BackupOK
  <2>2. backupPeriod' = 0 /\ filtered' = FALSE /\ isConfigChanging' = FALSE
      BY DEF Fresh
  <2> QED
      BY <2>1, <2>2 DEF RestOK

LEMMA EmptyKeeps ==
    ASSUME Empty
    PROVE  DataOK'
<1>1. buffer' = <<>> /\ maxCount' = 0 /\ bufferedType' = Trigger /\ currentType' = Trigger
    BY DEF Empty
<1>2. Sorted(buffer') /\ OfType(buffer', bufferedType')
    BY <1>1, EmptyIsSound, ObservationAssumption
<1>3. buffer' \in Seq(Samples) /\ Len(buffer') = 0
    BY <1>1
<1> QED
    BY <1>1, <1>2, <1>3, ObservationAssumption DEF DataOK, Sorted, OfType

LEMMA ObsInitially == Init => ObsInv
<1> SUFFICES ASSUME Init PROVE ObsInv
    OBVIOUS
<1>1. DataOK
    BY EmptyIsSound, ObservationAssumption DEF Init, DataOK
<1>2. BackupOK
  <2>1. age \in 0 .. LongAgo /\ timer \in 0 .. LongAgo \cup {None} /\ file = None
      BY ObservationAssumption DEF Init
  <2>2. pending \in BOOLEAN /\ covered \in BOOLEAN
      BY DEF Init
  <2> QED
      BY <2>1, <2>2 DEF BackupOK, FileSound
<1>3. RestOK
    BY DEF Init, RestOK
<1> QED
    BY <1>1, <1>2, <1>3 DEF ObsInv

-----------------------------------------------------------------------------
(* The actions *)

LEMMA PushKeeps ==
    ASSUME ObsInv, NEW t \in Types, NEW s \in Stamps, NEW passes \in BOOLEAN, res_Push(t, s, passes)
    PROVE  ObsInv'
<1> USE DEF ObsInv
<1>1. RestOK'
    BY DEF res_Push, RestOK, settings, update
<1>2. maxCount' = maxCount /\ maxCount \in Nat /\ maxCount <= MaxCount /\ currentType' \in Types
    BY ObservationAssumption DEF res_Push, DataOK, settings
<1>3. CASE maxCount > 0
  <2> DEFINE new == [type |-> t, stamp |-> s]
             added == AddToBuffer(Kept(t), new)
             cut == TruncateBuffer(added, maxCount)
  <2>1. new \in Samples /\ new.type = t
      BY DEF Samples
  <2>2. Kept(t) \in Seq(Samples) /\ Sorted(Kept(t)) /\ OfType(Kept(t), t)
      BY EmptyIsSound DEF Kept, DataOK
  <2> HIDE DEF new
  <2>3. added \in Seq(Samples) /\ Sorted(added) /\ OfType(added, t)
      BY <2>1, <2>2, AddKeeps, ObservationAssumption
  <2> HIDE DEF added
  <2>4. cut \in Seq(Samples) /\ Len(cut) <= maxCount /\ Sorted(cut) /\ OfType(cut, t)
      BY <1>2, <2>3, TruncateKeeps
  <2>5. buffer' = cut /\ bufferedType' = t
      BY <1>3 DEF res_Push, new, added
  <2> HIDE DEF cut
  <2>6. DataOK'
      BY <1>2, <2>4, <2>5, ObservationAssumption DEF DataOK, Sorted, OfType
  <2>7. Len(cut) <= MaxCount
      BY <1>2, <2>4, LenProperties, ObservationAssumption
  <2>8. BackupOK'
    <3>1. CASE backupPeriod > 0 /\ age >= backupPeriod
      <4>1. Backup(cut)
          BY <1>3, <2>5, <3>1 DEF res_Push, BackupInTime
      <4> QED
          BY <2>4, <2>7, <4>1, BackupKeeps
    <3>2. CASE backupPeriod > 0 /\ ~(age >= backupPeriod)
      <4>1. /\ timer' = IF timer = None THEN backupPeriod - age ELSE timer
            /\ pending' = TRUE
            /\ UNCHANGED <<age, file, covered>>
          BY <1>3, <3>2 DEF res_Push, BackupInTime
      <4>2. backupPeriod - age \in 0 .. LongAgo
          BY <3>2, ObservationAssumption DEF BackupOK, RestOK
      <4>3. timer' \in 0 .. LongAgo \cup {None}
          BY <4>1, <4>2 DEF BackupOK
      <4>4. file' \in Files \cup {None} /\ FileSound'
          BY <4>1, FileStays
      <4> QED
          BY <4>1, <4>3, <4>4 DEF BackupOK
    <3>3. CASE ~(backupPeriod > 0)
        BY <1>3, <3>3, BackupUnchanged DEF res_Push
    <3> QED
        BY <3>1, <3>2, <3>3
  <2> QED
      BY <1>1, <2>6, <2>8
<1>4. CASE ~(maxCount > 0)
  <2>1. UNCHANGED <<buffer, bufferedType, backup>>
      BY <1>4 DEF res_Push
  <2>2. DataOK'
      BY <1>2, <2>1 DEF DataOK, Sorted, OfType
  <2> QED
      BY <1>1, <2>1, <2>2, BackupUnchanged
<1> QED
    BY <1>3, <1>4

LEMMA BufferFits ==
    ASSUME DataOK
    PROVE  buffer \in Seq(Samples) /\ Sorted(buffer) /\ Len(buffer) <= MaxCount
BY LenProperties, ObservationAssumption DEF DataOK

LEMMA ExpiryKeeps ==
    ASSUME ObsInv, BackupTimerExpired
    PROVE  ObsInv'
<1> USE DEF ObsInv
<1>1. RestOK'
    BY DEF BackupTimerExpired, RestOK, settings, update
<1>2. DataOK'
    BY DataUnchanged DEF BackupTimerExpired, settings
<1>3. BackupOK'
    BY BufferFits, BackupKeeps DEF BackupTimerExpired
<1> QED
    BY <1>1, <1>2, <1>3

LEMMA MaxCountKeeps ==
    ASSUME ObsInv, NEW n \in 0 .. MaxCount, obs_SetBufferMaxCount(n)
    PROVE  ObsInv'
<1> USE DEF ObsInv
<1>1. RestOK'
    BY DEF obs_SetBufferMaxCount, RestOK, update
<1>2. DataOK'
  <2>1. n \in Nat
      BY ObservationAssumption
  <2>2. buffer' \in Seq(Samples) /\ Len(buffer') <= n /\ Sorted(TruncateBuffer(buffer, n))
        /\ OfType(TruncateBuffer(buffer, n), bufferedType) /\ buffer' = TruncateBuffer(buffer, n)
      BY <2>1, TruncateKeeps DEF obs_SetBufferMaxCount, DataOK
  <2> QED
      BY <2>2 DEF obs_SetBufferMaxCount, DataOK, Sorted, OfType
<1>3. BackupOK'
    BY DisableKeeps, BackupUnchanged DEF obs_SetBufferMaxCount
<1> QED
    BY <1>1, <1>2, <1>3

LEMMA PeriodKeeps ==
    ASSUME ObsInv, NEW p \in Periods \cup {0}, obs_SetBufferBackupPeriod(p)
    PROVE  ObsInv'
<1> USE DEF ObsInv
<1>1. RestOK'
    BY DEF obs_SetBufferBackupPeriod, RestOK, update
<1>2. DataOK'
    BY DataUnchanged DEF obs_SetBufferBackupPeriod
<1>3. CASE DisableBackups
    BY <1>1, <1>2, <1>3, DisableKeeps
<1>4. CASE UNCHANGED backup
    BY <1>1, <1>2, <1>4, BackupUnchanged
<1>5. CASE CorrectTimer(p)
  <2>1. CASE age > p
      BY <1>1, <1>2, <1>5, <2>1, BufferFits, BackupKeeps DEF CorrectTimer
  <2>2. CASE ~(age > p)
    <3>1. timer' = p - age /\ UNCHANGED <<age, file, pending, covered>>
        BY <1>5, <2>2 DEF CorrectTimer
    <3>2. timer' \in 0 .. LongAgo
        BY <2>2, <3>1, ObservationAssumption DEF BackupOK
    <3>3. file' \in Files \cup {None} /\ FileSound'
        BY <3>1, FileStays
    <3>4. BackupOK'
        BY <3>1, <3>2, <3>3 DEF BackupOK
    <3> QED
        BY <1>1, <1>2, <3>4
  <2> QED
      BY <2>1, <2>2
<1> QED
    BY <1>3, <1>4, <1>5 DEF obs_SetBufferBackupPeriod

LEMMA TransformKeeps ==
    ASSUME ObsInv, NEW none \in BOOLEAN, res_SetTransform(none)
    PROVE  ObsInv'
<1> USE DEF ObsInv
<1>1. isConfigChanging' \in BOOLEAN
    BY DEF res_SetTransform, RestOK
<1>2. RestOK'
    BY <1>1 DEF res_SetTransform, RestOK
<1>3. buffer' = <<>> /\ UNCHANGED <<bufferedType, currentType>> /\ maxCount' \in 0 .. MaxCount
    BY ObservationAssumption DEF res_SetTransform, DataOK
<1>4. Sorted(buffer') /\ OfType(buffer', bufferedType')
    BY <1>3, EmptyIsSound DEF DataOK
<1>5. DataOK'
    BY <1>3, <1>4 DEF DataOK, Sorted, OfType
<1>6. BackupOK'
    BY BackupUnchanged DEF res_SetTransform
<1> QED
    BY <1>2, <1>5, <1>6

LEMMA SettingsKeep ==
    ASSUME ObsInv,
           \/ \E on \in BOOLEAN : res_SetFilter(on)
           \/ res_StartUpdate
    PROVE  ObsInv'
<1> USE DEF ObsInv
<1>1. CASE \E on \in BOOLEAN : res_SetFilter(on)
  <2>1. PICK on \in BOOLEAN : res_SetFilter(on)
      BY <1>1
  <2>2. isConfigChanging' \in BOOLEAN
      BY <2>1 DEF res_SetFilter, RestOK
  <2>3. RestOK'
      BY <2>1, <2>2 DEF res_SetFilter, RestOK
  <2> QED
      BY <2>1, <2>3, DataUnchanged, BackupUnchanged DEF res_SetFilter
<1>2. CASE res_StartUpdate
  <2>1. RestOK'
      BY <1>2 DEF res_StartUpdate, RestOK, settings
  <2> QED
      BY <1>2, <2>1, DataUnchanged, BackupUnchanged DEF res_StartUpdate, settings
<1> QED
    BY <1>1, <1>2

LEMMA EndUpdateKeeps ==
    ASSUME ObsInv, res_EndUpdate
    PROVE  ObsInv'
<1> USE DEF ObsInv
<1>1. RestOK'
    BY DEF res_EndUpdate, RestOK, settings
<1>2. DataOK'
    BY DataUnchanged DEF res_EndUpdate, settings
<1>3. file' \in Files \cup {None} /\ FileSound'
    BY FileStays DEF res_EndUpdate
<1>4. BackupOK'
    BY <1>3 DEF res_EndUpdate, BackupOK
<1> QED
    BY <1>1, <1>2, <1>4

\* What is read back is sound, whatever type the records are taken to be of.
LEMMA ReadIsSound ==
    ASSUME NEW f \in Files, Sorted(f.samples), NEW b \in ReadSamplesFromFile(f)
    PROVE  /\ b \in Seq(Samples)
           /\ Len(b) <= Len(f.samples)
           /\ Sorted(b)
           /\ OfType(b, f.type)
<1> DEFINE s == f.samples
           again == [i \in 1 .. Len(s) |-> [s[i] EXCEPT !.type = f.type]]
<1>1. s \in Seq(Samples) /\ f.type \in Types
    BY DEF Files
<1>2. Len(s) \in Nat /\ \A i \in 1 .. Len(s) : s[i] \in Samples
    BY <1>1, LenProperties, ElementOfSeq
<1>3. CASE b = s /\ \A i \in 1 .. Len(s) : s[i].type = f.type
    BY <1>1, <1>2, <1>3 DEF OfType
<1>4. CASE b = <<>>
    BY <1>1, <1>2, <1>4, EmptyIsSound
<1>5. CASE b = again
  <2>1. \A i \in 1 .. Len(s) :
            again[i] \in Samples /\ again[i].type = f.type /\ again[i].stamp = s[i].stamp
      BY <1>1, <1>2 DEF Samples
  <2>2. again \in Seq(Samples) /\ Len(again) = Len(s)
    <3>1. again \in [1 .. Len(s) -> Samples]
        BY <2>1
    <3> HIDE DEF again, s
    <3>2. again \in Seq(Samples)
        BY <1>2, <3>1, SeqDef
    <3>3. DOMAIN again = 1 .. Len(s)
        BY <3>1
    <3>4. Len(again) \in Nat /\ DOMAIN again = 1 .. Len(again)
        BY <3>2, LenProperties
    <3> QED
        BY <1>2, <3>2, <3>3, <3>4
  <2> HIDE DEF again, s
  <2>3. OfType(again, f.type)
      BY <2>1, <2>2 DEF OfType
  <2>4. Sorted(again)
      BY <2>1, <2>2 DEF Sorted, s
  <2> QED
      BY <1>2, <1>5, <2>2, <2>3, <2>4 DEF s
<1> QED
    BY <1>3, <1>4, <1>5 DEF ReadSamplesFromFile

LEMMA CreateKeeps ==
    ASSUME ObsInv, resTree_GetObservation
    PROVE  ObsInv'
<1> USE DEF ObsInv
<1>1. BackupOK' /\ RestOK'
    BY FreshKeeps DEF resTree_GetObservation, RestOK
<1>2. CASE file = None
    BY <1>1, <1>2, EmptyKeeps DEF resTree_GetObservation
<1>3. CASE file # None
  <2>1. file \in Files /\ Sorted(file.samples) /\ Len(file.samples) <= MaxCount
      BY <1>3 DEF BackupOK, FileSound
  <2>2. Len(file.samples) \in 0 .. MaxCount /\ file.type \in Types
      BY <2>1, LenProperties, ObservationAssumption DEF Files
  <2>3. /\ maxCount' = Len(file.samples)
        /\ buffer' \in ReadSamplesFromFile(file)
        /\ bufferedType' = file.type
        /\ currentType' = IF buffer' = <<>> THEN Trigger ELSE file.type
      BY <1>3 DEF resTree_GetObservation, obs_RestoreBackup
  <2>4. PICK b : b = buffer'
      OBVIOUS
  <2>5. /\ b \in Seq(Samples) /\ Len(b) <= Len(file.samples)
        /\ Sorted(b) /\ OfType(b, file.type)
      BY <2>1, <2>3, <2>4, ReadIsSound
  <2>6. DataOK'
      BY <2>2, <2>3, <2>4, <2>5, ObservationAssumption DEF DataOK, Sorted, OfType
  <2> QED
      BY <1>1, <2>6
<1> QED
    BY <1>2, <1>3

LEMMA DeleteKeeps ==
    ASSUME ObsInv, resTree_DeleteObservation
    PROVE  ObsInv'
<1> USE DEF ObsInv
<1>1. exists' \in BOOLEAN /\ updating' \in BOOLEAN /\ stale' \in BOOLEAN
    BY DEF resTree_DeleteObservation, RestOK
<1>2. BackupOK' /\ RestOK'
    BY <1>1, FreshKeeps DEF resTree_DeleteObservation
<1> QED
    BY <1>2, EmptyKeeps DEF resTree_DeleteObservation

LEMMA RestartKeeps ==
    ASSUME ObsInv, Restart
    PROVE  ObsInv'
<1> USE DEF ObsInv
<1>1. exists' \in BOOLEAN /\ updating' \in BOOLEAN /\ stale' \in BOOLEAN
    BY DEF Restart
<1>2. BackupOK' /\ RestOK'
    BY <1>1, FreshKeeps DEF Restart
<1> QED
    BY <1>2, EmptyKeeps DEF Restart

LEMMA StaleKeeps ==
    ASSUME ObsInv, StaleTimerExpired
    PROVE  ObsInv'
<1>1. CASE Restart
    BY <1>1, RestartKeeps
<1>2. CASE /\ Backup(buffer)
           /\ stale' = FALSE
           /\ UNCHANGED <<exists, settings, data, update>>
  <2> USE DEF ObsInv
  <2>1. RestOK'
      BY <1>2 DEF RestOK, settings, update
  <2>2. DataOK'
      BY <1>2, DataUnchanged DEF settings
  <2>3. BackupOK'
      BY <1>2, BufferFits, BackupKeeps
  <2> QED
      BY <2>1, <2>2, <2>3
<1> QED
    BY <1>1, <1>2 DEF StaleTimerExpired

LEMMA TickKeeps ==
    ASSUME ObsInv, Tick
    PROVE  ObsInv'
<1> USE DEF ObsInv
<1>1. RestOK'
    BY DEF Tick, RestOK, settings, update
<1>2. DataOK'
    BY DataUnchanged DEF Tick, settings
<1>3. \A a \in 0 .. LongAgo : Older(a) \in 0 .. LongAgo
    BY ObservationAssumption DEF Older
<1>4. age' \in 0 .. LongAgo
    BY <1>3 DEF Tick, BackupOK
<1>5. timer' \in 0 .. LongAgo \cup {None}
    BY ObservationAssumption DEF Tick, BackupOK
<1>6. file' \in Files \cup {None} /\ FileSound'
    BY FileStays DEF Tick
<1>7. BackupOK'
    BY <1>4, <1>5, <1>6 DEF BackupOK, Tick
<1> QED
    BY <1>1, <1>2, <1>7

LEMMA ObsStep == ObsInv /\ [Next]_vars => ObsInv'
<1> SUFFICES ASSUME ObsInv, [Next]_vars PROVE ObsInv'
    OBVIOUS
<1>1. CASE \E t \in Types \ {Trigger}, s \in Stamps, passes \in BOOLEAN : res_Push(t, s, passes)
    BY <1>1, PushKeeps
<1>2. CASE BackupTimerExpired
    BY <1>2, ExpiryKeeps
<1>3. CASE \E n \in 0 .. MaxCount : obs_SetBufferMaxCount(n)
    BY <1>3, MaxCountKeeps
<1>4. CASE \E p \in Periods \cup {0} : obs_SetBufferBackupPeriod(p)
    BY <1>4, PeriodKeeps
<1>5. CASE \E none \in BOOLEAN : res_SetTransform(none)
    BY <1>5, TransformKeeps
<1>6. CASE (\E on \in BOOLEAN : res_SetFilter(on)) \/ res_StartUpdate
    BY <1>6, SettingsKeep
<1>7. CASE res_EndUpdate
    BY <1>7, EndUpdateKeeps
<1>8. CASE resTree_GetObservation \/ resTree_DeleteObservation
    BY <1>8, CreateKeeps, DeleteKeeps
<1>9. CASE Restart \/ StaleTimerExpired \/ Tick
    BY <1>9, RestartKeeps, StaleKeeps, TickKeeps
<1>10. CASE UNCHANGED vars
    BY <1>10, DataUnchanged, BackupUnchanged DEF vars, ObsInv, RestOK, settings, update
<1> QED
    BY <1>1, <1>2, <1>3, <1>4, <1>5, <1>6, <1>7, <1>8, <1>9, <1>10 DEF Next

LEMMA ObsInvariant == Spec => []ObsInv
BY ObsInitially, ObsStep, PTL DEF Spec

\* Every variable keeps its type, for any sizes, periods and timestamps.
THEOREM ObservationTypes == Spec => []TypeOK
<1>1. ObsInv => TypeOK
    BY DEF ObsInv, DataOK, BackupOK, RestOK, Files, TypeOK
<1> QED
    BY <1>1, ObsInvariant, PTL

\* The buffer is of one type, in the order of the timestamps, and as large as it
\* is allowed to be at most, through every push, truncation and restoration.
THEOREM BuffersStaySound == Spec => []BufferSound
<1>1. ObsInv => BufferSound
    BY DEF ObsInv, DataOK, BufferSound, OfType, Sorted
<1> QED
    BY <1>1, ObsInvariant, PTL

-----------------------------------------------------------------------------
(* Nothing that is to be backed up is forgotten *)

LEMMA BackupDone ==
    ASSUME NEW b, Backup(b)
    PROVE  pending' = FALSE
BY DEF Backup

LEMMA PendingStep ==
    ASSUME ObsInv, PendingHasTimer, [Next]_vars
    PROVE  PendingHasTimer'
<1> USE DEF PendingHasTimer
<1>1. CASE \E t \in Types \ {Trigger}, s \in Stamps, passes \in BOOLEAN : res_Push(t, s, passes)
  <2>1. PICK t \in Types, s \in Stamps, passes \in BOOLEAN : res_Push(t, s, passes)
      BY <1>1
  <2>2. CASE maxCount > 0 /\ backupPeriod > 0 /\ age >= backupPeriod
    <3>1. Backup(buffer')
        BY <2>1, <2>2 DEF res_Push, BackupInTime
    <3> QED
        BY <3>1, BackupDone
  <2>3. CASE maxCount > 0 /\ backupPeriod > 0 /\ ~(age >= backupPeriod)
    <3>1. timer' = IF timer = None THEN backupPeriod - age ELSE timer
        BY <2>1, <2>3 DEF res_Push, BackupInTime
    <3>2. backupPeriod - age \in Int
        BY ObservationAssumption DEF ObsInv, BackupOK, RestOK
    <3> QED
        BY <3>1, <3>2, ObservationAssumption
  <2>4. CASE ~(maxCount > 0 /\ backupPeriod > 0)
      BY <2>1, <2>4 DEF res_Push, backup
  <2> QED
      BY <2>2, <2>3, <2>4
<1>2. CASE BackupTimerExpired
    BY <1>2, BackupDone DEF BackupTimerExpired
<1>3. CASE \E n \in 0 .. MaxCount : obs_SetBufferMaxCount(n)
    BY <1>3 DEF obs_SetBufferMaxCount, DisableBackups, backup
<1>4. CASE \E p \in Periods \cup {0} : obs_SetBufferBackupPeriod(p)
  <2>1. PICK p \in Periods \cup {0} : obs_SetBufferBackupPeriod(p)
      BY <1>4
  <2>2. CASE DisableBackups \/ UNCHANGED backup
      BY <2>2 DEF DisableBackups, backup
  <2>3. CASE CorrectTimer(p)
    <3>1. CASE age > p
        BY <2>3, <3>1, BackupDone DEF CorrectTimer
    <3>2. CASE ~(age > p)
      <4>1. timer' = p - age /\ p - age \in Int
          BY <2>3, <3>2, ObservationAssumption DEF CorrectTimer, ObsInv, BackupOK
      <4> QED
          BY <4>1, ObservationAssumption
    <3> QED
        BY <3>1, <3>2
  <2> QED
      BY <2>1, <2>2, <2>3 DEF obs_SetBufferBackupPeriod
<1>5. CASE \E none \in BOOLEAN : res_SetTransform(none)
    BY <1>5 DEF res_SetTransform, backup
<1>6. CASE (\E on \in BOOLEAN : res_SetFilter(on)) \/ res_StartUpdate \/ res_EndUpdate
    BY <1>6 DEF res_SetFilter, res_StartUpdate, res_EndUpdate, backup
<1>7. CASE resTree_GetObservation \/ resTree_DeleteObservation \/ Restart
    BY <1>7 DEF resTree_GetObservation, resTree_DeleteObservation, Restart, Fresh
<1>8. CASE StaleTimerExpired
    BY <1>8, BackupDone DEF StaleTimerExpired, Restart, Fresh
<1>9. CASE Tick
  <2>1. timer # None => timer' # None
      BY <1>9, ObservationAssumption DEF Tick, ObsInv, BackupOK
  <2> QED
      BY <1>9, <2>1 DEF Tick
<1>10. CASE UNCHANGED vars
    BY <1>10 DEF vars, backup
<1> QED
    BY <1>1, <1>2, <1>3, <1>4, <1>5, <1>6, <1>7, <1>8, <1>9, <1>10 DEF Next

\* A sample that is to be backed up has a timer that will see to it, whatever is
\* done to the period and the size meanwhile.
THEOREM PendingStaysTimed == Spec => []PendingHasTimer
<1>1. Init => PendingHasTimer
    BY DEF Init, PendingHasTimer
<1>2. ObsInv /\ PendingHasTimer /\ [Next]_vars => PendingHasTimer'
    BY PendingStep
<1> QED
    BY <1>1, <1>2, ObsInvariant, PTL DEF Spec

-----------------------------------------------------------------------------
(* What was backed up is in the file *)

TailOf(b, c) ==
    /\ Len(b) <= Len(c)
    /\ \A i \in 1 .. Len(b) : b[i] = c[Len(c) - Len(b) + i]

LEMMA ReverseFacts ==
    ASSUME NEW b \in Seq(Samples)
    PROVE  /\ Reverse(b) \in Seq(Samples)
           /\ Len(Reverse(b)) = Len(b)
           /\ \A i \in 1 .. Len(b) : Reverse(b)[i] = b[Len(b) - i + 1]
<1>1. Len(b) \in Nat /\ \A i \in 1 .. Len(b) : b[i] \in Samples
    BY LenProperties, ElementOfSeq
<1>2. \A i \in 1 .. Len(b) : Len(b) - i + 1 \in 1 .. Len(b)
    BY <1>1
<1> DEFINE r == [i \in 1 .. Len(b) |-> b[(Len(b) - i) + 1]]
<1>3. r \in [1 .. Len(b) -> Samples]
    BY <1>1, <1>2
<1>4. r \in Seq(Samples)
    BY <1>1, <1>3, SeqDef
<1>5. Len(r) = Len(b)
    BY <1>1, <1>3, <1>4, LenProperties
<1>6. \A i \in 1 .. Len(b) : r[i] = b[Len(b) - i + 1]
    OBVIOUS
<1> QED
    BY <1>4, <1>5, <1>6 DEF Reverse

\* A suffix, without the reversals it is defined by.
LEMMA SuffixIsTail ==
    ASSUME NEW b \in Seq(Samples), NEW c \in Seq(Samples), TailOf(b, c)
    PROVE  IsSuffix(b, c)
<1> DEFINE n == Len(b)
           rb == Reverse(b)
           rc == Reverse(c)
<1>1. n \in Nat /\ Len(c) \in Nat /\ n <= Len(c)
    BY LenProperties DEF TailOf
<1>2. /\ rb \in Seq(Samples) /\ Len(rb) = n /\ \A i \in 1 .. n : rb[i] = b[n - i + 1]
      /\ rc \in Seq(Samples) /\ Len(rc) = Len(c)
      /\ \A i \in 1 .. Len(c) : rc[i] = c[Len(c) - i + 1]
    BY ReverseFacts
<1>3. \A i \in 1 .. n : rb[i] = rc[i] /\ rb[i] \in Samples /\ rc[i] \in Samples
  <2> SUFFICES ASSUME NEW i \in 1 .. n
               PROVE  rb[i] = rc[i] /\ rb[i] \in Samples /\ rc[i] \in Samples
      OBVIOUS
  <2>1. n - i + 1 \in 1 .. n /\ i \in 1 .. Len(c)
        /\ Len(c) - n + (n - i + 1) = Len(c) - i + 1
      BY <1>1
  <2>2. b[n - i + 1] = c[Len(c) - i + 1]
      BY <2>1 DEF TailOf
  <2>3. rb[i] \in Samples /\ rc[i] \in Samples
      BY <1>1, <1>2, <2>1, ElementOfSeq
  <2> QED
      BY <1>2, <2>1, <2>2, <2>3
<1> HIDE DEF rb, rc
<1> DEFINE sb == SubSeq(rb, 1, n)
           sc == SubSeq(rc, 1, n)
<1>4. /\ sb \in Seq(Samples) /\ Len(sb) = n /\ \A i \in 1 .. n : sb[i] = rb[i]
      /\ sc \in Seq(Samples) /\ Len(sc) = n /\ \A i \in 1 .. n : sc[i] = rc[i]
  <2>1. /\ sb \in Seq(Samples) /\ Len(sb) = (IF 1 <= n THEN n - 1 + 1 ELSE 0)
        /\ \A i \in 1 .. n - 1 + 1 : sb[i] = rb[1 + i - 1]
      BY <1>1, <1>3, SubSeqProperties
  <2>2. /\ sc \in Seq(Samples) /\ Len(sc) = (IF 1 <= n THEN n - 1 + 1 ELSE 0)
        /\ \A i \in 1 .. n - 1 + 1 : sc[i] = rc[1 + i - 1]
      BY <1>1, <1>3, SubSeqProperties
  <2> HIDE DEF sb, sc
  <2> QED
      BY <1>1, <2>1, <2>2
<1> HIDE DEF sb, sc
<1>5. sb = sc
    BY <1>3, <1>4, SeqEqual
<1> QED
    BY <1>1, <1>2, <1>5 DEF IsSuffix, IsPrefix, rb, rc, sb, sc

\* The buffer of an Observation that backs up is a tail of what is in its file.
CoverInv ==
    covered => /\ Enabled
               /\ ~pending => file # None /\ TailOf(buffer, file.samples)

LEMMA TailOfItself == ASSUME NEW b \in Seq(Samples) PROVE TailOf(b, b)
<1>1. Len(b) \in Nat /\ \A i \in 1 .. Len(b) : Len(b) - Len(b) + i = i
    BY LenProperties
<1> QED
    BY <1>1 DEF TailOf

\* A buffer that is cut keeps its end.
LEMMA TailOfCut ==
    ASSUME NEW b \in Seq(Samples), NEW c \in Seq(Samples), NEW n \in Nat, TailOf(b, c)
    PROVE  TailOf(TruncateBuffer(b, n), c)
<1>1. Len(b) \in Nat /\ Len(c) \in Nat
    BY LenProperties
<1>2. CASE ~(Len(b) > n)
    BY <1>2 DEF TruncateBuffer
<1>3. CASE Len(b) > n
  <2> DEFINE d == SubSeq(b, Len(b) - n + 1, Len(b))
  <2>1. Len(d) = n /\ \A i \in 1 .. n : d[i] = b[Len(b) - n + i]
      BY <1>1, <1>3, TailFacts
  <2>2. TruncateBuffer(b, n) = d
      BY <1>3 DEF TruncateBuffer
  <2> HIDE DEF d
  <2>3. \A i \in 1 .. n : /\ Len(b) - n + i \in 1 .. Len(b)
                          /\ Len(c) - Len(b) + (Len(b) - n + i) = Len(c) - n + i
      BY <1>1, <1>3
  <2>4. \A i \in 1 .. n : d[i] = c[Len(c) - n + i]
      BY <2>1, <2>3 DEF TailOf
  <2>5. n <= Len(c)
      BY <1>1, <1>3 DEF TailOf
  <2>6. TailOf(d, c)
      BY <2>1, <2>4, <2>5 DEF TailOf
  <2> QED
      BY <2>2, <2>6
<1> QED
    BY <1>2, <1>3

LEMMA BackupCovers ==
    ASSUME NEW b \in Seq(Samples), currentType \in Types, Backup(b), b = buffer',
           Enabled => Enabled'
    PROVE  CoverInv'
<1>1. TailOf(b, b)
    BY TailOfItself
<1>2. BackupFile(currentType, b) # None
    BY ObservationAssumption DEF BackupFile, Samples
<1>3. CASE file' = BackupFile(currentType, b) /\ covered' = Enabled
  <2>1. file' # None /\ file'.samples = b
      BY <1>2, <1>3 DEF BackupFile
  <2> QED
      BY <1>1, <1>3, <2>1 DEF CoverInv
<1>4. CASE covered' = FALSE
    BY <1>4 DEF CoverInv
<1> QED
    BY <1>3, <1>4 DEF Backup

LEMMA CoverStep ==
    ASSUME ObsInv, CoverInv, [Next]_vars
    PROVE  CoverInv'
<1> USE ObservationAssumption
<1>0. buffer \in Seq(Samples) /\ currentType \in Types /\ maxCount \in Nat
      /\ (file # None => file.samples \in Seq(Samples))
    BY DEF ObsInv, DataOK, BackupOK, Files
<1>n. buffer' \in Seq(Samples)
    BY ObsStep DEF ObsInv, DataOK
<1>1. CASE \E t \in Types \ {Trigger}, s \in Stamps, passes \in BOOLEAN : res_Push(t, s, passes)
  <2>1. PICK t \in Types, s \in Stamps, passes \in BOOLEAN : res_Push(t, s, passes)
      BY <1>1
  <2>2. exists' = exists /\ maxCount' = maxCount /\ backupPeriod' = backupPeriod
      BY <2>1 DEF res_Push, settings
  <2>3. CASE maxCount > 0 /\ backupPeriod > 0 /\ age >= backupPeriod
    <3>1. Backup(buffer')
        BY <2>1, <2>3 DEF res_Push, BackupInTime
    <3> QED
        BY <1>0, <1>n, <2>2, <3>1, BackupCovers DEF Enabled
  <2>4. CASE maxCount > 0 /\ backupPeriod > 0 /\ ~(age >= backupPeriod)
    <3>1. pending' = TRUE /\ covered' = covered
        BY <2>1, <2>4 DEF res_Push, BackupInTime
    <3> QED
        BY <2>2, <3>1 DEF CoverInv, Enabled
  <2>5. CASE ~(maxCount > 0 /\ backupPeriod > 0)
    <3>1. covered' = covered /\ ~Enabled
        BY <2>1, <2>5 DEF res_Push, backup, Enabled
    <3> QED
        BY <3>1 DEF CoverInv
  <2> QED
      BY <2>3, <2>4, <2>5
<1>2. CASE BackupTimerExpired
  <2>1. Backup(buffer) /\ buffer' = buffer /\ (Enabled => Enabled')
      BY <1>2 DEF BackupTimerExpired, settings, data, Enabled
  <2> QED
      BY <1>0, <2>1, BackupCovers
<1>3. CASE \E n \in 0 .. MaxCount : obs_SetBufferMaxCount(n)
  <2>1. PICK n \in 0 .. MaxCount : obs_SetBufferMaxCount(n)
      BY <1>3
  <2>2. CASE n = 0 /\ backupPeriod > 0
      BY <2>1, <2>2 DEF obs_SetBufferMaxCount, DisableBackups, CoverInv
  <2>3. CASE ~(n = 0 /\ backupPeriod > 0)
    <3>1. UNCHANGED <<exists, backupPeriod, covered, pending, file>> /\ maxCount' = n
          /\ buffer' = TruncateBuffer(buffer, n)
        BY <2>1, <2>3 DEF obs_SetBufferMaxCount, backup
    <3>2. Enabled => Enabled'
        BY <2>3, <3>1 DEF Enabled
    <3>3. n \in Nat
        OBVIOUS
    <3>4. \A c \in Seq(Samples) : TailOf(buffer, c) => TailOf(buffer', c)
        BY <1>0, <3>1, <3>3, TailOfCut
    <3> QED
        BY <1>0, <3>1, <3>2, <3>4 DEF CoverInv
  <2> QED
      BY <2>2, <2>3
<1>4. CASE \E p \in Periods \cup {0} : obs_SetBufferBackupPeriod(p)
  <2>1. PICK p \in Periods \cup {0} : obs_SetBufferBackupPeriod(p)
      BY <1>4
  <2>2. CASE DisableBackups
      BY <2>2 DEF DisableBackups, CoverInv
  <2>3. UNCHANGED <<exists, maxCount, buffer>> /\ backupPeriod' = p
      BY <2>1 DEF obs_SetBufferBackupPeriod, data
  <2>4. CASE ~DisableBackups
    <3>1. Enabled => Enabled'
        BY <2>1, <2>3, <2>4 DEF obs_SetBufferBackupPeriod, Enabled
    <3>2. CASE CorrectTimer(p) /\ age > p
      <4>1. Backup(buffer)
          BY <3>2 DEF CorrectTimer
      <4> QED
          BY <1>0, <2>3, <3>1, <4>1, BackupCovers
    <3>3. CASE UNCHANGED <<file, pending, covered>>
        BY <2>3, <3>1, <3>3 DEF CoverInv
    <3>4. CorrectTimer(p) \/ UNCHANGED backup
        BY <2>1, <2>4 DEF obs_SetBufferBackupPeriod
    <3> QED
        BY <3>2, <3>3, <3>4 DEF CorrectTimer, backup
  <2> QED
      BY <2>2, <2>4
<1>5. CASE \E none \in BOOLEAN : res_SetTransform(none)
  <2>1. PICK none \in BOOLEAN : res_SetTransform(none)
      BY <1>5
  <2>2. UNCHANGED <<exists, backupPeriod, covered, pending, file>> /\ buffer' = <<>>
        /\ (maxCount > 0 => maxCount' > 0)
      BY <2>1 DEF res_SetTransform, backup
  <2>3. \A c \in Seq(Samples) : TailOf(<<>>, c)
    <3> SUFFICES ASSUME NEW c \in Seq(Samples) PROVE TailOf(<<>>, c)
        OBVIOUS
    <3> QED
        BY LenProperties, EmptySeq DEF TailOf
  <2> QED
      BY <1>0, <2>2, <2>3 DEF CoverInv, Enabled
<1>6. CASE (\E on \in BOOLEAN : res_SetFilter(on)) \/ res_StartUpdate \/ Tick \/ UNCHANGED vars
  <2>1. UNCHANGED <<exists, maxCount, backupPeriod, buffer, covered, pending, file>>
      BY <1>6 DEF res_SetFilter, res_StartUpdate, Tick, vars, settings, data, backup
  <2> QED
      BY <2>1 DEF CoverInv, Enabled
<1>7. CASE res_EndUpdate
  <2>1. UNCHANGED <<exists, maxCount, backupPeriod, buffer, covered, pending>>
        /\ (Enabled => file' = file)
      BY <1>7 DEF res_EndUpdate, settings, data, Enabled
  <2> QED
      BY <2>1 DEF CoverInv, Enabled
<1>8. CASE resTree_GetObservation \/ resTree_DeleteObservation \/ Restart
    BY <1>8 DEF resTree_GetObservation, resTree_DeleteObservation, Restart, Fresh, CoverInv
<1>9. CASE StaleTimerExpired
  <2>1. CASE Restart
      BY <2>1 DEF Restart, Fresh, CoverInv
  <2>2. CASE ~Restart
    <3>1. Backup(buffer) /\ buffer' = buffer /\ (Enabled => Enabled')
        BY <1>9, <2>2 DEF StaleTimerExpired, settings, data, Enabled
    <3> QED
        BY <1>0, <3>1, BackupCovers
  <2> QED
      BY <2>1, <2>2
<1> QED
    BY <1>1, <1>2, <1>3, <1>4, <1>5, <1>6, <1>7, <1>8, <1>9 DEF Next

\* A buffer that was backed up, and has had no sample since, is the end of what is
\* in the file: no setting, deletion or end of an update takes the file away from an
\* Observation that still backs up.
THEOREM FileStaysBehindBuffer == Spec => []FileCoversBuffer
<1>1. Init => CoverInv
    BY DEF Init, CoverInv
<1>2. ObsInv /\ CoverInv /\ [Next]_vars => CoverInv'
    BY CoverStep
<1>3. ObsInv /\ CoverInv => FileCoversBuffer
  <2> SUFFICES ASSUME ObsInv, CoverInv, covered, ~pending
               PROVE  file # None /\ IsSuffix(buffer, file.samples)
      BY DEF FileCoversBuffer
  <2>1. file # None /\ TailOf(buffer, file.samples)
      BY DEF CoverInv
  <2>2. buffer \in Seq(Samples) /\ file.samples \in Seq(Samples)
      BY <2>1 DEF ObsInv, DataOK, BackupOK, Files
  <2> QED
      BY <2>1, <2>2, SuffixIsTail
<1> QED
    BY <1>1, <1>2, <1>3, ObsInvariant, PTL DEF Spec

=============================================================================
