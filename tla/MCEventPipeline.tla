--------------------------- MODULE MCEventPipeline ---------------------------
(* Values for the constants of EventPipeline.                              *)
EXTENDS EventPipeline, TLC

CONSTANTS t1, t2, t3

OneTask == {t1}
ThreeTasks == {t1, t2, t3}
Tasks == Permutations(Task)

Modes == {"login", "register", "update"}

EveryEvent ==
  {RFIDScan(m) : m \in Modes} \cup {ChangeMode(m) : m \in Modes} \cup
  {CancelReservasi, GetAllReservasi, CreateSesi, DestroySesi, DestroyAllSesi,
   SyncAlarm, SendMetadataAudio, UploadAudioStart, UploadAudioEnd, UploadAudio,
   StreamImage}

OneHandler == {SyncAlarm}

AlarmRow == {[id |-> 1, label |-> "sync-alarm", kind |-> 1]}

\* Devices are blacklisted for row 3, browsers whitelisted for rows 1 and 4.
EveryRow ==
  {[id |-> 1, label |-> "login", kind |-> 1],
   [id |-> 2, label |-> "cancel-reservasi", kind |-> 1],
   [id |-> 3, label |-> "get-all-reservasi", kind |-> 1],
   [id |-> 4, label |-> "sync-alarm", kind |-> 2]}
=============================================================================
