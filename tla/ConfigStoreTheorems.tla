------------------------ MODULE ConfigStoreTheorems -------------------------
(* What the two copies of the configuration guarantee, for every set of      *)
(* configurations and every sequence of saves, failures, crashes and power   *)
(* cuts.                                                                     *)
EXTENDS ConfigStore, TLAPS

InSave == pc \in {"open", "write", "sync", "saved"}

(* The copies the running save has finished with. *)
Done == IF pc = "saved" THEN Saved ELSE IF InSave /\ target = "mirror" THEN {"primary"} ELSE {}

(* A copy neither broken nor being written is on the disk as it reads; the   *)
(* ones the running save has finished hold what it saves.                    *)
Settled == \A f \in Saved \ Damaged : atRisk[f] = {disk[f]}
DoneHolds == \A f \in Done \ broken : disk[f] = saving
Writing ==
    /\ InSave => saving \in expected /\ (caller = "boot" => g_config = saving)
    /\ pc = "sync" /\ target \notin broken => disk[target] = saving

IInv ==
    /\ TypeOK /\ Settled /\ DoneHolds /\ Writing
    /\ OneCopyIntact /\ RunningIsDurable /\ SettingsSurvive
LEMMA InitIInv == Init => IInv
<1> SUFFICES ASSUME Init PROVE IInv
  OBVIOUS
<1>1. \A f \in Saved : disk[f] = NoFile
  BY DEF Init, File, Saved
<1>2. disk \in [File -> Content] /\ disk["user"] \in Configs \cup {NoFile}
  BY DEF Init, File, Saved, Content
<1>3. /\ pc = "down" /\ target = "primary" /\ saving = Defaults /\ caller = "boot"
      /\ g_config = Defaults /\ broken = Saved /\ atRisk = [f \in File |-> {disk[f]}]
      /\ expected \in SUBSET Configs /\ unread = {}
  BY <1>2, DefaultsAssumption DEF Init
<1>4. TypeOK
  BY <1>2, <1>3, DefaultsAssumption DEF TypeOK, Saved
<1> QED
  BY <1>1, <1>3, <1>4, ContentAssumption
  DEF IInv, Settled, DoneHolds, Writing, Damaged, Done, InSave, OneCopyIntact,
      RunningIsDurable, SettingsSurvive, Readable, Saved

(* What a start that reads a file has read, and what it could not open.      *)
LEMMA StartReads ==
    ASSUME Load, unread' # File
    PROVE  \E i \in 1 .. 3 :
              /\ g_config' \in Parsed(disk[ReadOrder[i]])
              /\ disk[ReadOrder[i]] # NoFile
              /\ "primary" \in unread' <=> i # 1 /\ disk["primary"] # NoFile
              /\ "mirror" \in unread' <=> i = 3 /\ disk["mirror"] # NoFile
<1>1. PICK i \in 1 .. 3 : /\ ReadOrder[i] \in Present
                          /\ g_config' \in Parsed(disk[ReadOrder[i]])
                          /\ unread' = {ReadOrder[j] : j \in 1 .. i - 1} \cap Present
  BY DEF Load
<1>2. ReadOrder[1] = "primary" /\ ReadOrder[2] = "mirror" /\ ReadOrder[3] = "user"
  BY DEF ReadOrder
<1>3. \A f \in {"primary", "mirror"} : f \in Present <=> disk[f] # NoFile
  BY DEF Present, File, Saved
<1>4. CASE i = 1
  BY <1>1, <1>2, <1>3, <1>4 DEF Present
<1>5. CASE i = 2
  <2>1. unread' = {"primary"} \cap Present
    <3>1. 1 .. i - 1 = {1}
      BY <1>5
    <3> QED
      BY <1>1, <1>2, <3>1
  <2> QED
    BY <1>1, <1>2, <1>3, <1>5, <2>1 DEF Present
<1>6. CASE i = 3
  <2>1. unread' = {"primary", "mirror"} \cap Present
    <3>1. 1 .. i - 1 = {1, 2}
      BY <1>6
    <3> QED
      BY <1>1, <1>2, <3>1
  <2> QED
    BY <1>1, <1>2, <1>3, <1>6, <2>1 DEF Present
<1> QED
  BY <1>4, <1>5, <1>6

LEMMA NextIInv == IInv /\ [Next]_vars => IInv'
<1> SUFFICES ASSUME IInv, [Next]_vars PROVE IInv'
  OBVIOUS
<1>0. /\ TypeOK /\ Settled /\ DoneHolds /\ Writing
      /\ OneCopyIntact /\ RunningIsDurable /\ SettingsSurvive
  BY DEF IInv
<1> USE DEF vars, fileVars, saveVars
<1>1. CASE Load
  <2>1. TypeOK'
    <3>1. \A c \in Content : Parsed(c) \in SUBSET Configs
      BY DefaultsAssumption DEF Parsed, Content
    <3>2. g_config' \in Configs
      BY <1>0, <1>1, <3>1, DefaultsAssumption DEF Load, TypeOK, Present
    <3>3. unread' \in SUBSET File
      BY <1>1 DEF Load, Present
    <3> QED
      BY <1>0, <1>1, <3>2, <3>3 DEF Load, TypeOK
  <2>2. Settled'
    BY <1>0, <1>1 DEF Load, TypeOK, Settled, Damaged, MidFile, Saved, File
  <2>3. DoneHolds'
    BY <1>0, <1>1 DEF Load, TypeOK, DoneHolds, Done, InSave, Writing, Saved, File
  <2>4. Writing'
    BY <1>0, <1>1 DEF Load, TypeOK, Writing, InSave, Saved, File
  <2>5. OneCopyIntact'
    BY <1>0, <1>1 DEF Load, TypeOK, OneCopyIntact, Damaged, MidFile, Settled, DoneHolds, Done, InSave, Writing, Saved, File
  <2>6. RunningIsDurable'
    <3> SUFFICES ASSUME "primary" \notin broken \cup unread'
                 PROVE  atRisk["primary"] = {g_config'}
      BY <1>1 DEF Load, RunningIsDurable
    <3>1. atRisk["primary"] = {disk["primary"]} /\ disk["primary"] \in Configs
      BY <1>0, <1>1 DEF Load, TypeOK, Settled, OneCopyIntact, Damaged, MidFile, Saved, File
    <3>2. unread' # File
      BY DEF File, Saved
    <3>3. PICK i \in 1 .. 3 :
             /\ g_config' \in Parsed(disk[ReadOrder[i]])
             /\ "primary" \in unread' <=> i # 1 /\ disk["primary"] # NoFile
      BY <1>1, <3>2, StartReads
    <3>4. i = 1
      BY <3>1, <3>3, ContentAssumption
    <3>5. g_config' \in Parsed(disk["primary"])
      BY <3>3, <3>4 DEF ReadOrder
    <3> QED
      BY <3>1, <3>5 DEF Parsed
  <2>7. SettingsSurvive'
    <3> SUFFICES ASSUME Readable' PROVE g_config' \in expected
      BY <1>1 DEF Load, SettingsSurvive
    <3>1. unread' # File /\ UNCHANGED <<disk, broken>>
      BY <1>1 DEF Load, Readable, File, Saved
    <3>2. \A g \in Saved \ broken : disk[g] \in expected /\ disk[g] \in Configs
      BY <1>0, <1>1 DEF Load, TypeOK, Settled, OneCopyIntact, Damaged, MidFile, Saved, File
    <3>3. PICK i \in 1 .. 3 :
             /\ g_config' \in Parsed(disk[ReadOrder[i]])
             /\ disk[ReadOrder[i]] # NoFile
             /\ "primary" \in unread' <=> i # 1 /\ disk["primary"] # NoFile
             /\ "mirror" \in unread' <=> i = 3 /\ disk["mirror"] # NoFile
      BY <1>1, <3>1, StartReads
    <3>4. ReadOrder[1] = "primary" /\ ReadOrder[2] = "mirror"
      BY DEF ReadOrder
    <3>5. ReadOrder[i] \in Saved \ broken
      <4>1. CASE "primary" \notin broken \cup unread'
        BY <3>2, <3>3, <3>4, <4>1, ContentAssumption DEF Saved
      <4>2. CASE /\ disk["primary"] = NoFile \/ "primary" \in unread'
                 /\ "mirror" \notin broken \cup unread'
        BY <3>2, <3>3, <3>4, <4>2, ContentAssumption DEF Saved
      <4> QED
        BY <3>1, <4>1, <4>2 DEF Readable
    <3> QED
      BY <3>2, <3>3, <3>5 DEF Parsed
  <2> QED
    BY <2>1, <2>2, <2>3, <2>4, <2>5, <2>6, <2>7 DEF IInv
<1>2. CASE NothingToLoad
  <2>1. TypeOK'
    BY <1>0, <1>2, DefaultsAssumption DEF NothingToLoad, StartSave, Present, TypeOK, Saved, File, Content
  <2>2. Settled'
    BY <1>0, <1>2 DEF NothingToLoad, StartSave, TypeOK, Settled, Damaged, MidFile, Saved, File
  <2>3. DoneHolds'
    BY <1>0, <1>2 DEF NothingToLoad, StartSave, TypeOK, DoneHolds, Done, InSave, Writing, Saved, File
  <2>4. Writing'
    BY <1>0, <1>2, DefaultsAssumption DEF NothingToLoad, StartSave, TypeOK, Writing, InSave, Saved, File
  <2>5. OneCopyIntact'
    BY <1>0, <1>2 DEF NothingToLoad, StartSave, TypeOK, OneCopyIntact, Damaged, MidFile, Settled, DoneHolds, Done, InSave, Writing, Saved, File
  <2>6. RunningIsDurable'
    BY <1>0, <1>2 DEF NothingToLoad, StartSave, TypeOK, RunningIsDurable, Damaged, MidFile, Settled, DoneHolds, Done, InSave, Writing, Saved, File
  <2>7. SettingsSurvive'
    BY <1>0, <1>2, DefaultsAssumption DEF NothingToLoad, StartSave, TypeOK, SettingsSurvive, Readable, Writing, InSave, Saved, File
  <2> QED
    BY <2>1, <2>2, <2>3, <2>4, <2>5, <2>6, <2>7 DEF IInv
<1>3. CASE \E c \in Configs : PostConfig(c)
  <2>1. TypeOK'
    BY <1>0, <1>3 DEF PostConfig, StartSave, TypeOK, Saved, File, Content
  <2>2. Settled'
    BY <1>0, <1>3 DEF PostConfig, StartSave, TypeOK, Settled, Damaged, MidFile, Saved, File
  <2>3. DoneHolds'
    BY <1>0, <1>3 DEF PostConfig, StartSave, TypeOK, DoneHolds, Done, InSave, Writing, Saved, File
  <2>4. Writing'
    BY <1>0, <1>3 DEF PostConfig, StartSave, TypeOK, Writing, InSave, Saved, File
  <2>5. OneCopyIntact'
    BY <1>0, <1>3 DEF PostConfig, StartSave, TypeOK, OneCopyIntact, Damaged, MidFile, Settled, DoneHolds, Done, InSave, Writing, Saved, File
  <2>6. RunningIsDurable'
    BY <1>0, <1>3 DEF PostConfig, StartSave, TypeOK, RunningIsDurable, Damaged, MidFile, Settled, DoneHolds, Done, InSave, Writing, Saved, File
  <2>7. SettingsSurvive'
    BY <1>0, <1>3 DEF PostConfig, StartSave, TypeOK, SettingsSurvive, Readable, Writing, InSave, Saved, File
  <2> QED
    BY <2>1, <2>2, <2>3, <2>4, <2>5, <2>6, <2>7 DEF IInv
<1>4. CASE PostReset
  <2>1. TypeOK'
    BY <1>0, <1>4, DefaultsAssumption DEF PostReset, StartSave, TypeOK, Saved, File, Content
  <2>2. Settled'
    BY <1>0, <1>4 DEF PostReset, StartSave, TypeOK, Settled, Damaged, MidFile, Saved, File
  <2>3. DoneHolds'
    BY <1>0, <1>4 DEF PostReset, StartSave, TypeOK, DoneHolds, Done, InSave, Writing, Saved, File
  <2>4. Writing'
    BY <1>0, <1>4, DefaultsAssumption DEF PostReset, StartSave, TypeOK, Writing, InSave, Saved, File
  <2>5. OneCopyIntact'
    BY <1>0, <1>4 DEF PostReset, StartSave, TypeOK, OneCopyIntact, Damaged, MidFile, Settled, DoneHolds, Done, InSave, Writing, Saved, File
  <2>6. RunningIsDurable'
    BY <1>0, <1>4 DEF PostReset, StartSave, TypeOK, RunningIsDurable, Damaged, MidFile, Settled, DoneHolds, Done, InSave, Writing, Saved, File
  <2>7. SettingsSurvive'
    BY <1>0, <1>4, DefaultsAssumption DEF PostReset, StartSave, TypeOK, SettingsSurvive, Readable, Writing, InSave, Saved, File
  <2> QED
    BY <2>1, <2>2, <2>3, <2>4, <2>5, <2>6, <2>7 DEF IInv
<1>5. CASE OpenTrunc
  <2>1. TypeOK'
    BY <1>0, <1>5 DEF OpenTrunc, TypeOK, Saved, File, Content
  <2>2. Settled'
    BY <1>0, <1>5 DEF OpenTrunc, TypeOK, Settled, Damaged, MidFile, Saved, File
  <2>3. DoneHolds'
    BY <1>0, <1>5 DEF OpenTrunc, TypeOK, DoneHolds, Done, InSave, Writing, Saved, File
  <2>4. Writing'
    BY <1>0, <1>5 DEF OpenTrunc, TypeOK, Writing, InSave, Saved, File
  <2>5. OneCopyIntact'
    BY <1>0, <1>5 DEF OpenTrunc, TypeOK, OneCopyIntact, Damaged, MidFile, Settled, DoneHolds, Done, InSave, Writing, Saved, File
  <2>6. RunningIsDurable'
    BY <1>0, <1>5 DEF OpenTrunc, TypeOK, RunningIsDurable, Damaged, MidFile, Settled, DoneHolds, Done, InSave, Writing, Saved, File
  <2>7. SettingsSurvive'
    BY <1>0, <1>5 DEF OpenTrunc, TypeOK, SettingsSurvive, Readable, Writing, InSave, Saved, File
  <2> QED
    BY <2>1, <2>2, <2>3, <2>4, <2>5, <2>6, <2>7 DEF IInv
<1>6. CASE OpenFails
  <2>1. TypeOK'
    BY <1>0, <1>6 DEF OpenFails, FileDone, TypeOK, Saved, File, Content
  <2>2. Settled'
    BY <1>0, <1>6 DEF OpenFails, FileDone, TypeOK, Settled, Damaged, MidFile, Saved, File
  <2>3. DoneHolds'
    BY <1>0, <1>6 DEF OpenFails, FileDone, TypeOK, DoneHolds, Done, InSave, Writing, Saved, File
  <2>4. Writing'
    BY <1>0, <1>6 DEF OpenFails, FileDone, TypeOK, Writing, InSave, Saved, File
  <2>5. OneCopyIntact'
    BY <1>0, <1>6 DEF OpenFails, FileDone, TypeOK, OneCopyIntact, Damaged, MidFile, Settled, DoneHolds, Done, InSave, Writing, Saved, File
  <2>6. RunningIsDurable'
    BY <1>0, <1>6 DEF OpenFails, FileDone, TypeOK, RunningIsDurable, Damaged, MidFile, Settled, DoneHolds, Done, InSave, Writing, Saved, File
  <2>7. SettingsSurvive'
    BY <1>0, <1>6 DEF OpenFails, FileDone, TypeOK, SettingsSurvive, Readable, Writing, InSave, Saved, File
  <2> QED
    BY <2>1, <2>2, <2>3, <2>4, <2>5, <2>6, <2>7 DEF IInv
<1>7. CASE Write
  <2>1. TypeOK'
    BY <1>0, <1>7 DEF Write, TypeOK, Saved, File, Content
  <2>2. Settled'
    BY <1>0, <1>7 DEF Write, TypeOK, Settled, Damaged, MidFile, Saved, File
  <2>3. DoneHolds'
    BY <1>0, <1>7 DEF Write, TypeOK, DoneHolds, Done, InSave, Writing, Saved, File
  <2>4. Writing'
    BY <1>0, <1>7 DEF Write, TypeOK, Writing, InSave, Saved, File
  <2>5. OneCopyIntact'
    BY <1>0, <1>7 DEF Write, TypeOK, OneCopyIntact, Damaged, MidFile, Settled, DoneHolds, Done, InSave, Writing, Saved, File
  <2>6. RunningIsDurable'
    BY <1>0, <1>7 DEF Write, TypeOK, RunningIsDurable, Damaged, MidFile, Settled, DoneHolds, Done, InSave, Writing, Saved, File
  <2>7. SettingsSurvive'
    BY <1>0, <1>7 DEF Write, TypeOK, SettingsSurvive, Readable, Writing, InSave, Saved, File
  <2> QED
    BY <2>1, <2>2, <2>3, <2>4, <2>5, <2>6, <2>7 DEF IInv
<1>8. CASE WriteFails
  <2>1. TypeOK'
    BY <1>0, <1>8 DEF WriteFails, TypeOK, Saved, File, Content
  <2>2. Settled'
    BY <1>0, <1>8 DEF WriteFails, TypeOK, Settled, Damaged, MidFile, Saved, File
  <2>3. DoneHolds'
    BY <1>0, <1>8 DEF WriteFails, TypeOK, DoneHolds, Done, InSave, Writing, Saved, File
  <2>4. Writing'
    BY <1>0, <1>8 DEF WriteFails, TypeOK, Writing, InSave, Saved, File
  <2>5. OneCopyIntact'
    BY <1>0, <1>8 DEF WriteFails, TypeOK, OneCopyIntact, Damaged, MidFile, Settled, DoneHolds, Done, InSave, Writing, Saved, File
  <2>6. RunningIsDurable'
    BY <1>0, <1>8 DEF WriteFails, TypeOK, RunningIsDurable, Damaged, MidFile, Settled, DoneHolds, Done, InSave, Writing, Saved, File
  <2>7. SettingsSurvive'
    BY <1>0, <1>8 DEF WriteFails, TypeOK, SettingsSurvive, Readable, Writing, InSave, Saved, File
  <2> QED
    BY <2>1, <2>2, <2>3, <2>4, <2>5, <2>6, <2>7 DEF IInv
<1>9. CASE Sync
  <2>1. TypeOK'
    BY <1>0, <1>9 DEF Sync, FileDone, TypeOK, Saved, File, Content
  <2>2. Settled'
    BY <1>0, <1>9 DEF Sync, FileDone, TypeOK, Settled, Damaged, MidFile, Saved, File
  <2>3. DoneHolds'
    BY <1>0, <1>9 DEF Sync, FileDone, TypeOK, DoneHolds, Done, InSave, Writing, Saved, File
  <2>4. Writing'
    BY <1>0, <1>9 DEF Sync, FileDone, TypeOK, Writing, InSave, Saved, File
  <2>5. OneCopyIntact'
    BY <1>0, <1>9 DEF Sync, FileDone, TypeOK, OneCopyIntact, Damaged, MidFile, Settled, DoneHolds, Done, InSave, Writing, Saved, File
  <2>6. RunningIsDurable'
    BY <1>0, <1>9 DEF Sync, FileDone, TypeOK, RunningIsDurable, Damaged, MidFile, Settled, DoneHolds, Done, InSave, Writing, Saved, File
  <2>7. SettingsSurvive'
    BY <1>0, <1>9 DEF Sync, FileDone, TypeOK, SettingsSurvive, Readable, Writing, InSave, Saved, File
  <2> QED
    BY <2>1, <2>2, <2>3, <2>4, <2>5, <2>6, <2>7 DEF IInv
<1>10. CASE SyncFails
  <2>1. TypeOK'
    BY <1>0, <1>10 DEF SyncFails, FileDone, TypeOK, Saved, File, Content
  <2>2. Settled'
    BY <1>0, <1>10 DEF SyncFails, FileDone, TypeOK, Settled, Damaged, MidFile, Saved, File
  <2>3. DoneHolds'
    BY <1>0, <1>10 DEF SyncFails, FileDone, TypeOK, DoneHolds, Done, InSave, Writing, Saved, File
  <2>4. Writing'
    BY <1>0, <1>10 DEF SyncFails, FileDone, TypeOK, Writing, InSave, Saved, File
  <2>5. OneCopyIntact'
    BY <1>0, <1>10 DEF SyncFails, FileDone, TypeOK, OneCopyIntact, Damaged, MidFile, Settled, DoneHolds, Done, InSave, Writing, Saved, File
  <2>6. RunningIsDurable'
    BY <1>0, <1>10 DEF SyncFails, FileDone, TypeOK, RunningIsDurable, Damaged, MidFile, Settled, DoneHolds, Done, InSave, Writing, Saved, File
  <2>7. SettingsSurvive'
    BY <1>0, <1>10 DEF SyncFails, FileDone, TypeOK, SettingsSurvive, Readable, Writing, InSave, Saved, File
  <2> QED
    BY <2>1, <2>2, <2>3, <2>4, <2>5, <2>6, <2>7 DEF IInv
<1>11. CASE SaveReturns
  <2>1. TypeOK'
    BY <1>0, <1>11 DEF SaveReturns, TypeOK, Saved, File, Content
  <2>2. Settled'
    BY <1>0, <1>11 DEF SaveReturns, TypeOK, Settled, Damaged, MidFile, Saved, File
  <2>3. DoneHolds'
    BY <1>0, <1>11 DEF SaveReturns, TypeOK, DoneHolds, Done, InSave, Writing, Saved, File
  <2>4. Writing'
    BY <1>0, <1>11 DEF SaveReturns, TypeOK, Writing, InSave, Saved, File
  <2>5. OneCopyIntact'
    BY <1>0, <1>11 DEF SaveReturns, TypeOK, OneCopyIntact, Damaged, MidFile, Settled, DoneHolds, Done, InSave, Writing, Saved, File
  <2>6. RunningIsDurable'
    BY <1>0, <1>11 DEF SaveReturns, TypeOK, RunningIsDurable, Damaged, MidFile, Settled, DoneHolds, Done, InSave, Writing, Saved, File
  <2>7. SettingsSurvive'
    BY <1>0, <1>11 DEF SaveReturns, TypeOK, SettingsSurvive, Readable, Writing, InSave, Saved, File
  <2> QED
    BY <2>1, <2>2, <2>3, <2>4, <2>5, <2>6, <2>7 DEF IInv
<1>12. CASE Crash
  <2>1. TypeOK'
    <3>1. /\ pc' = "down" /\ target' \in Saved /\ saving' \in Configs /\ g_config' \in Configs
          /\ caller' \in {"boot", "request"} /\ expected' \in SUBSET Configs /\ unread' \in SUBSET File
      BY <1>0, <1>12, DefaultsAssumption DEF Crash, NoProcess, TypeOK, Saved
    <3>2. broken' \in SUBSET Saved
      BY <1>0, <1>12 DEF Crash, TypeOK, MidFile
    <3>3. /\ disk' \in [File -> Content] /\ atRisk' \in [File -> SUBSET Content]
          /\ \A f \in File : disk'[f] \in atRisk'[f]
      BY <1>0, <1>12 DEF Crash, TypeOK
    <3> QED
      BY <3>1, <3>2, <3>3 DEF TypeOK
  <2>2. Settled'
    BY <1>0, <1>12 DEF Crash, NoProcess, TypeOK, Settled, Damaged, MidFile, Saved, File
  <2>3. DoneHolds'
    BY <1>0, <1>12 DEF Crash, NoProcess, TypeOK, DoneHolds, Done, InSave, Writing, Saved, File
  <2>4. Writing'
    BY <1>0, <1>12 DEF Crash, NoProcess, TypeOK, Writing, InSave, Saved, File
  <2>5. OneCopyIntact'
    BY <1>0, <1>12 DEF Crash, NoProcess, TypeOK, OneCopyIntact, Damaged, MidFile, Settled, DoneHolds, Done, InSave, Writing, Saved, File
  <2>6. RunningIsDurable'
    BY <1>0, <1>12 DEF Crash, NoProcess, TypeOK, RunningIsDurable, Damaged, MidFile, Settled, DoneHolds, Done, InSave, Writing, Saved, File
  <2>7. SettingsSurvive'
    BY <1>0, <1>12 DEF Crash, NoProcess, TypeOK, SettingsSurvive, Readable, Writing, InSave, Saved, File
  <2> QED
    BY <2>1, <2>2, <2>3, <2>4, <2>5, <2>6, <2>7 DEF IInv
<1>13. CASE PowerCut
  <2>1. TypeOK'
    <3>1. /\ pc' = "down" /\ target' \in Saved /\ saving' \in Configs /\ g_config' \in Configs
          /\ caller' \in {"boot", "request"} /\ expected' \in SUBSET Configs /\ unread' \in SUBSET File
      BY <1>0, <1>13, DefaultsAssumption DEF PowerCut, NoProcess, TypeOK, Saved
    <3>2. broken' \in SUBSET Saved
      BY <1>0, <1>13 DEF PowerCut, TypeOK, MidFile
    <3>3. /\ disk' \in [File -> Content] /\ atRisk' \in [File -> SUBSET Content]
          /\ \A f \in File : disk'[f] \in atRisk'[f]
      BY <1>0, <1>13 DEF PowerCut, TypeOK
    <3> QED
      BY <3>1, <3>2, <3>3 DEF TypeOK
  <2>2. Settled'
    BY <1>0, <1>13 DEF PowerCut, NoProcess, TypeOK, Settled, Damaged, MidFile, Saved, File
  <2>3. DoneHolds'
    BY <1>0, <1>13 DEF PowerCut, NoProcess, TypeOK, DoneHolds, Done, InSave, Writing, Saved, File
  <2>4. Writing'
    BY <1>0, <1>13 DEF PowerCut, NoProcess, TypeOK, Writing, InSave, Saved, File
  <2>5. OneCopyIntact'
    BY <1>0, <1>13 DEF PowerCut, NoProcess, TypeOK, OneCopyIntact, Damaged, MidFile, Settled, DoneHolds, Done, InSave, Writing, Saved, File
  <2>6. RunningIsDurable'
    BY <1>0, <1>13 DEF PowerCut, NoProcess, TypeOK, RunningIsDurable, Damaged, MidFile, Settled, DoneHolds, Done, InSave, Writing, Saved, File
  <2>7. SettingsSurvive'
    BY <1>0, <1>13 DEF PowerCut, NoProcess, TypeOK, SettingsSurvive, Readable, Writing, InSave, Saved, File
  <2> QED
    BY <2>1, <2>2, <2>3, <2>4, <2>5, <2>6, <2>7 DEF IInv
<1>14. CASE UNCHANGED vars
  <2>1. TypeOK'
    BY <1>0, <1>14 DEF TypeOK, Saved, File, Content
  <2>2. Settled'
    BY <1>0, <1>14 DEF TypeOK, Settled, Damaged, MidFile, Saved, File
  <2>3. DoneHolds'
    BY <1>0, <1>14 DEF TypeOK, DoneHolds, Done, InSave, Writing, Saved, File
  <2>4. Writing'
    BY <1>0, <1>14 DEF TypeOK, Writing, InSave, Saved, File
  <2>5. OneCopyIntact'
    BY <1>0, <1>14 DEF TypeOK, OneCopyIntact, Damaged, MidFile, Settled, DoneHolds, Done, InSave, Writing, Saved, File
  <2>6. RunningIsDurable'
    BY <1>0, <1>14 DEF TypeOK, RunningIsDurable, Damaged, MidFile, Settled, DoneHolds, Done, InSave, Writing, Saved, File
  <2>7. SettingsSurvive'
    BY <1>0, <1>14 DEF TypeOK, SettingsSurvive, Readable, Writing, InSave, Saved, File
  <2> QED
    BY <2>1, <2>2, <2>3, <2>4, <2>5, <2>6, <2>7 DEF IInv
<1> QED
  BY <1>1, <1>2, <1>3, <1>4, <1>5, <1>6, <1>7, <1>8, <1>9, <1>10, <1>11, <1>12, <1>13, <1>14 DEF Next

LEMMA IInvHolds == Spec => []IInv
<1> QED
  BY InitIInv, NextIInv, PTL DEF Spec

(* Every file, every copy of the settings and every history variable keeps   *)
(* its type.                                                                 *)
THEOREM StoreTypeCorrect == Spec => []TypeOK
<1>1. IInv => TypeOK
  BY DEF IInv
<1> QED
  BY <1>1, IInvHolds, PTL

(* While at most one of the two copies is being written or was left          *)
(* unfinished, the other one holds acknowledged or offered settings and a    *)
(* power cut at any step of config_save() leaves it so.                      *)
THEOREM OneCopyAlwaysIntact == Spec => []OneCopyIntact
<1>1. IInv => OneCopyIntact
  BY DEF IInv
<1> QED
  BY <1>1, IInvHolds, PTL

(* After a complete save the settings that run are the settings the primary  *)
(* file cannot lose.                                                         *)
THEOREM RunningAlwaysDurable == Spec => []RunningIsDurable
<1>1. IInv => RunningIsDurable
  BY DEF IInv
<1> QED
  BY <1>1, IInvHolds, PTL

(* A restart never brings back older settings than the acknowledged ones     *)
(* unless the save of the file it reads was cut short or failed.             *)
THEOREM SettingsAlwaysSurvive == Spec => []SettingsSurvive
<1>1. IInv => SettingsSurvive
  BY DEF IInv
<1> QED
  BY <1>1, IInvHolds, PTL

(* A start puts the defaults in the place of settings only when each of the  *)
(* two copies was left unfinished, or does not open.                         *)
THEOREM DefaultsOnlyWhenNeeded == Spec => DefaultsOnlyAtNeed
<1>1. IInv /\ [Next]_vars => [pc = "down" /\ pc' = "open" => Saved \subseteq broken \cup unread']_vars
  <2> SUFFICES ASSUME IInv, Next, pc = "down", pc' = "open", NEW f \in Saved, f \notin broken
               PROVE  f \in unread'
    BY DEF vars
  <2>1. NothingToLoad
    BY DEF Next, Load, PostConfig, PostReset, OpenTrunc, OpenFails, Write, WriteFails, Sync,
           SyncFails, SaveReturns, Crash, PowerCut, NoProcess
  <2>2. disk[f] \in Configs
    BY DEF IInv, TypeOK, Settled, OneCopyIntact, Damaged, MidFile, Saved, File
  <2> QED
    BY <2>1, <2>2, ContentAssumption DEF NothingToLoad, Present, File
<1> QED
  BY <1>1, IInvHolds, PTL DEF Spec, DefaultsOnlyAtNeed
=============================================================================
