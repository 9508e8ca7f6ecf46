----------------------------- MODULE ConfigStore -----------------------------
(***************************************************************************)
(* The configuration files of the payload (payload/config.cpp): config_load *)
(* at boot, config_save from the boot path and from the two handlers of the *)
(* web worker that change the settings (payload/web_server.cpp), with the   *)
(* ways a save can be cut short.  Only one thread saves: the boot path is   *)
(* over before the worker starts.                                           *)
(*                                                                          *)
(* A configuration is a model value.  What a file system may lose is        *)
(* explicit: atRisk[f] is everything a power cut may leave in file f, and   *)
(* fsync() narrows it to what the file holds.  A crash of the process       *)
(* leaves the files as they are.                                            *)
(***************************************************************************)
EXTENDS Naturals, FiniteSets, Sequences

CONSTANTS
    Configs,
    Defaults,   \* config_set_defaults()
    NoFile,
    Empty,      \* created or truncated, nothing written
    Partial     \* some prefix of a configuration

ASSUME DefaultsAssumption == Defaults \in Configs
ASSUME ContentAssumption ==
    /\ Configs \cap {NoFile, Empty, Partial} = {}
    /\ NoFile # Empty /\ NoFile # Partial /\ Empty # Partial

(* /data/overlay/config.ini, /data/ps5_overlay.ini and a copy the user put  *)
(* at /user/data/overlay/config.ini, which is only read.                    *)
Saved == {"primary", "mirror"}
File == Saved \cup {"user"}
Content == Configs \cup {NoFile, Empty, Partial}

VARIABLES
    disk,       \* what a read of each file returns
    atRisk,     \* what a power cut may leave of it
    pc,
    target,     \* the file config_save() is at
    saving,     \* its argument
    caller,     \* "boot" or "request"
    g_config,
    expected,   \* history: acknowledged last, or offered to a save since
    broken,     \* history: the copies whose last save was not completed
    unread      \* history: the files there are that this start could not open

fileVars == <<disk, atRisk>>
saveVars == <<target, saving, caller>>
vars == <<fileVars, pc, saveVars, g_config, expected, broken, unread>>

TypeOK ==
    /\ disk \in [File -> Content]
    /\ atRisk \in [File -> SUBSET Content]
    /\ \A f \in File : disk[f] \in atRisk[f]
    /\ pc \in {"down", "serving", "open", "write", "sync", "saved"}
    /\ target \in Saved
    /\ saving \in Configs
    /\ caller \in {"boot", "request"}
    /\ g_config \in Configs
    /\ expected \in SUBSET Configs
    /\ broken \in SUBSET Saved
    /\ unread \in SUBSET File

(* First start: nothing was saved yet. *)
Init ==
    /\ disk \in {[f \in File |-> IF f = "user" THEN u ELSE NoFile] : u \in Configs \cup {NoFile}}
    /\ atRisk = [f \in File |-> {disk[f]}]
    /\ pc = "down"
    /\ target = "primary" /\ saving = Defaults /\ caller = "boot"
    /\ g_config = Defaults
    /\ expected = {IF disk["user"] = NoFile THEN Defaults ELSE disk["user"]}
    /\ broken = Saved /\ unread = {}
-----------------------------------------------------------------------------
(* config_load: the first of the files that can be opened.  An open() that  *)
(* fails, whatever for, counts as a file that is not there.                 *)
ReadOrder_MirrorFirst == <<"mirror", "primary", "user">>

ReadOrder == <<"primary", "mirror", "user">>

Present == {f \in File : disk[f] # NoFile}

(* Nothing read: the defaults stay.  A prefix: any mix with the defaults. *)
Parsed(content) ==
    IF content \in Configs THEN {content} ELSE IF content = Empty THEN {Defaults} ELSE Configs

(* A read() that fails leaves the defaults, and no other file is tried.     *)
Load ==
    /\ pc = "down"
    /\ \E i \in 1 .. 3 :
          /\ ReadOrder[i] \in Present
          /\ \/ /\ g_config' \in Parsed(disk[ReadOrder[i]])
                /\ unread' = {ReadOrder[j] : j \in 1 .. i - 1} \cap Present
             \/ g_config' = Defaults /\ unread' = File
    /\ pc' = "serving"
    /\ UNCHANGED <<fileVars, saveVars, expected, broken>>

StartSave(c, who) ==
    /\ saving' = c /\ caller' = who /\ target' = "primary"
    /\ pc' = "open"
    /\ expected' = expected \cup {c}
    /\ UNCHANGED <<fileVars, broken>>

(* No file that can be opened: the defaults are saved. *)
NothingToLoad ==
    /\ pc = "down"
    /\ g_config' = Defaults /\ unread' = Present
    /\ StartSave(Defaults, "boot")

PostConfig(c) == pc = "serving" /\ StartSave(c, "request") /\ UNCHANGED <<g_config, unread>>

PostReset == pc = "serving" /\ StartSave(Defaults, "request") /\ UNCHANGED <<g_config, unread>>
-----------------------------------------------------------------------------
(* config_save: open, write, fsync of the primary, then of the mirror. No   *)
(* result but that of open() is looked at.                                  *)

FileDone == IF target = "primary" THEN pc' = "open" /\ target' = "mirror"
                                  ELSE pc' = "saved" /\ UNCHANGED target

OpenTrunc ==
    /\ pc = "open"
    /\ disk' = [disk EXCEPT ![target] = Empty]
    /\ atRisk' = [atRisk EXCEPT ![target] = @ \cup {Empty}]
    /\ pc' = "write"
    /\ UNCHANGED <<saveVars, g_config, expected, broken, unread>>

OpenFails ==
    /\ pc = "open"
    /\ FileDone
    /\ broken' = broken \cup {target}
    /\ UNCHANGED <<fileVars, saving, caller, g_config, expected, unread>>

Write ==
    /\ pc = "write"
    /\ disk' = [disk EXCEPT ![target] = saving]
    /\ atRisk' = [atRisk EXCEPT ![target] = @ \cup {Partial, saving}]
    /\ broken' = broken \ {target}
    /\ pc' = "sync"
    /\ UNCHANGED <<saveVars, g_config, expected, unread>>

(* No space, an I/O error, a short count. *)
WriteFails ==
    /\ pc = "write"
    /\ \E left \in {Empty, Partial} :
          /\ disk' = [disk EXCEPT ![target] = left]
          /\ atRisk' = [atRisk EXCEPT ![target] = @ \cup {left}]
    /\ broken' = broken \cup {target}
    /\ pc' = "sync"
    /\ UNCHANGED <<saveVars, g_config, expected, unread>>

(* Faulty saves: fsync() of the other descriptor; no fsync() at all. *)
Sync_WrongCopy ==
    /\ pc = "sync"
    /\ atRisk' = [atRisk EXCEPT ![IF target = "primary" THEN "mirror" ELSE "primary"] = {disk[target]}]
    /\ FileDone
    /\ UNCHANGED <<disk, saving, caller, g_config, expected, broken, unread>>

Sync_CloseOnly ==
    /\ pc = "sync"
    /\ FileDone
    /\ UNCHANGED <<fileVars, saving, caller, g_config, expected, broken, unread>>

Sync ==
    /\ pc = "sync"
    /\ atRisk' = [atRisk EXCEPT ![target] = {disk[target]}]
    /\ FileDone
    /\ UNCHANGED <<disk, saving, caller, g_config, expected, broken, unread>>

SyncFails ==
    /\ pc = "sync"
    /\ FileDone
    /\ broken' = broken \cup {target}
    /\ UNCHANGED <<fileVars, saving, caller, g_config, expected, unread>>

(* A faulty handler: the reply is sent, g_config keeps the old settings. *)
SaveReturns_Forgets ==
    /\ pc = "saved"
    /\ expected' = {saving}
    /\ pc' = "serving" /\ unread' = {}
    /\ UNCHANGED <<fileVars, saveVars, g_config, broken>>

(* Back in the handler: g_config is assigned and the reply sent, whatever   *)
(* became of the save.                                                      *)
SaveReturns ==
    /\ pc = "saved"
    /\ g_config' = IF caller = "request" THEN saving ELSE g_config
    /\ expected' = {saving}
    /\ pc' = "serving" /\ unread' = {}
    /\ UNCHANGED <<fileVars, saveVars, broken>>
-----------------------------------------------------------------------------
(* A dead process: its variables are set up again by the next start. *)
NoProcess ==
    /\ pc' = "down"
    /\ target' = "primary" /\ saving' = Defaults /\ caller' = "boot"
    /\ g_config' = Defaults /\ unread' = {}

MidFile == IF pc \in {"write", "sync"} THEN {target} ELSE {}

(* The process ends: unloaded, killed, or crashed in the middle of a save. *)
Crash ==
    /\ pc # "down" /\ NoProcess
    /\ broken' = broken \cup MidFile
    /\ UNCHANGED <<fileVars, expected>>

PowerCut ==
    /\ NoProcess
    /\ disk' \in {d \in [File -> Content] : \A f \in File : d[f] \in atRisk[f]}
    /\ atRisk' = [f \in File |-> {disk'[f]}]
    /\ broken' = broken \cup MidFile
    /\ UNCHANGED expected

Next ==
    \/ Load \/ NothingToLoad
    \/ \E c \in Configs : PostConfig(c)
    \/ PostReset
    \/ OpenTrunc \/ OpenFails \/ Write \/ WriteFails \/ Sync \/ SyncFails
    \/ SaveReturns
    \/ Crash \/ PowerCut

Spec == Init /\ [][Next]_vars
-----------------------------------------------------------------------------
(* Unless the last save of the file that is read was cut short or failed,   *)
(* what runs after a start is what was acknowledged last, or was being saved*)
(* when the process ended; it is never an older setting and never a mix.    *)
(* The mirror serves when there is no primary, or none that can be opened.  *)
(* Defaults that a start has saved count as acknowledged: see              *)
(* DefaultsOnlyAtNeed for when there are such.                             *)
Readable ==
    \/ "primary" \notin broken \cup unread
    \/ /\ disk["primary"] = NoFile \/ "primary" \in unread
       /\ "mirror" \notin broken \cup unread
SettingsSurvive == pc = "serving" /\ Readable => g_config \in expected

(* The copies are written one after the other and each is on the disk       *)
(* before the next is touched: while at most one of them is being written   *)
(* or was left unfinished, the other one survives a power cut at any step.  *)
Damaged == broken \cup MidFile
OneCopyIntact ==
    \A f \in Saved \ Damaged : atRisk[f] \subseteq expected

(* Between two saves the running settings are the ones the disk cannot      *)
(* lose: the handler assigns g_config after the save, from the same value.  *)
RunningIsDurable ==
    pc = "serving" /\ "primary" \notin broken \cup unread => atRisk["primary"] = {g_config}

(* A start replaces the settings by the defaults only when the save of each *)
(* copy was cut short, or failed, or the copy is there and does not open.   *)
DefaultsOnlyAtNeed ==
    [][pc = "down" /\ pc' = "open" => Saved \subseteq broken \cup unread']_vars

(* config.cpp calls the mirror "a guaranteed root fallback": a start that   *)
(* has a completely saved mirror before it runs with settings as new.       *)
FallbackGuaranteed ==
    pc = "serving" /\ "mirror" \notin broken \cup unread => g_config \in expected
=============================================================================
