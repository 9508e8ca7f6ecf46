------------------------------ MODULE ControlPage ------------------------------
(***************************************************************************)
(* The control page that payload/web_server.cpp serves, open in several    *)
(* browser tabs, against the configuration of the console: the page keeps  *)
(* a copy, currentConfig, that an answer of the console or the user's hand *)
(* replaces, and sends the whole copy when the user saves.  Requests are   *)
(* handled one at a time, in any order; a request or its answer may be     *)
(* lost.  Other clients, and the user's editor on config.ini, write too.   *)
(*                                                                         *)
(* A behaviour is about one setting.  The order of the metrics is parsed   *)
(* by the steps of ConfigOrder, every other setting by ConfigCodec.  What  *)
(* a save does to the files under failures is the subject of ConfigStore:  *)
(* here it succeeds.                                                       *)
(***************************************************************************)
EXTENDS ConfigCodec

CONSTANTS
    Page,
    Pending,        \* the order in the file, until it is written
    Default,        \* config_set_defaults(), by setting
    BuiltIn,        \* the page's own first currentConfig
    FallBack,       \* what resetConfig() sets when the console is silent
    Controls,       \* what the sliders, buttons and inputs of the page set
    ClientTexts,    \* what other clients send
    EditorTexts     \* what the user writes into config.ini

(* The defaults are values the program accepts.                             *)
ASSUME DefaultAssumption ==
    /\ \A s \in DOMAIN Number :
          Default[s] \in Int /\ InRange(s, Default[s]) /\ (s \in Integral => Default[s] \in Ints)
    /\ Default["bg_color"] # Absent /\ ~CutShort(Default["bg_color"])
    /\ Default["switches"] \in SwitchValues

(* Texts can hold anything: any number, any list of names, any sections.    *)
ASSUME TextAssumption ==
    /\ \A s \in DOMAIN Number :
          {BuiltIn[s], FallBack[s]} \cup Controls[s] \cup ClientTexts[s] \cup EditorTexts[s]
              \subseteq Int \cup {Absent}
    /\ {BuiltIn["order"], FallBack["order"]} \cup ClientTexts["order"]
          \subseteq Seq(Tokens("json"))
    /\ EditorTexts["order"] \subseteq Seq(Tokens("ini"))
    /\ \A text \in EditorTexts["switches"] : Len(text.sections) \in Nat

VARIABLES
    setting,
    running,    \* the setting in g_config (unless it is the order)
    file,       \* its text in config.ini
    edited,     \* what the user did to the file after the last save
    config,     \* currentConfig of each page
    synced,     \* history: it is what the console runs, or its text
    get, save, reset,   \* the requests of each page, and their answers
    event       \* history: the last change of the running configuration

consoleVars == <<running, file, edited, event>>
allVars == <<vars, setting, consoleVars, config, synced, get, save, reset>>

DefaultOrder == [s \in Slot |-> s]
OrderText(o) == [n \in 1 .. METRIC_COUNT |-> o[n - 1]]

Value == IF setting = "order" THEN order ELSE running
Idle == [state |-> "idle", text |-> Absent, fresh |-> FALSE]
Sent == [Idle EXCEPT !.state = "sent"]
NoEvent == [kind |-> "none", old |-> Absent, keep |-> FALSE]

(* Lists of every kind are parsed at first (ConfigOrder); the pages are     *)
(* open against a console that started without a file and saved the         *)
(* defaults.                                                                *)
PageInit ==
    /\ Init
    /\ setting \in IF source = "none" /\ order = DefaultOrder THEN Setting ELSE {"order"}
    /\ running = Default[setting]
    /\ file \in IF setting = "order" THEN {OrderText(DefaultOrder)} ELSE ToIni(setting, running)
    /\ edited = "no" /\ event = NoEvent
    /\ config = [p \in Page |-> BuiltIn[setting]]
    /\ synced = [p \in Page |-> FALSE]
    /\ get = [p \in Page |-> Sent]          \* DOMContentLoaded
    /\ save = [p \in Page |-> Idle]
    /\ reset = [p \in Page |-> Idle]

Open ==
    \/ event # NoEvent
    \/ source = "none" /\ order = DefaultOrder /\ pc = "done"

(* The worker is done with the request before.                              *)
Ready == Open /\ pc = "done" /\ file # Pending
-----------------------------------------------------------------------------
(* The page.                                                                *)
Toggle(text) == IF text = "true" THEN "false" ELSE "true"

Edits(text) ==
    CASE setting = "order" ->
            {[text EXCEPT ![i] = text[i + 1], ![i + 1] = text[i]] : i \in 1 .. Len(text) - 1}
      [] setting = "switches" ->
            {[text EXCEPT !.metrics[k] = Toggle(@)] :
                k \in {k \in Controls[setting] : text.metrics[k] # NoObject}}
      [] OTHER -> Controls[setting]

Edit(p) ==
    /\ Open
    /\ \E text \in Edits(config[p]) : config' = [config EXCEPT ![p] = text]
    /\ synced' = [synced EXCEPT ![p] = FALSE]
    /\ UNCHANGED <<vars, setting, consoleVars, get, save, reset>>

(* The button is disabled while a save is on its way.                       *)
ClickSave(p) ==
    /\ Open /\ save[p].state = "idle"
    /\ save' = [save EXCEPT ![p] = [state |-> "sent", text |-> config[p], fresh |-> synced[p]]]
    /\ UNCHANGED <<vars, setting, consoleVars, config, synced, get, reset>>

(* Bound: a page has one reset, and one load, on its way.                   *)
ClickReset(p) ==
    /\ Open /\ reset[p].state = "idle" /\ get[p].state = "idle"
    /\ reset' = [reset EXCEPT ![p] = Sent]
    /\ UNCHANGED <<vars, setting, consoleVars, config, synced, get, save>>

LoadAnswered(p) ==
    /\ Open /\ get[p].state \in {"ok", "failed"}
    /\ IF get[p].state = "ok"
       THEN /\ config' = [config EXCEPT ![p] = get[p].text]
            /\ synced' = [synced EXCEPT ![p] = get[p].fresh]
       ELSE UNCHANGED <<config, synced>>
    /\ get' = [get EXCEPT ![p] = Idle]
    /\ UNCHANGED <<vars, setting, consoleVars, save, reset>>

SaveAnswered(p) ==
    /\ Open /\ save[p].state \in {"ok", "failed"}
    /\ save' = [save EXCEPT ![p] = Idle]
    /\ UNCHANGED <<vars, setting, consoleVars, config, synced, get, reset>>

(* A reset that succeeded loads the page anew; one that failed sets a       *)
(* default of the page's own.                                               *)
ResetAnswered(p) ==
    /\ Open /\ reset[p].state \in {"ok", "failed"}
    /\ reset' = [reset EXCEPT ![p] = Idle]
    /\ IF reset[p].state = "ok"
       THEN get' = [get EXCEPT ![p] = Sent] /\ UNCHANGED <<config, synced>>
       ELSE /\ config' = [config EXCEPT ![p] = FallBack[setting]]
            /\ synced' = [synced EXCEPT ![p] = FALSE]
            /\ UNCHANGED get
    /\ UNCHANGED <<vars, setting, consoleVars, save>>

(* A request, or its answer, is lost.                                       *)
Lose(p) ==
    /\ Open
    /\ \/ /\ get[p].state \in {"sent", "ok"}
          /\ get' = [get EXCEPT ![p] = [Idle EXCEPT !.state = "failed"]]
          /\ UNCHANGED <<save, reset>>
       \/ /\ save[p].state \in {"sent", "ok"}
          /\ save' = [save EXCEPT ![p] = [Idle EXCEPT !.state = "failed"]]
          /\ UNCHANGED <<get, reset>>
       \/ /\ reset[p].state \in {"sent", "ok"}
          /\ reset' = [reset EXCEPT ![p] = [Idle EXCEPT !.state = "failed"]]
          /\ UNCHANGED <<get, save>>
    /\ UNCHANGED <<vars, setting, consoleVars, config, synced>>
-----------------------------------------------------------------------------
(* The console.                                                             *)

(* What pages hold, or are about to, is not what the console runs any more. *)
Stale(r) == [p \in Page |-> [r[p] EXCEPT !.fresh = FALSE]]

(* The parser of the order runs; its result is saved when it is done.       *)
StartParse(from, text) ==
    /\ source' = from /\ tokens' = text
    /\ pc' = "tokens" /\ pos' = 1 /\ idx' = 0 /\ seen' = {} /\ m' = 0

NoList ==
    /\ source' = "none" /\ tokens' = << >>
    /\ pc' = "done" /\ pos' = 1 /\ idx' = 0 /\ seen' = {} /\ m' = 0

(* POST /api/config: parse over a copy, save, publish.                      *)
Post(text) ==
    /\ edited' = "no"
    /\ IF setting = "order"
       THEN /\ StartParse("json", text)
            /\ file' = Pending
            /\ UNCHANGED <<order, running>>
       ELSE /\ running' = FromJson(setting, text, running)
            /\ file' \in ToIni(setting, running')
            /\ UNCHANGED vars

SaveOrder ==
    /\ setting = "order" /\ pc = "done" /\ file = Pending
    /\ file' = OrderText(order)
    /\ UNCHANGED <<vars, setting, running, edited, event, config, synced, get, save, reset>>

HandleLoad(p) ==
    /\ Ready /\ get[p].state = "sent"
    /\ \E text \in IF setting = "order" THEN {OrderText(order)} ELSE ToJson(setting, running) :
          get' = [get EXCEPT ![p] = [state |-> "ok", text |-> text, fresh |-> TRUE]]
    /\ UNCHANGED <<vars, setting, consoleVars, config, synced, save, reset>>

HandleSave(p) ==
    /\ Ready /\ save[p].state = "sent"
    /\ Post(save[p].text)
    /\ event' = [kind |-> "save", old |-> Value, keep |-> save[p].fresh]
    /\ get' = Stale(get)
    /\ save' = [Stale(save) EXCEPT ![p].state = "ok"]
    /\ synced' = [q \in Page |-> q = p /\ config[p] = save[p].text]
    /\ UNCHANGED <<setting, config, reset>>

(* POST /api/reset: the defaults, saved.                                    *)
HandleReset(p) ==
    /\ Ready /\ reset[p].state = "sent"
    /\ \/ /\ setting = "order"
          /\ NoList /\ order' = DefaultOrder
          /\ file' = OrderText(DefaultOrder)
          /\ UNCHANGED running
       \/ /\ setting # "order"
          /\ running' = Default[setting]
          /\ file' \in ToIni(setting, running')
          /\ UNCHANGED vars
    /\ edited' = "no"
    /\ event' = [NoEvent EXCEPT !.kind = "reset"]
    /\ get' = Stale(get) /\ save' = Stale(save)
    /\ reset' = [reset EXCEPT ![p].state = "ok"]
    /\ synced' = [q \in Page |-> FALSE]
    /\ UNCHANGED <<setting, config>>

ClientPosts ==
    /\ Ready
    /\ \E text \in ClientTexts[setting] : Post(text)
    /\ event' = [NoEvent EXCEPT !.kind = "client"]
    /\ get' = Stale(get) /\ save' = Stale(save)
    /\ synced' = [p \in Page |-> FALSE]
    /\ UNCHANGED <<setting, config, reset>>

UserEditsFile ==
    /\ Ready
    /\ \/ (\E text \in EditorTexts[setting] : file' = text) /\ edited' = "text"
       \/ file' = Absent /\ edited' = "removed"
    /\ UNCHANGED <<vars, setting, running, event, config, synced, get, save, reset>>

(* The payload starts again: config_load() over the defaults, which it saves*)
(* when there is no file.                                                   *)
Restart ==
    /\ Ready
    /\ \/ /\ edited = "removed" /\ setting = "order"
          /\ NoList /\ order' = DefaultOrder
          /\ file' = OrderText(DefaultOrder) /\ edited' = "no"
          /\ UNCHANGED running
       \/ /\ edited = "removed" /\ setting # "order"
          /\ running' = Default[setting]
          /\ file' \in ToIni(setting, running') /\ edited' = "no"
          /\ UNCHANGED vars
       \/ /\ edited # "removed" /\ setting = "order"
          /\ StartParse("ini", file) /\ order' = DefaultOrder
          /\ UNCHANGED <<running, file, edited>>
       \/ /\ edited # "removed" /\ setting # "order"
          /\ running' = FromIni(setting, file, Default[setting])
          /\ UNCHANGED <<vars, file, edited>>
    /\ event' = [kind |-> "restart", old |-> Value, keep |-> edited = "no"]
    /\ get' = Stale(get) /\ save' = Stale(save)
    /\ synced' = [p \in Page |-> FALSE]
    /\ UNCHANGED <<setting, config, reset>>

PageNext ==
    \/ Next /\ UNCHANGED <<setting, consoleVars, config, synced, get, save, reset>>
    \/ SaveOrder
    \/ \E p \in Page :
          \/ Edit(p) \/ ClickSave(p) \/ ClickReset(p) \/ Lose(p)
          \/ LoadAnswered(p) \/ SaveAnswered(p) \/ ResetAnswered(p)
          \/ HandleLoad(p) \/ HandleSave(p) \/ HandleReset(p)
    \/ ClientPosts \/ UserEditsFile \/ Restart

PageSpec == PageInit /\ [][PageNext]_allVars
-----------------------------------------------------------------------------
(* Whatever a client, the editor or the page writes, the settings that have *)
(* a range stay inside the one the code checks; a number too large for an   *)
(* int wraps around, and may come to lie in it.                             *)
PageTypeOK ==
    /\ setting \in Setting
    /\ setting \in DOMAIN Number => running \in Int /\ InRange(setting, running)
    /\ edited \in {"no", "text", "removed"}
    /\ DOMAIN config = Page /\ synced \in [Page -> BOOLEAN]
    /\ \A p \in Page : {get[p].state, save[p].state, reset[p].state}
                          \subseteq {"idle", "sent", "ok", "failed"}

(* A save of a page that shows what the console runs, and that the user did *)
(* not touch, changes nothing on the screen beyond the digits the document  *)
(* prints, whatever other pages, clients and lost answers came between.     *)
UntouchedStays ==
    pc = "done" /\ event.kind = "save" /\ event.keep =>
        Close(setting, event.old, Value,
              IF setting \in DOMAIN Number THEN Number[setting].json ELSE 0)

(* The HUD looks the same after a restart, to the digits of the file, unless*)
(* the user changed the file, or the background has one of the colours that *)
(* the page's parser accepts and the reader of the file does not.           *)
ReloadKeeps ==
    pc = "done" /\ event.kind = "restart" /\ event.keep =>
        \/ setting = "bg_color" /\ CutShort(event.old)
        \/ Close(setting, event.old, Value,
                 IF setting \in DOMAIN Number THEN Number[setting].ini ELSE 0)
=============================================================================
