------------------------------- MODULE Settings -------------------------------
(***************************************************************************)
(* The configuration store: the file xgd_config.ini, the records dev_ini.c *)
(* keeps of it in memory, and the settings in use.  A setting scanned as a *)
(* barcode is written to the records and the whole file is saved: it is    *)
(* truncated when it is opened and written again line by line.             *)
(*                                                                         *)
(* The file system is external: it keeps what open and write have done     *)
(* when power is lost, each write() entirely or not at all.  Its calls do  *)
(* not fail, nor does rt_malloc.  A value is the number its text stands    *)
(* for; the two bytes the text is copied into (str, value) are taken as    *)
(* large enough.  Comments, sections other than XGD_SYS_SET and the        *)
(* deletion of keys and sections, which nothing calls, are left out.       *)
(*                                                                         *)
(* Config stands for the thread that runs user_main and, once the firmware *)
(* is up, for the sender, which obeys the settings it receives.            *)
(***************************************************************************)
EXTENDS Integers, Sequences

CONSTANTS config_default,   \* the keys in the order of the table, with their values
          Sets,             \* the settings scanned: records [key, op, param]
          CharIsSigned      \* what a plain char is in the build; on ARM it has no sign

Missing == -1                                        \* what xgd_config_read returns
NoFile == [exists |-> FALSE, lines |-> <<>>]
File(lines) == [exists |-> TRUE, lines |-> lines]
Section == <<"XGD_SYS_SET", 0>>

\* a line is a key and its value
Name(line) == line[1]
Value(line) == line[2]

Key == {Name(config_default[i]) : i \in DOMAIN config_default}

ASSUME SettingsAssumption ==
    /\ config_default \in Seq((STRING \ {Name(Section)}) \X Nat)
    /\ \A i, j \in DOMAIN config_default :
           Name(config_default[i]) = Name(config_default[j]) => i = j
    /\ Sets \subseteq [key : Key, op : {"write", "open", "close"}, param : Nat]
    /\ CharIsSigned \in BOOLEAN

VARIABLES file,      \* what the flash holds of xgd_config.ini
          handle,    \* the lines dev_ini_save would write: the records of ini_handle
          config,    \* where Config is
          setting,   \* the key of the setting being obeyed
          use        \* the value each key is used at

settingsVars == <<file, handle, config, setting, use>>

SettingsInit ==
    /\ file = NoFile
    /\ handle = <<>>
    /\ config = "off"
    /\ setting = ""
    /\ use = [k \in Key |-> Missing]
-----------------------------------------------------------------------------
(* The records.                                                            *)

LinesOf(h, k) == {i \in DOMAIN h : Name(h[i]) = k}

xgd_config_read(h, k) == IF LinesOf(h, k) = {} THEN Missing
                                          ELSE Value(h[CHOOSE i \in LinesOf(h, k) : TRUE])

\* a new key, and a section for the first one, is added at the end
dev_ini_set_key(h, k, v) ==
    IF LinesOf(h, k) # {}
    THEN [i \in DOMAIN h |-> IF i \in LinesOf(h, k) THEN <<k, v>> ELSE h[i]]
    ELSE (IF h = <<>> THEN <<Section>> ELSE h) \o << <<k, v>> >>

Defaults == <<Section>> \o config_default

Default(k) == xgd_config_read(Defaults, k)

(***************************************************************************)
(* SET_CODE_TYPE is a byte of three bits.  Of a missing key it is 0xff.    *)
(***************************************************************************)
Byte(v) == IF v = Missing THEN 255 ELSE v

BitOn(v, bit) == (v \div bit) % 2 = 1

NewValue(h, s) ==
    LET v == Byte(xgd_config_read(h, s.key))
    IN  CASE s.op = "write" -> s.param
          [] s.op = "open"  -> IF BitOn(v, s.param) THEN v ELSE v + s.param
          [] s.op = "close" -> IF BitOn(v, s.param) THEN v - s.param ELSE v

\* scan_delay_config is a char: without a sign it holds a missing key as 255
Char(v) == IF CharIsSigned THEN v ELSE Byte(v)

(***************************************************************************)
(* What the reader of a key makes of its value when it starts:             *)
(* xgd_uart_config (115200, which SET_BAUD_115200 = 7 stands for),         *)
(* xgd_volume_config (28, for SET_COLUME_3), the decoder (all codes; 3 s   *)
(* for more than SET_DELAY_10S = 10; no deep mode).  The others go on with *)
(* what they read: the sender with SET_VOICE, SET_ENTER_NEWLINE and        *)
(* SET_COM_MODE, of which it opens no device it does not know.             *)
(***************************************************************************)
Used(k, v) ==
    CASE k = "SET_CODE_TYPE"   -> IF Byte(v) > 7 THEN 7 ELSE Byte(v)
      [] k = "SET_COLUME"      -> IF v \in 0 .. 5 THEN v ELSE 3
      [] k = "SET_BAUD"        -> IF v \in 0 .. 7 THEN v ELSE 7
      [] k = "SET_SCAN_DELAY"  -> IF Char(v) > 10 THEN 3 ELSE Char(v)
      [] k = "SET_HARD_CONFIG" -> IF v = 1 THEN 1 ELSE 0
      [] OTHER                 -> v

\* the keys whose reader makes something of a missing one
Checked == {"SET_CODE_TYPE", "SET_COLUME", "SET_BAUD", "SET_HARD_CONFIG"}
           \cup (IF CharIsSigned THEN {} ELSE {"SET_SCAN_DELAY"})

\* the values of config_default are those the readers put in a missing one's place
ASSUME ReadersAssumption == \A k \in Key \cap Checked : Used(k, Missing) = Default(k)

\* xgd_sender_thread: the sound of a text (1 is sok.wav, else beep.wav), and the ticks
\* the sender waits for it
SaysOk(voice_xgd) == voice_xgd = 1
voice_delay(voice_xgd) == IF voice_xgd # 0 THEN 90 ELSE 50

\* scan_delay_set checks nothing
UsedAtOnce(k, v) == IF k = "SET_SCAN_DELAY" THEN Char(v) ELSE Used(k, v)

InUseAtOnce == {"SET_BAUD", "SET_COLUME", "SET_SCAN_DELAY"}
-----------------------------------------------------------------------------
(* Start.                                                                  *)

\* xgd_config_init: a file that can be opened is taken as it is
Loads ==
    /\ config = "off"
    /\ handle' = file.lines
    /\ config' = IF file.exists THEN "start" ELSE "default"
    /\ UNCHANGED <<file, setting, use>>

\* xgd_config_default: the file is created, loaded empty, and every key set
xgd_config_default ==
    /\ config = "default"
    /\ file' = File(<<>>)
    /\ handle' = Defaults
    /\ config' = "save default"
    /\ UNCHANGED <<setting, use>>

\* Mutant: a value is used as it is read.
BugStarts ==
    /\ config = "start"
    /\ use' = [k \in Key |-> xgd_config_read(handle, k)]
    /\ config' = "up"
    /\ UNCHANGED <<file, handle, setting>>

\* xgd_uart_config, audio_decoder_init and the starts of the threads
Starts ==
    /\ config = "start"
    /\ use' = [k \in Key |-> Used(k, xgd_config_read(handle, k))]
    /\ config' = "up"
    /\ UNCHANGED <<file, handle, setting>>
-----------------------------------------------------------------------------
(* dev_ini_save.                                                           *)

\* Mutant: the file is opened without O_TRUNC.
BugSaves(from, write) ==
    /\ config = from
    /\ file' = File(file.lines)
    /\ config' = write
    /\ UNCHANGED <<handle, setting, use>>

Saves(from, write) ==
    /\ config = from
    /\ file' = File(<<>>)
    /\ config' = write
    /\ UNCHANGED <<handle, setting, use>>

WritesLine ==
    /\ config \in {"write default", "write"}
    /\ Len(file.lines) < Len(handle)
    /\ file' = File(Append(file.lines, handle[Len(file.lines) + 1]))
    /\ UNCHANGED <<handle, config, setting, use>>

\* of the defaults, the file is loaded again
Saved ==
    /\ config \in {"write default", "write"}
    /\ Len(file.lines) = Len(handle)
    /\ IF config = "write"
       THEN config' = "apply" /\ UNCHANGED handle
       ELSE config' = "start" /\ handle' = file.lines
    /\ UNCHANGED <<file, setting, use>>

dev_ini_save == \/ Saves("save default", "write default")
                \/ Saves("save", "write")
                \/ WritesLine
                \/ Saved
-----------------------------------------------------------------------------
(* xgd_config_parser.                                                      *)

\* SET_FACTORY_SETTINGS deletes the file and leaves the records
FactorySettings ==
    /\ config = "up"
    /\ file' = NoFile
    /\ UNCHANGED <<handle, config, setting, use>>

\* a setting of sys_set_List: xgd_config_write
Obeys(s) ==
    /\ config = "up"
    /\ handle' = dev_ini_set_key(handle, s.key, NewValue(handle, s))
    /\ setting' = s.key
    /\ config' = "save"
    /\ UNCHANGED <<file, use>>

Applies ==
    /\ config = "apply"
    /\ use' = IF setting \in InUseAtOnce
              THEN [use EXCEPT ![setting] = UsedAtOnce(setting, xgd_config_read(handle, setting))]
              ELSE use
    /\ setting' = ""
    /\ config' = "up"
    /\ UNCHANGED <<file, handle>>

\* power is lost: what is in memory is gone
PowerLoss ==
    /\ config # "off"
    /\ config' = "off"
    /\ handle' = <<>>
    /\ setting' = ""
    /\ use' = [k \in Key |-> Missing]
    /\ UNCHANGED <<file>>

SettingsNext ==
    \/ Loads \/ xgd_config_default \/ Starts
    \/ dev_ini_save
    \/ FactorySettings
    \/ \E s \in Sets : Obeys(s)
    \/ Applies
    \/ PowerLoss

SettingsSpec == SettingsInit /\ [][SettingsNext]_settingsVars
-----------------------------------------------------------------------------
(* Properties.                                                             *)

SettingsTypeOK ==
    /\ file.exists \in BOOLEAN /\ file.lines \in Seq(STRING \X Int)
    /\ handle \in Seq(STRING \X Int)
    /\ config \in {"off", "default", "save default", "write default", "start", "up",
                   "save", "write", "apply"}
    /\ setting \in Key \cup {""}
    /\ use \in [Key -> Int]

Saving == {"write default", "write"}

(***************************************************************************)
(* A start after a loss of power finds the settings as they were in use,   *)
(* or, if power was lost while the file was written, the first of the new  *)
(* ones: no setting comes back with an older value beside newer ones, none *)
(* is lost outside a save, and none out of the middle (dev_ini_save        *)
(* truncates the file it writes).                                          *)
(***************************************************************************)
RestartFindsSettings ==
    file.exists /\ config \notin {"off", "default", "save default", "save"} =>
        /\ file.lines = SubSeq(handle, 1, Len(file.lines))
        /\ config \notin Saving => file.lines = handle

(***************************************************************************)
(* A setting of Checked that the file has lost is used at the value of     *)
(* config_default: the decoder, the serial port and the volume do not go   *)
(* on with the -1 that xgd_config_read returns.  SET_COM_MODE, SET_VOICE,  *)
(* SET_ENTER_NEWLINE and SET_SCAN_CODE are used as they are read, a        *)
(* missing one as -1.                                                      *)
(***************************************************************************)
ForgottenIsDefault ==
    config = "up" =>
        \A k \in Key \cap Checked :
            LinesOf(file.lines, k) = {} /\ file.exists => use[k] = Default(k)

(***************************************************************************)
(* The sender waits as long as the sound it plays for a text is meant to   *)
(* take.  Not so: the -1 of a SET_VOICE the file has lost is not           *)
(* SET_VOICE_OK, so it beeps, and is not 0, so it waits for the spoken     *)
(* answer.                                                                 *)
(***************************************************************************)
DelayFitsSound ==
    config = "up" /\ "SET_VOICE" \in Key =>
        (SaysOk(use["SET_VOICE"]) <=> voice_delay(use["SET_VOICE"]) = 90)

(***************************************************************************)
(* After SET_FACTORY_SETTINGS the next setting finds all others at their   *)
(* factory value.  Not so: the file is deleted and the records are kept.   *)
(***************************************************************************)
FactoryResets ==
    [][\A s \in Sets : Obeys(s) /\ ~file.exists =>
          \A k \in Key \ {s.key} : xgd_config_read(handle', k) = Default(k)]_settingsVars
=============================================================================
