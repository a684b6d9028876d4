----------------------------- MODULE NonVolatile -----------------------------
(***************************************************************************)
(* The firmware from power-up to power-down, as far as what it keeps       *)
(* without power decides it: user_main loads the settings, starts the      *)
(* threads, judges the device genuine or not and lets a device without a   *)
(* serial number listen to the host.  Power may be lost at any step.       *)
(*                                                                         *)
(* The USB port serves one class, that of the first dev_usb_open.  The     *)
(* sender, the command thread and sn_down open it, in any order.           *)
(***************************************************************************)
EXTENDS Settings, Provision

VARIABLES g_usb_fd,     \* the class opened: "none", "cdc", "hid"
          com_choice,   \* what the sender reports over
          opener        \* the threads that have opened what they use

usbVars == <<g_usb_fd, com_choice, opener>>
vars == <<settingsVars, provisionVars, usbVars>>

SET_USB_HID_MODE == 0
SET_USB_CDC_COM == 1

Init == SettingsInit /\ ProvisionInit
     /\ g_usb_fd = "none" /\ com_choice = Missing /\ opener = {}

dev_usb_open(class) == g_usb_fd' = IF g_usb_fd = "none" THEN class ELSE g_usb_fd

\* Mutant: the sender goes by the setting alone.
BugComChoice == use["SET_COM_MODE"]

\* a device without a serial number reports over CDC
ComChoice == IF sector.sn = Absent THEN SET_USB_CDC_COM ELSE use["SET_COM_MODE"]

\* xgd_sender_thread
SenderOpens ==
    /\ config = "up"
    /\ "sender" \notin opener
    /\ opener' = opener \cup {"sender"}
    /\ com_choice' = ComChoice
    /\ CASE com_choice' = SET_USB_CDC_COM  -> dev_usb_open("cdc")
         [] com_choice' = SET_USB_HID_MODE -> dev_usb_open("hid")
         [] OTHER                          -> UNCHANGED g_usb_fd
    /\ UNCHANGED <<settingsVars, provisionVars>>

\* cdc_uart_cmd_thread returns without a serial number
CmdOpens ==
    /\ config = "up"
    /\ "cmd" \notin opener
    /\ opener' = opener \cup {"cmd"}
    /\ IF sector.sn # Absent /\ use["SET_COM_MODE"] = SET_USB_CDC_COM
       THEN dev_usb_open("cdc")
       ELSE UNCHANGED g_usb_fd
    /\ UNCHANGED <<settingsVars, provisionVars, com_choice>>

SnOpens ==
    /\ down = "open"
    /\ dev_usb_open("cdc")
    /\ down' = "read"
    /\ UNCHANGED <<settingsVars, wire, messages, parser, sector, sector_buf, secret_key, otp,
                   device_id, security_status, com_choice, opener>>

Power ==
    /\ PowerLoss
    /\ PowerLost
    /\ g_usb_fd' = "none" /\ com_choice' = Missing /\ opener' = {}

\* the sender obeys settings once it has opened its device
Configures ==
    /\ \/ Loads \/ xgd_config_default \/ Starts \/ dev_ini_save \/ Applies
       \/ "sender" \in opener /\ (FactorySettings \/ \E s \in Sets : Obeys(s))
    /\ UNCHANGED <<provisionVars, usbVars>>

Provisions ==
    /\ \/ config = "up" /\ Boots
       \/ \E m \in Messages : HostSends(m)
       \/ \E n \in 1 .. Len(wire) : Reads(n)
       \/ Flash_Base_Write
       \/ generate_random
       \/ efuse_write_key(0, "key 0", "key 1")
       \/ efuse_write_key(1, "key 1", "key 2")
       \/ efuse_write_key(2, "key 2", "encrypt")
       \/ Encrypts \/ Compares \/ Replies
    /\ UNCHANGED <<settingsVars, usbVars>>

\* the stack of sn_down is overrun: the model ends
Overrun == down = "overrun" /\ UNCHANGED vars

Next ==
    \/ /\ down # "overrun"
       /\ SenderOpens \/ CmdOpens \/ SnOpens \/ Configures \/ Provisions \/ Power
    \/ Overrun

Spec == Init /\ [][Next]_vars
-----------------------------------------------------------------------------
(* Properties.                                                             *)

(***************************************************************************)
(* When sn_down listens, the USB port is the serial port the host of the   *)
(* factory talks to, whatever SET_COM_MODE is stored and whichever thread  *)
(* opened the port first (dev_usb_open keeps the first class).             *)
(***************************************************************************)
ListensOverCdc == down \notin {"off", "idle", "open"} => g_usb_fd = "cdc"
=============================================================================
