-------------------------- MODULE ApplicationProofs --------------------------
(***************************************************************************)
(* The application of core/: first the scan pipeline, proved for any       *)
(* number of buffers, mails, texts and frames of a sound; then what a      *)
(* device keeps without power, proved for every table of settings, serial  *)
(* number, frame, key and number of messages.                              *)
(*                                                                         *)
(* The firmware is a settings store with more around it, so what is proved *)
(* of the store first holds of it.  The other theorems of the firmware     *)
(* need an invariant each: which class the USB port may have while sn_down *)
(* has not opened it; what the sector and the copy of it in memory hold at *)
(* each stage of a download; and where the parser of frames is in what the *)
(* host sent.                                                              *)
(***************************************************************************)
EXTENDS Scanner, NonVolatile, TLAPS, SequenceTheorems, FiniteSetTheorems,
        WellFoundedInduction

Label == {"frame", "check", "copy", "init", "clear", "set", "recv", "decode", "free", "start", "lights",
          "led_on", "play", "load", "parse", "delay", "led_off", "idle", "unlights",
          "input", "starts", "begin", "enable", "sending", "poll", "tick", "listen",
          "close", "wild"}

ThreadsTyped == at \in [Thread -> Label]

LEMMA AtIs ==
    ASSUME NEW t, NEW l, At(t, l)
    PROVE  at[t] = l
  BY DEF At

LEMMA Goes ==
    ASSUME ThreadsTyped, NEW t \in Thread, NEW l \in Label, Go(t, l)
    PROVE  /\ ThreadsTyped'
           /\ at'[t] = l
           /\ \A u \in Thread : u # t => at'[u] = at[u]
  BY DEF ThreadsTyped, Go

LEMMA LabelNext ==
    /\ "camera" \in Thread /\ "decoder" \in Thread /\ "sender" \in Thread
    /\ "cmd" \in Thread /\ "player" \in Thread
    /\ \A i, e : PlaysOn(i, e) \in Label
  BY DEF Thread, PlaysOn, Label

\* A ready sender keeps the decoder from running.
LEMMA SenderFirst ==
    ASSUME NEW l, At("decoder", l), at["sender"] \notin Outside \cup {"recv"}
    PROVE  FALSE
<1>1. Ready("sender")
  BY DEF Ready
<1>2. Prio["decoder"] <= Prio["sender"]
  BY <1>1, LabelNext DEF At
<1>3. Prio["decoder"] = 168
  BY DEF Prio, Thread
<1>4. Prio["sender"] = 130
  BY DEF Prio, Thread
<1> QED
  BY <1>2, <1>3, <1>4
-----------------------------------------------------------------------------
(* Whose step it is: the others stay where they are, and the variables     *)
(* that are none of its business keep their values.                        *)

Moves(t) == ThreadsTyped' /\ \A u \in Thread : u # t => at'[u] = at[u]

LEMMA CameraMoves ==
    ASSUME ThreadsTyped, Camera
    PROVE  Moves("camera") /\ UNCHANGED <<ready, ptr, textVars, switchVars>>
<1> USE DEF Moves
<1>1. /\ "camera" \in Thread
      /\ "frame" \in Label /\ "check" \in Label /\ "copy" \in Label
  BY DEF Thread, Label
<1>2. CASE FrameArrives
  BY <1>1, <1>2, Goes DEF FrameArrives, imageVars
<1>3. CASE Skips
  BY <1>1, <1>3, Goes DEF Skips, imageVars
<1>4. CASE image_queue_malloc
  <2>1. \E l \in {"copy", "frame"} : Go("camera", l)
    BY <1>4 DEF image_queue_malloc
  <2> QED
    BY <1>1, <1>4, <2>1, Goes DEF image_queue_malloc
<1>5. CASE image_frame_send
  BY <1>1, <1>5, Goes DEF image_frame_send
<1> QED
  BY <1>2, <1>3, <1>4, <1>5 DEF Camera

LEMMA DecoderMoves ==
    ASSUME ThreadsTyped, xgd_decoder_thread
    PROVE  Moves("decoder") /\ UNCHANGED <<pbuf, switchVars>>
<1> USE DEF Moves
<1>1. /\ "decoder" \in Thread
      /\ "recv" \in Label /\ "decode" \in Label /\ "free" \in Label
      /\ "clear" \in Label /\ "set" \in Label
  BY DEF Thread, Label
<1>7. CASE InitsMail
  BY <1>1, <1>7, Goes DEF InitsMail
<1>8. CASE ClearsFlag
  BY <1>1, <1>8, Goes DEF ClearsFlag
<1>9. CASE SetsPointer
  <2>1. \E l \in {"clear", "recv"} : Go("decoder", l)
    BY <1>9 DEF SetsPointer
  <2> QED
    BY <1>1, <1>9, <2>1, Goes DEF SetsPointer
<1>3. CASE TakesFrame
  BY <1>1, <1>3, Goes DEF TakesFrame
<1>4. CASE DecodesNothing
  BY <1>1, <1>4, Goes DEF DecodesNothing, imageVars
<1>5. CASE xgd_send_str
  BY <1>1, <1>5, Goes DEF xgd_send_str, imageVars
<1>6. CASE image_queue_free
  BY <1>1, <1>6, Goes DEF image_queue_free
<1> QED
  BY <1>3, <1>4, <1>5, <1>6, <1>7, <1>8, <1>9 DEF xgd_decoder_thread, image_queue_init

LEMMA CmdMoves ==
    ASSUME ThreadsTyped, Newline \/ ObeysCommand
    PROVE  /\ Moves("cmd") /\ UNCHANGED <<imageVars, textVars>>
           /\ scan_status' \in {scan_status, 1}
<1> USE DEF Moves
<1>1. /\ "cmd" \in Thread
      /\ "input" \in Label /\ "starts" \in Label /\ "lights" \in Label
  BY DEF Thread, Label
<1>2. CASE Newline
  BY <1>1, <1>2, Goes DEF Newline, switchVars
<1>3. CASE StartsScan("cmd", "starts", "lights")
  BY <1>1, <1>3, Goes DEF StartsScan
<1>4. CASE Lights("cmd", "lights", 1, "input")
  BY <1>1, <1>4, Goes DEF Lights
<1> QED
  BY <1>2, <1>3, <1>4 DEF ObeysCommand

LEMMA PlayerMoves ==
    ASSUME ThreadsTyped, audio_player_thread
    PROVE  Moves("player") /\ UNCHANGED <<imageVars, textVars, switchVars>>
<1> USE DEF Moves
<1>1. /\ "player" \in Thread
      /\ {"recv", "begin", "enable", "sending", "poll", "tick", "listen", "close"} \subseteq Label
  BY DEF Thread, Label
<1>2. ASSUME NEW from, NEW to \in Label, PlayerStep(from, to)
      PROVE  Moves("player") /\ UNCHANGED <<imageVars, textVars, switchVars>>
  BY <1>1, <1>2, Goes DEF PlayerStep
<1>3. CASE TakesRequest
  BY <1>1, <1>2, <1>3 DEF TakesRequest
<1>4. CASE Begins
  BY <1>1, <1>2, <1>4 DEF Begins
<1>5. CASE Enables
  BY <1>2, <1>5, LabelNext DEF Enables
<1>6. CASE EnableFails
  BY <1>1, <1>2, <1>6 DEF EnableFails
<1>7. CASE FrameSent
  BY <1>1, <1>7, Goes DEF FrameSent
<1>8. CASE Polls
  <2>1. (IF play_over THEN "close" ELSE PlaysOn(index, end_flag)) \in Label
    BY <1>1, LabelNext
  <2> QED
    BY <1>2, <1>8, <2>1 DEF Polls
<1>9. CASE Tick
  BY <1>1, <1>9, Goes DEF Tick
<1>10. CASE Listens
  <2>1. (IF play_over \/ ticks = DrainTicks THEN "close" ELSE "tick") \in Label
    BY <1>1
  <2> QED
    BY <1>2, <1>10, <2>1 DEF Listens
<1>11. CASE Closes
  BY <1>1, <1>2, <1>11 DEF Closes
<1> QED
  BY <1>3, <1>4, <1>5, <1>6, <1>7, <1>8, <1>9, <1>10, <1>11 DEF audio_player_thread

\* of the sender: where it goes from and to, where that matters
LEMMA SenderMoves ==
    ASSUME ThreadsTyped, Sends \/ TimesOut
    PROVE  Moves("sender") /\ UNCHANGED <<imageVars, scans>>
<1> USE DEF Moves
<1>1. /\ "sender" \in Thread
      /\ {"recv", "start", "lights", "led_on", "play", "load", "parse", "delay", "led_off",
          "idle", "unlights", "wild"} \subseteq Label
  BY DEF Thread, Label
<1>2. ASSUME NEW from, NEW to \in Label, StartsScan("sender", from, to)
      PROVE  Moves("sender") /\ UNCHANGED <<imageVars, scans>>
  BY <1>1, <1>2, Goes DEF StartsScan, textVars
<1>3. ASSUME NEW from, NEW on, NEW to \in Label, Lights("sender", from, on, to)
      PROVE  Moves("sender") /\ UNCHANGED <<imageVars, scans>>
  BY <1>1, <1>3, Goes DEF Lights, textVars
<1>4. ASSUME NEW from, NEW on, NEW to \in Label, Led(from, on, to)
      PROVE  Moves("sender") /\ UNCHANGED <<imageVars, scans>>
  BY <1>1, <1>4, Goes DEF Led, textVars
<1>5. ASSUME NEW f, PlaysFile(f)
      PROVE  Moves("sender") /\ UNCHANGED <<imageVars, scans>>
  <2>1. \E l \in {"parse", "load"} : Go("sender", l)
    BY <1>5 DEF PlaysFile
  <2> QED
    BY <1>1, <1>5, <2>1, Goes DEF PlaysFile, textVars
<1>6. CASE Sounds
  <2>1. CASE Plays
    BY <1>5, <2>1 DEF Plays
  <2>2. CASE LoadFails
    BY <1>1, <1>5, <2>2, Goes DEF LoadFails, textVars
  <2>3. CASE LoadsSound
    BY <1>1, <2>3, Goes DEF LoadsSound, textVars
  <2>4. CASE FreesWild
    BY <1>1, <2>4, Goes DEF FreesWild, textVars
  <2> QED
    BY <1>6, <2>1, <2>2, <2>3, <2>4 DEF Sounds
<1>7. CASE TakesText
  BY <1>1, <1>7, Goes DEF TakesText
<1>8. CASE ParsesSetting
  BY <1>1, <1>8, Goes DEF ParsesSetting
<1>9. CASE xgd_send_message
  BY <1>1, <1>9, Goes DEF xgd_send_message
<1>10. CASE DelayEnds
  BY <1>1, <1>10, Goes DEF DelayEnds, textVars
<1>11. CASE StopsIdle
  BY <1>1, <1>11, Goes DEF StopsIdle, textVars
<1>12. CASE StaysOn
  BY <1>1, <1>12, Goes DEF StaysOn, textVars
<1>13. CASE TimesOut
  <2>1. \E l \in {"idle", "unlights", "recv"} : Go("sender", l)
    BY <1>13 DEF TimesOut
  <2> QED
    BY <1>1, <1>13, <2>1, Goes DEF TimesOut, textVars
<1> QED
  BY <1>1, <1>2, <1>3, <1>4, <1>6, <1>7, <1>8, <1>9, <1>10, <1>11, <1>12, <1>13 DEF Sends

LEMMA StepThreads == ThreadsTyped /\ [ScannerNext]_scannerVars => ThreadsTyped'
  BY CameraMoves, DecoderMoves, CmdMoves, PlayerMoves, SenderMoves
  DEF Moves, ScannerNext, Wild, ThreadsTyped, scannerVars
-----------------------------------------------------------------------------
(* The switch.  Past the timeout of rt_mb_recv the sender does not wait    *)
(* for anything until it has stopped the scanner and checked whether it is *)
(* idle, so the decoder cannot mail a text in between.                     *)

SwitchInv ==
    /\ ThreadsTyped
    /\ scan_status \in 0 .. 1
    /\ at["sender"] \in {"idle", "unlights"} => mb_sender = <<>>

LEMMA DecoderWaits ==
    ASSUME SwitchInv, xgd_decoder_thread, at["sender"] \in {"idle", "unlights"}
    PROVE  FALSE
<1>1. \E l : At("decoder", l)
  BY DEF xgd_decoder_thread, InitsMail, image_queue_init, ClearsFlag, SetsPointer,
         TakesFrame, DecodesNothing, xgd_send_str, image_queue_free
<1>2. at["sender"] \notin Outside \cup {"recv"}
  BY DEF Outside
<1> QED
  BY <1>1, <1>2, SenderFirst

LEMMA StepSwitch ==
    SwitchInv /\ [ScannerNext]_scannerVars =>
        SwitchInv' /\ (scan_status' < scan_status => mb_sender = <<>>)
<1> SUFFICES ASSUME SwitchInv, [ScannerNext]_scannerVars
             PROVE  SwitchInv' /\ (scan_status' < scan_status => mb_sender = <<>>)
  OBVIOUS
<1> DEFINE Goal == SwitchInv' /\ (scan_status' < scan_status => mb_sender = <<>>)
<1>1. /\ ThreadsTyped /\ ThreadsTyped' /\ scan_status \in 0 .. 1
      /\ {"idle", "unlights", "recv", "lights", "play", "parse", "led_on", "load", "led_off",
          "delay", "wild"} \subseteq Label
      /\ "sender" \in Thread /\ "sender" # "decoder"
      /\ at["sender"] \in {"idle", "unlights"} => mb_sender = <<>>
  BY StepThreads DEF SwitchInv, Label, Thread
<1>2. CASE Camera
  <2>1. ThreadsTyped' /\ at'["sender"] = at["sender"]
    BY <1>1, <1>2, CameraMoves, LabelNext DEF Moves
  <2>2. mb_sender' = mb_sender /\ scan_status' = scan_status
    BY <1>1, <1>2, CameraMoves DEF textVars, switchVars
  <2>3. ~(scan_status' < scan_status)
    BY <1>1, <2>2
  <2>4. SwitchInv'
    BY <1>1, <2>1, <2>2 DEF SwitchInv
  <2> QED
    BY <2>3, <2>4
<1>3. CASE xgd_decoder_thread
  BY <1>1, <1>3, DecoderMoves, DecoderWaits DEF Moves, SwitchInv, switchVars
<1>4. CASE Newline \/ ObeysCommand
  BY <1>1, <1>4, CmdMoves DEF Moves, SwitchInv, textVars
<1>5. CASE audio_player_thread
  BY <1>1, <1>5, PlayerMoves DEF Moves, SwitchInv, textVars, switchVars
<1>6. CASE TimesOut
  <2>1. /\ mb_sender = <<>> /\ UNCHANGED textVars
        /\ scan_status' \in 0 .. 1
    BY <1>1, <1>6 DEF TimesOut
  <2> QED
    BY <1>1, <2>1 DEF SwitchInv, textVars
<1>7. CASE StopsIdle
  BY <1>1, <1>7, AtIs DEF StopsIdle, SwitchInv, textVars
<1>8. ASSUME NEW from, NEW to \in Label \ {"idle", "unlights"}, StartsScan("sender", from, to)
      PROVE  Goal
  BY <1>1, <1>8, Goes DEF StartsScan, SwitchInv
<1>9. ASSUME NEW on, Lights("sender", "lights", on, "recv")
      PROVE  Goal
  BY <1>1, <1>9, Goes DEF Lights, SwitchInv
<1>10. CASE Lights("sender", "unlights", 0, "idle")
  <2>1. at["sender"] = "unlights"
    BY <1>10, AtIs DEF Lights
  <2> QED
    BY <1>1, <1>10, <2>1 DEF Lights, SwitchInv, textVars
<1>11. ASSUME NEW from, NEW on, NEW to \in Label \ {"idle", "unlights"}, Led(from, on, to)
       PROVE  Goal
  BY <1>1, <1>11, Goes DEF Led, SwitchInv
<1>12. ASSUME NEW f, PlaysFile(f)
       PROVE  Goal
  <2>1. \E l \in {"parse", "load"} : Go("sender", l)
    BY <1>12 DEF PlaysFile
  <2>2. at'["sender"] \in {"parse", "load"}
    BY <1>1, <2>1, Goes
  <2> QED
    BY <1>1, <1>12, <2>2 DEF PlaysFile, SwitchInv, switchVars
<1>13. CASE Sounds
  <2>1. CASE Plays
    BY <1>12, <2>1 DEF Plays
  <2>2. CASE LoadFails
    <3>1. CASE last_filename = "sok.wav"
      BY <1>12, <2>2, <3>1 DEF LoadFails
    <3>2. CASE last_filename # "sok.wav"
      BY <1>1, <2>2, <3>2, Goes DEF LoadFails, SwitchInv, switchVars
    <3> QED
      BY <3>1, <3>2
  <2>3. CASE LoadsSound
    BY <1>1, <2>3, Goes DEF LoadsSound, SwitchInv, switchVars
  <2>4. CASE FreesWild
    BY <1>1, <2>4, Goes DEF FreesWild, SwitchInv, textVars, switchVars
  <2> QED
    BY <1>13, <2>1, <2>2, <2>3, <2>4 DEF Sounds
<1>14. CASE TakesText
  BY <1>1, <1>14, Goes DEF TakesText, SwitchInv, switchVars
<1>15. CASE ParsesSetting
  BY <1>1, <1>15, Goes DEF ParsesSetting, SwitchInv, switchVars
<1>16. CASE xgd_send_message
  BY <1>1, <1>16, Goes DEF xgd_send_message, SwitchInv, switchVars
<1>17. CASE DelayEnds
  BY <1>1, <1>17, Goes DEF DelayEnds, SwitchInv, switchVars
<1>18. CASE StaysOn
  BY <1>1, <1>18, Goes DEF StaysOn, SwitchInv, switchVars
<1>19. CASE Wild \/ UNCHANGED scannerVars
  BY <1>1, <1>19 DEF Wild, scannerVars, textVars, switchVars, SwitchInv
<1>20. CASE Sends
  BY <1>1, <1>7, <1>8, <1>9, <1>10, <1>11, <1>13, <1>14, <1>15, <1>16, <1>17, <1>18, <1>20
  DEF Sends
<1> QED
  BY <1>2, <1>3, <1>4, <1>5, <1>6, <1>19, <1>20 DEF ScannerNext

LEMMA InitThreads == ScannerInit => ThreadsTyped
<1> SUFFICES ASSUME ScannerInit PROVE ThreadsTyped
  OBVIOUS
<1> DEFINE first(t) == CASE t = "camera" -> "frame"
                         [] t = "decoder" -> "init"
                         [] t = "sender" -> "start"
                         [] t = "cmd" -> "input"
                         [] t = "player" -> "recv"
<1>1. \A t \in Thread : first(t) \in Label
  BY DEF Thread, Label
<1>2. at = [t \in Thread |-> first(t)]
  BY DEF ScannerInit
<1> QED
  BY <1>1, <1>2 DEF ThreadsTyped

LEMMA FirstLabels ==
    ScannerInit => at["camera"] = "frame" /\ at["decoder"] = "init" /\ at["sender"] = "start"
  BY DEF ScannerInit, Thread

(***************************************************************************)
(* The scanner is never switched off while a text waits for the sender,    *)
(* whatever the limits: it rests on the priorities alone.                  *)
(***************************************************************************)
THEOREM ScannerStopsIdle == ScannerSpec => StopsOnlyIdle
<1>1. ScannerInit => SwitchInv
  <2> SUFFICES ASSUME ScannerInit PROVE SwitchInv
    OBVIOUS
  <2>1. scan_status = 0 /\ mb_sender = <<>>
    BY DEF ScannerInit
  <2> QED
    BY <2>1, InitThreads DEF SwitchInv
<1> QED
  BY <1>1, StepSwitch, PTL DEF ScannerSpec, StopsOnlyIdle
-----------------------------------------------------------------------------
(* The texts.  They are numbered as they are decoded, so that those that   *)
(* were reported, the one in hand and those in the mail are in order.      *)

HasText == {"led_on", "play", "load", "parse", "wild"}

Increasing(s) == \A i, j \in DOMAIN s : i < j => s[i] < s[j]

TextInv ==
    /\ ThreadsTyped
    /\ scans \in Nat /\ heap \subseteq 1 .. scans
    /\ mb_sender \in Seq(Nat) /\ reported \in Seq(Nat) /\ str \in Nat
    /\ str # Null <=> at["sender"] \in HasText
    /\ str # Null => str \in heap
    /\ \A j \in DOMAIN mb_sender : mb_sender[j] \in heap /\ str < mb_sender[j]
    /\ Increasing(mb_sender)
    /\ \A i \in DOMAIN reported :
           /\ reported[i] \in (1 .. scans) \ heap
           /\ str # Null => reported[i] < str
           /\ \A j \in DOMAIN mb_sender : reported[i] < mb_sender[j]
    /\ Increasing(reported)

LEMMA TextInvOwned == TextInv => TextOwnedOnce
<1> SUFFICES ASSUME TextInv PROVE TextOwnedOnce
  OBVIOUS
<1>1. Range(mb_sender) \union ({str} \ {Null}) \subseteq heap
  BY DEF TextInv, Range
<1>2. str \notin Range(mb_sender)
  <2>1. \A j \in DOMAIN mb_sender : mb_sender[j] # str
    BY DEF TextInv
  <2> QED
    BY <2>1 DEF Range
<1>3. Range(reported) \intersect heap = {}
  BY DEF TextInv, Range
<1> QED
  BY <1>1, <1>2, <1>3 DEF TextInv, TextOwnedOnce, Increasing

LEMMA TextsKept ==
    ASSUME TextInv, UNCHANGED textVars, ThreadsTyped',
           at'["sender"] \in HasText <=> at["sender"] \in HasText
    PROVE  TextInv'
<1>1. UNCHANGED <<scans, heap, mb_sender, reported, str>>
  BY DEF textVars
<1> QED
  BY <1>1 DEF TextInv, Increasing

\* xgd_send_str
LEMMA TextSent == ASSUME TextInv, xgd_send_str PROVE TextInv'
<1> DEFINE text == scans + 1
<1>1. /\ scans \in Nat /\ heap \subseteq 1 .. scans
      /\ mb_sender \in Seq(Nat) /\ reported \in Seq(Nat) /\ str \in Nat
      /\ text \in Nat
  BY DEF TextInv
<1>2. ThreadsTyped' /\ at'["sender"] = at["sender"] /\ UNCHANGED <<str, reported>>
      /\ scans' = text /\ heap' = heap \cup {text}
  <2>1. xgd_decoder_thread
    BY DEF xgd_decoder_thread
  <2> QED
    BY <2>1, DecoderMoves, LabelNext DEF TextInv, Moves, xgd_send_str
<1>3. str <= scans
  BY <1>1 DEF TextInv, Null
<1>4. mb_sender' = mb_sender \/ mb_sender' = Append(mb_sender, text)
  BY DEF xgd_send_str, Sent
<1>5. ASSUME NEW q \in Seq(Nat), q = mb_sender \/ q = Append(mb_sender, text)
      PROVE  /\ \A j \in DOMAIN q : q[j] \in heap \cup {text} /\ str < q[j]
             /\ Increasing(q)
             /\ \A i \in DOMAIN reported : \A j \in DOMAIN q : reported[i] < q[j]
  <2>1. CASE q = mb_sender
    BY <2>1 DEF TextInv
  <2>2. CASE q = Append(mb_sender, text)
    <3>1. /\ Len(mb_sender) \in Nat /\ Len(q) = Len(mb_sender) + 1
          /\ DOMAIN mb_sender = 1 .. Len(mb_sender)
          /\ DOMAIN q = 1 .. Len(mb_sender) + 1
      BY <1>1, <2>2, LenProperties, AppendProperties
    <3>2. /\ \A j \in DOMAIN mb_sender : q[j] = mb_sender[j]
          /\ q[Len(mb_sender) + 1] = text
      BY <1>1, <2>2, <3>1, AppendProperties
    <3>3. \A j \in DOMAIN q : j \in DOMAIN mb_sender \/ j = Len(mb_sender) + 1
      BY <3>1
    <3>4. \A j \in DOMAIN q : q[j] \in heap \cup {text} /\ str < q[j]
      <4> TAKE j \in DOMAIN q
      <4>1. CASE j \in DOMAIN mb_sender
        BY <3>2, <4>1 DEF TextInv
      <4>2. CASE j = Len(mb_sender) + 1
        BY <1>1, <1>3, <3>2, <4>2
      <4> QED
        BY <3>3, <4>1, <4>2
    <3>5. Increasing(q)
      <4> SUFFICES ASSUME NEW i \in DOMAIN q, NEW j \in DOMAIN q, i < j
                   PROVE  q[i] < q[j]
        BY DEF Increasing
      <4>1. i \in DOMAIN mb_sender /\ mb_sender[i] \in 1 .. scans
        BY <1>1, <3>1 DEF TextInv
      <4>2. CASE j \in DOMAIN mb_sender
        BY <3>2, <4>1, <4>2 DEF TextInv, Increasing
      <4>3. CASE j = Len(mb_sender) + 1
        BY <1>1, <3>2, <4>1, <4>3
      <4> QED
        BY <3>3, <4>2, <4>3
    <3>6. \A i \in DOMAIN reported : \A j \in DOMAIN q : reported[i] < q[j]
      <4> TAKE i \in DOMAIN reported
      <4> TAKE j \in DOMAIN q
      <4>1. CASE j \in DOMAIN mb_sender
        BY <3>2, <4>1 DEF TextInv
      <4>2. CASE j = Len(mb_sender) + 1
        <5>1. reported[i] \in 1 .. scans
          BY DEF TextInv
        <5> QED
          BY <1>1, <3>2, <4>2, <5>1
      <4> QED
        BY <3>3, <4>1, <4>2
    <3> QED
      BY <3>4, <3>5, <3>6
  <2> QED
    BY <1>5, <2>1, <2>2
<1>6. mb_sender' \in Seq(Nat)
  <2>1. Append(mb_sender, text) \in Seq(Nat)
    BY <1>1, AppendProperties
  <2> QED
    BY <1>1, <1>4, <2>1
<1>7. /\ heap' \subseteq 1 .. scans'
      /\ \A i \in DOMAIN reported : reported[i] \in (1 .. scans') \ heap'
  <2>1. heap' \subseteq 1 .. scans'
    BY <1>1, <1>2
  <2>2. ASSUME NEW i \in DOMAIN reported
        PROVE  reported[i] \in (1 .. scans') \ heap'
    <3>1. reported[i] \in 1 .. scans /\ reported[i] \notin heap
      BY <2>2 DEF TextInv
    <3> QED
      BY <1>1, <1>2, <3>1
  <2> QED
    BY <2>1, <2>2
<1> QED
  BY <1>1, <1>2, <1>4, <1>5, <1>6, <1>7 DEF TextInv

LEMMA TextTaken == ASSUME TextInv, TakesText PROVE TextInv'
<1>1. /\ mb_sender \in Seq(Nat) /\ mb_sender # <<>>
      /\ str' = Head(mb_sender) /\ mb_sender' = Tail(mb_sender)
      /\ UNCHANGED <<scans, heap, reported>>
      /\ at["sender"] = "recv"
  BY AtIs DEF TextInv, TakesText
<1>2. ThreadsTyped' /\ at'["sender"] = "led_on"
  <2>1. "led_on" \in Label
    BY DEF Label
  <2> QED
    BY <2>1, Goes, LabelNext DEF TextInv, TakesText
<1>3. /\ Len(mb_sender) \in Nat \ {0} /\ DOMAIN mb_sender = 1 .. Len(mb_sender)
      /\ Head(mb_sender) = mb_sender[1] /\ 1 \in DOMAIN mb_sender
  BY <1>1, LenProperties, EmptySeq
<1>4. /\ mb_sender' \in Seq(Nat)
      /\ DOMAIN mb_sender' = 1 .. Len(mb_sender) - 1
      /\ \A j \in DOMAIN mb_sender' : mb_sender'[j] = mb_sender[j + 1] /\ j + 1 \in DOMAIN mb_sender
  BY <1>1, <1>3, HeadTailProperties, LenProperties
<1>5. str' \in heap /\ str' \in Nat /\ str' # Null
  <2>1. str' = mb_sender[1] /\ mb_sender[1] \in heap
    BY <1>1, <1>3 DEF TextInv
  <2>2. scans \in Nat /\ \A x \in heap : x \in 1 .. scans
    BY DEF TextInv
  <2>3. \A x \in 1 .. scans : x \in Nat /\ x # 0
    BY <2>2
  <2>4. str' \in heap
    BY <2>1
  <2> QED
    BY <2>2, <2>3, <2>4 DEF Null
<1>6. \A j \in DOMAIN mb_sender' : mb_sender'[j] \in heap /\ str' < mb_sender'[j]
  <2> TAKE j \in DOMAIN mb_sender'
  <2>1. 1 < j + 1
    BY <1>3, <1>4
  <2>2. mb_sender'[j] = mb_sender[j + 1] /\ j + 1 \in DOMAIN mb_sender
    BY <1>4
  <2>3. str' = mb_sender[1] /\ 1 \in DOMAIN mb_sender
    BY <1>1, <1>3
  <2>4. mb_sender[j + 1] \in heap /\ mb_sender[1] < mb_sender[j + 1]
    BY <2>1, <2>2, <2>3 DEF TextInv, Increasing
  <2> QED
    BY <2>2, <2>3, <2>4
<1>7. Increasing(mb_sender')
  <2> SUFFICES ASSUME NEW i \in DOMAIN mb_sender', NEW j \in DOMAIN mb_sender', i < j
               PROVE  mb_sender'[i] < mb_sender'[j]
    BY DEF Increasing
  <2>1. i + 1 < j + 1
    BY <1>3, <1>4
  <2>2. /\ mb_sender'[i] = mb_sender[i + 1] /\ i + 1 \in DOMAIN mb_sender
        /\ mb_sender'[j] = mb_sender[j + 1] /\ j + 1 \in DOMAIN mb_sender
    BY <1>4
  <2>3. Increasing(mb_sender)
    BY DEF TextInv
  <2> QED
    BY <2>1, <2>2, <2>3 DEF Increasing
<1>8. \A i \in DOMAIN reported :
          /\ reported[i] < str'
          /\ \A j \in DOMAIN mb_sender' : reported[i] < mb_sender'[j]
  <2> TAKE i \in DOMAIN reported
  <2>1. \A j \in DOMAIN mb_sender : reported[i] < mb_sender[j]
    BY DEF TextInv
  <2>2. str' = mb_sender[1]
    BY <1>1, <1>3
  <2>3. reported[i] < str'
    BY <1>3, <2>1, <2>2
  <2>4. \A j \in DOMAIN mb_sender' : reported[i] < mb_sender'[j]
    BY <1>4, <2>1
  <2> QED
    BY <2>3, <2>4
<1> QED
  BY <1>1, <1>2, <1>4, <1>5, <1>6, <1>7, <1>8 DEF TextInv, HasText

LEMMA TextObeyed == ASSUME TextInv, ParsesSetting PROVE TextInv'
<1>1. /\ str' = Null /\ UNCHANGED <<scans, heap, mb_sender, reported>>
  BY DEF ParsesSetting
<1>2. ThreadsTyped' /\ at'["sender"] = "delay"
  <2>1. "delay" \in Label
    BY DEF Label
  <2> QED
    BY <2>1, Goes, LabelNext DEF TextInv, ParsesSetting
<1>3. \A j \in DOMAIN mb_sender : Null < mb_sender[j]
  BY DEF TextInv, Null
<1> QED
  BY <1>1, <1>2, <1>3 DEF TextInv, HasText, Null, Increasing

LEMMA TextReported == ASSUME TextInv, xgd_send_message PROVE TextInv'
<1>1. /\ str' = Null /\ UNCHANGED <<scans, mb_sender>>
      /\ heap' = heap \ {str} /\ reported' = Append(reported, str)
      /\ at["sender"] = "parse"
  BY AtIs DEF xgd_send_message
<1>2. ThreadsTyped' /\ at'["sender"] = "delay"
  <2>1. "delay" \in Label
    BY DEF Label
  <2> QED
    BY <2>1, Goes, LabelNext DEF TextInv, xgd_send_message
<1>3. /\ str # Null /\ str \in heap /\ str \in 1 .. scans
      /\ reported \in Seq(Nat) /\ str \in Nat /\ scans \in Nat
  BY <1>1 DEF TextInv, HasText
<1>4. /\ reported' \in Seq(Nat)
      /\ Len(reported) \in Nat /\ DOMAIN reported = 1 .. Len(reported)
      /\ DOMAIN reported' = 1 .. Len(reported) + 1
      /\ \A i \in DOMAIN reported : reported'[i] = reported[i]
      /\ reported'[Len(reported) + 1] = str
  BY <1>1, <1>3, LenProperties, AppendProperties
<1>5. \A i \in DOMAIN reported' : i \in DOMAIN reported \/ i = Len(reported) + 1
  BY <1>4
<1>6. \A j \in DOMAIN mb_sender : mb_sender[j] \in heap' /\ Null < mb_sender[j]
  BY <1>1, <1>3 DEF TextInv, Null
<1>7. \A i \in DOMAIN reported' :
          /\ reported'[i] \in (1 .. scans) \ heap'
          /\ \A j \in DOMAIN mb_sender : reported'[i] < mb_sender[j]
  BY <1>1, <1>3, <1>4, <1>5 DEF TextInv
<1>8. Increasing(reported')
  <2> SUFFICES ASSUME NEW i \in DOMAIN reported', NEW j \in DOMAIN reported', i < j
               PROVE  reported'[i] < reported'[j]
    BY DEF Increasing
  <2>1. i \in DOMAIN reported
    BY <1>4
  <2>2. CASE j \in DOMAIN reported
    BY <1>4, <2>1, <2>2 DEF TextInv, Increasing
  <2>3. CASE j = Len(reported) + 1
    BY <1>3, <1>4, <2>1, <2>3 DEF TextInv
  <2> QED
    BY <1>5, <2>2, <2>3
<1> QED
  BY <1>1, <1>2, <1>3, <1>4, <1>6, <1>7, <1>8 DEF TextInv, HasText, Null

LEMMA StepTexts == TextInv /\ [ScannerNext]_scannerVars => TextInv'
<1> SUFFICES ASSUME TextInv, [ScannerNext]_scannerVars PROVE TextInv'
  OBVIOUS
<1>1. /\ ThreadsTyped /\ ThreadsTyped' /\ "sender" \in Thread
      /\ "camera" \in Thread /\ "decoder" \in Thread /\ "cmd" \in Thread /\ "player" \in Thread
      /\ {"idle", "unlights", "recv", "lights", "play", "parse", "led_on", "load", "led_off",
          "delay", "wild"} \subseteq Label
  BY StepThreads, LabelNext DEF TextInv, Label
<1>2. ASSUME UNCHANGED textVars,
             \/ at'["sender"] = at["sender"]
             \/ at["sender"] \notin HasText /\ at'["sender"] \notin HasText
             \/ at["sender"] \in HasText /\ at'["sender"] \in HasText
      PROVE  TextInv'
  BY <1>1, <1>2, TextsKept
<1>3. CASE Camera
  BY <1>1, <1>2, <1>3, CameraMoves DEF Moves
<1>4. CASE Newline \/ ObeysCommand
  BY <1>1, <1>2, <1>4, CmdMoves DEF Moves
<1>5. CASE audio_player_thread
  BY <1>1, <1>2, <1>5, PlayerMoves DEF Moves
<1>6. CASE xgd_decoder_thread
  <2>1. at'["sender"] = at["sender"]
    BY <1>1, <1>6, DecoderMoves DEF Moves
  <2>2. CASE xgd_send_str
    BY <2>2, TextSent
  <2>3. CASE ~xgd_send_str
    <3>1. UNCHANGED textVars
      BY <1>6, <2>3 DEF xgd_decoder_thread, InitsMail, image_queue_init, ClearsFlag,
                        SetsPointer, TakesFrame, DecodesNothing, image_queue_free
    <3> QED
      BY <1>2, <2>1, <3>1
  <2> QED
    BY <2>2, <2>3
<1>7. CASE TimesOut
  <2>1. at["sender"] = "recv" /\ UNCHANGED textVars
    BY <1>7 DEF TimesOut
  <2>2. \E l \in {"idle", "unlights", "recv"} : Go("sender", l)
    BY <1>7 DEF TimesOut
  <2>3. at'["sender"] \in {"idle", "unlights", "recv"}
    BY <1>1, <2>2, Goes
  <2> QED
    BY <1>2, <2>1, <2>3 DEF HasText
<1>8. ASSUME StartsScan("sender", "start", "lights") PROVE TextInv'
  BY <1>1, <1>2, <1>8, AtIs, Goes DEF StartsScan, HasText
<1>9. ASSUME NEW from \in Label \ HasText, NEW on, NEW to \in Label \ HasText,
             Lights("sender", from, on, to)
      PROVE  TextInv'
  BY <1>1, <1>2, <1>9, AtIs, Goes DEF Lights
<1>10. CASE Lights("sender", "lights", 1, "recv") \/ Lights("sender", "unlights", 0, "idle")
  BY <1>1, <1>9, <1>10 DEF HasText
<1>11. CASE Led("led_on", 1, "play")
  BY <1>1, <1>2, <1>11, AtIs, Goes DEF Led, HasText
<1>12. CASE Led("led_off", 0, "recv")
  BY <1>1, <1>2, <1>12, AtIs, Goes DEF Led, HasText
<1>13. ASSUME NEW f, PlaysFile(f), at["sender"] \in {"play", "load"}
       PROVE  TextInv'
  <2>1. (\E l \in {"parse", "load"} : Go("sender", l)) /\ UNCHANGED textVars
    BY <1>13 DEF PlaysFile
  <2>2. at'["sender"] \in {"parse", "load"}
    BY <1>1, <2>1, Goes
  <2> QED
    BY <1>2, <1>13, <2>1, <2>2 DEF HasText
<1>14. CASE Sounds
  <2>1. CASE Plays
    BY <1>13, <2>1, AtIs DEF Plays
  <2>2. CASE LoadFails
    <3>1. CASE last_filename = "sok.wav"
      BY <1>13, <2>2, <3>1 DEF LoadFails
    <3>2. CASE last_filename # "sok.wav"
      BY <1>1, <1>2, <2>2, <3>2, Goes DEF LoadFails, HasText
    <3> QED
      BY <3>1, <3>2
  <2>3. CASE LoadsSound
    BY <1>1, <1>2, <2>3, Goes DEF LoadsSound, HasText
  <2>4. CASE FreesWild
    BY <1>1, <1>2, <2>4, Goes DEF FreesWild, HasText
  <2> QED
    BY <1>14, <2>1, <2>2, <2>3, <2>4 DEF Sounds
<1>15. CASE DelayEnds
  BY <1>1, <1>2, <1>15, Goes DEF DelayEnds, HasText
<1>16. CASE StopsIdle
  BY <1>1, <1>2, <1>16, AtIs, Goes DEF StopsIdle, HasText
<1>17. CASE StaysOn
  BY <1>1, <1>2, <1>17, AtIs, Goes DEF StaysOn, HasText
<1>18. CASE Wild \/ UNCHANGED scannerVars
  BY <1>2, <1>18 DEF Wild, scannerVars
<1>19. CASE Sends
  BY <1>8, <1>10, <1>11, <1>12, <1>14, <1>15, <1>16, <1>17, <1>19,
     TextTaken, TextObeyed, TextReported DEF Sends
<1> QED
  BY <1>3, <1>4, <1>5, <1>6, <1>7, <1>18, <1>19 DEF ScannerNext

LEMMA InitTexts == ScannerInit => TextInv
<1> SUFFICES ASSUME ScannerInit PROVE TextInv
  OBVIOUS
<1>1. /\ scans = 0 /\ heap = {} /\ mb_sender = <<>> /\ str = Null /\ reported = <<>>
      /\ ThreadsTyped /\ at["sender"] \notin HasText
  BY InitThreads, FirstLabels DEF ScannerInit, HasText
<1>2. <<>> \in Seq(Nat) /\ DOMAIN <<>> = {}
  OBVIOUS
<1> QED
  BY <1>1, <1>2 DEF TextInv, Increasing, Null

(***************************************************************************)
(* A text is freed once, by whoever has it, and the host gets the texts in *)
(* the order they were decoded, however many mails are refused.            *)
(***************************************************************************)
THEOREM ScannerTextOwned == ScannerSpec => []TextOwnedOnce
  BY InitTexts, StepTexts, TextInvOwned, PTL DEF ScannerSpec
-----------------------------------------------------------------------------
(* The image buffers: each has one place, and the mailbox has room for all *)
(* of them, so that image_frame_send may ignore what rt_mb_send returns.   *)

Hands == {pbuf, ptr}

Mailed(b) == \E i \in DOMAIN mb_img : mb_img[i] = b

Owned(b) == b \in Hands \/ Mailed(b)

FrameInv ==
    /\ ThreadsTyped
    /\ ready \subseteq Buffers /\ lost \subseteq Buffers /\ flag \in [Buffers -> {0, 1}]
    /\ pbuf \in Buffers \cup {Null} /\ ptr \in Buffers \cup {Null}
    /\ mb_img \in Seq(Buffers)
    /\ pbuf # Null <=> at["camera"] = "copy"
    /\ ptr # Null <=> at["decoder"] \in {"decode", "free"}
    /\ at["decoder"] = "init" => ready = {} /\ mb_img = <<>>
    /\ at["decoder"] \in {"clear", "set"} => ready # Buffers
    /\ pbuf # Null => pbuf # ptr
    /\ \A i, j \in DOMAIN mb_img : mb_img[i] = mb_img[j] => i = j
    /\ \A i \in DOMAIN mb_img : mb_img[i] \notin Hands
    /\ \A b \in Buffers : Owned(b) => b \in ready /\ b \notin lost
    /\ \A b \in Buffers : flag[b] = 1 <=> Owned(b) \/ b \in lost

LEMMA NoBuffer == Null \notin Buffers
  BY ScannerAssumption DEF Null, Buffers

\* Different buffers, and one not among them, are fewer than IMG_BUF_NUM.
LEMMA RoomForFrame ==
    ASSUME NEW q \in Seq(Buffers), NEW b \in Buffers,
           \A i, j \in DOMAIN q : q[i] = q[j] => i = j,
           \A i \in DOMAIN q : q[i] # b
    PROVE  Len(q) < ImgSlots
<1>1. Len(q) \in Nat /\ DOMAIN q = 1 .. Len(q)
  BY LenProperties
<1> DEFINE n == Len(q) + 1
           f == [i \in 1 .. n |-> IF i = n THEN b ELSE q[i]]
<1>2. f \in [1 .. n -> Buffers]
  <2>1. ASSUME NEW i \in 1 .. n PROVE (IF i = n THEN b ELSE q[i]) \in Buffers
    <3>1. CASE i = n
      BY <3>1
    <3>2. CASE i # n
      <4>1. i \in 1 .. Len(q)
        BY <1>1, <3>2
      <4> QED
        BY <3>2, <4>1, ElementOfSeq
    <3> QED
      BY <3>1, <3>2
  <2> QED
    BY <2>1
<1>3. \A i, j \in 1 .. n : f[i] = f[j] => i = j
  <2> SUFFICES ASSUME NEW i \in 1 .. n, NEW j \in 1 .. n, i # j
               PROVE  f[i] # f[j]
    OBVIOUS
  <2>1. \A x \in 1 .. n : x # n => x \in DOMAIN q
    BY <1>1
  <2> QED
    BY <2>1
<1>4. /\ IsFiniteSet(1 .. n) /\ Cardinality(1 .. n) = n
      /\ IsFiniteSet(Buffers) /\ Cardinality(Buffers) = IMG_BUF_NUM
  <2>1. n \in Nat /\ n >= 1 /\ IMG_BUF_NUM \in Nat /\ IMG_BUF_NUM >= 1
    BY <1>1, ScannerAssumption
  <2> QED
    BY <2>1, FS_Interval DEF Buffers
<1> HIDE DEF f
<1>5. ~(IMG_BUF_NUM < n)
  BY <1>2, <1>3, <1>4, FS_PigeonHole
<1> QED
  BY <1>1, <1>5, ScannerAssumption

\* First picks one of them.
LEMMA FirstIs ==
    ASSUME NEW S, S \subseteq Buffers, S # {}
    PROVE  First(S) \in S
<1>1. S \subseteq Nat
  BY ScannerAssumption DEF Buffers
<1> DEFINE less == {ss \in Nat \X Nat : ss[1] < ss[2]}
<1>2. IsWellFoundedOn(less, Nat)
  BY NatLessThanWellFounded DEF OpToRel
<1>3. PICK x \in S : \A y \in S : <<y, x>> \notin less
  BY <1>1, <1>2, WFMin
<1>4. \A y \in S : x <= y
  <2> TAKE y \in S
  <2>1. x \in Nat /\ y \in Nat
    BY <1>1
  <2>2. y < x => <<y, x>> \in less
    BY <2>1
  <2> QED
    BY <1>3, <2>1, <2>2
<1> QED
  BY <1>4 DEF First

LEMMA FrameInvOwned == FrameInv => FrameOwnedOnce
<1> SUFFICES ASSUME FrameInv, NEW b \in Buffers
             PROVE  Owners(b) = IF b \in lost THEN 0 ELSE flag[b]
  BY DEF FrameOwnedOnce
<1> DEFINE M == {i \in DOMAIN mb_img : mb_img[i] = b}
           H == {x \in {"pbuf", "ptr"} : (x = "pbuf" /\ pbuf = b) \/ (x = "ptr" /\ ptr = b)}
<1>1. b # Null
  BY NoBuffer
<1>2. Owners(b) = Cardinality(M) + Cardinality(H)
  BY DEF Owners
<1>3. /\ flag[b] \in {0, 1} /\ (flag[b] = 1 <=> b \in Hands \/ Mailed(b) \/ b \in lost)
      /\ b \in lost => b \notin Hands /\ ~Mailed(b)
  BY DEF FrameInv, Owned
<1>4. Cardinality({}) = 0 /\ \A x : Cardinality({x}) = 1
  BY FS_EmptySet, FS_Singleton
<1>5. CASE Mailed(b)
  <2>1. PICK i \in DOMAIN mb_img : mb_img[i] = b
    BY <1>5 DEF Mailed
  <2>2. M = {i}
    BY <2>1 DEF FrameInv
  <2>3. H = {}
    BY <2>1 DEF FrameInv, Hands
  <2>4. Cardinality(M) = 1 /\ Cardinality(H) = 0
    BY <1>4, <2>2, <2>3
  <2> HIDE DEF M, H
  <2> QED
    BY <1>2, <1>3, <1>5, <2>4
<1>6. CASE ~Mailed(b)
  <2>1. M = {}
    BY <1>6 DEF Mailed
  <2>2. CASE b = pbuf
    <3>1. H = {"pbuf"}
      BY <1>1, <2>2 DEF FrameInv
    <3>2. Cardinality(M) = 0 /\ Cardinality(H) = 1
      BY <1>4, <2>1, <3>1
    <3> HIDE DEF M, H
    <3> QED
      BY <1>2, <1>3, <2>2, <3>2 DEF Hands
  <2>3. CASE b = ptr /\ b # pbuf
    <3>1. H = {"ptr"}
      BY <2>3
    <3>2. Cardinality(M) = 0 /\ Cardinality(H) = 1
      BY <1>4, <2>1, <3>1
    <3> HIDE DEF M, H
    <3> QED
      BY <1>2, <1>3, <2>3, <3>2 DEF Hands
  <2>4. CASE b \notin Hands
    <3>1. H = {}
      BY <2>4 DEF Hands
    <3>2. Cardinality(M) = 0 /\ Cardinality(H) = 0
      BY <1>4, <2>1, <3>1
    <3> HIDE DEF M, H
    <3> QED
      BY <1>2, <1>3, <1>6, <2>4, <3>2
  <2> QED
    BY <2>2, <2>3, <2>4 DEF Hands
<1> QED
  BY <1>5, <1>6

LEMMA FramesKept ==
    ASSUME FrameInv, UNCHANGED imageVars, ThreadsTyped',
           at'["camera"] = "copy" <=> at["camera"] = "copy",
           at'["decoder"] = "init" <=> at["decoder"] = "init",
           at'["decoder"] \in {"clear", "set"} <=> at["decoder"] \in {"clear", "set"},
           at'["decoder"] \in {"decode", "free"} <=> at["decoder"] \in {"decode", "free"}
    PROVE  FrameInv'
<1>1. UNCHANGED <<ready, flag, lost, pbuf, ptr, mb_img>>
  BY DEF imageVars
<1> QED
  BY <1>1 DEF FrameInv, Hands, Mailed, Owned

\* image_queue_malloc
LEMMA FrameAllocated == ASSUME FrameInv, image_queue_malloc PROVE FrameInv'
<1>1. /\ UNCHANGED <<ready, ptr, mb_img>> /\ at["camera"] = "check"
      /\ "camera" \in Thread /\ "decoder" \in Thread
      /\ "frame" \in Label /\ "copy" \in Label
  BY AtIs DEF image_queue_malloc, Thread, Label
<1>2. ThreadsTyped' /\ at'["decoder"] = at["decoder"]
  BY <1>1, CameraMoves DEF Camera, FrameInv, Moves
<1>3. pbuf = Null
  BY <1>1 DEF FrameInv
<1>4. CASE FreeBuffers = {}
  <2>1. UNCHANGED imageVars /\ at'["camera"] = "frame"
    BY <1>1, <1>4, Goes DEF image_queue_malloc, FrameInv, imageVars
  <2> QED
    BY <1>1, <1>2, <2>1, FramesKept
<1>5. CASE FreeBuffers # {}
  <2> DEFINE b == First(FreeBuffers)
  <2>1. /\ flag' = [flag EXCEPT ![b] = 1]
        /\ pbuf' = IF b \in ready THEN b ELSE Null
        /\ lost' = IF b \in ready THEN lost ELSE lost \cup {b}
        /\ Go("camera", IF b \in ready THEN "copy" ELSE "frame")
    BY <1>5 DEF image_queue_malloc
  <2>2. b \in FreeBuffers
    BY <1>5, FirstIs DEF FreeBuffers
  <2> HIDE DEF b
  <2>3. b \in Buffers /\ flag[b] = 0 /\ b # Null
    BY <2>2, NoBuffer DEF FreeBuffers
  <2>4. at'["camera"] = IF b \in ready THEN "copy" ELSE "frame"
    BY <1>1, <2>1, Goes DEF FrameInv
  <2>7. /\ ~Owned(b) /\ b \notin lost
        /\ flag' \in [Buffers -> {0, 1}] /\ flag'[b] = 1
        /\ \A c \in Buffers : c # b => flag'[c] = flag[c]
    BY <2>1, <2>3 DEF FrameInv
  <2>5. CASE b \in ready
    <3>1. b \notin Hands /\ ~Mailed(b) /\ pbuf' = b /\ lost' = lost
      BY <2>1, <2>5, <2>7 DEF Owned
    <3>3. \A i \in DOMAIN mb_img : mb_img[i] \notin {b, ptr}
      BY <3>1 DEF FrameInv, Mailed, Hands
    <3>4. \A c \in Buffers : Owned(c)' <=> Owned(c) \/ c = b
      BY <1>1, <1>3, <3>1, NoBuffer DEF Owned, Hands, Mailed
    <3>5. \A c \in Buffers : Owned(c)' => c \in ready' /\ c \notin lost'
      BY <1>1, <2>5, <2>7, <3>1, <3>4 DEF FrameInv
    <3>6. \A c \in Buffers : flag'[c] = 1 <=> Owned(c)' \/ c \in lost'
      BY <2>7, <3>1, <3>4 DEF FrameInv
    <3> QED
      BY <1>1, <1>2, <2>3, <2>4, <2>5, <2>7, <3>1, <3>3, <3>5, <3>6 DEF FrameInv, Hands
  <2>6. CASE b \notin ready
    <3>1. pbuf' = Null /\ lost' = lost \cup {b}
      BY <2>1, <2>6
    <3>2. \A c \in Buffers : Owned(c)' <=> Owned(c)
      BY <1>1, <1>3, <3>1 DEF Owned, Hands, Mailed
    <3>3. \A c \in Buffers : Owned(c)' => c \in ready' /\ c \notin lost'
      BY <1>1, <2>7, <3>1, <3>2 DEF FrameInv
    <3>4. \A c \in Buffers : flag'[c] = 1 <=> Owned(c)' \/ c \in lost'
      BY <2>7, <3>1, <3>2 DEF FrameInv
    <3> QED
      BY <1>1, <1>2, <1>3, <2>3, <2>4, <2>6, <2>7, <3>1, <3>3, <3>4 DEF FrameInv, Hands
  <2> QED
    BY <2>5, <2>6
<1> QED
  BY <1>4, <1>5

LEMMA FrameMailed == ASSUME FrameInv, image_frame_send PROVE FrameInv'
<1>1. /\ UNCHANGED <<ready, flag, lost, ptr>> /\ pbuf' = Null /\ at["camera"] = "copy"
      /\ "camera" \in Thread /\ "frame" \in Label
  BY AtIs DEF image_frame_send, Thread, Label
<1>2. ThreadsTyped' /\ at'["decoder"] = at["decoder"] /\ at'["camera"] = "frame"
  BY <1>1, CameraMoves, LabelNext, Goes DEF Camera, FrameInv, Moves, image_frame_send
<1>3. pbuf \in Buffers /\ pbuf # ptr /\ at["decoder"] # "init"
  BY <1>1, NoBuffer DEF FrameInv, Owned, Hands
<1>4. Len(mb_img) < ImgSlots
  BY <1>3, RoomForFrame DEF FrameInv, Hands
<1>5. mb_img' = Append(mb_img, pbuf)
  BY <1>4 DEF image_frame_send, Sent
<1>6. mb_img \in Seq(Buffers)
  BY DEF FrameInv
<1>7. /\ mb_img' \in Seq(Buffers)
      /\ Len(mb_img) \in Nat /\ DOMAIN mb_img = 1 .. Len(mb_img)
      /\ DOMAIN mb_img' = 1 .. Len(mb_img) + 1
      /\ \A i \in DOMAIN mb_img : mb_img'[i] = mb_img[i]
      /\ mb_img'[Len(mb_img) + 1] = pbuf
  BY <1>3, <1>5, <1>6, LenProperties, AppendProperties
<1>8. \A i \in DOMAIN mb_img' : i \in DOMAIN mb_img \/ i = Len(mb_img) + 1
  BY <1>7
<1>9. \A i \in DOMAIN mb_img : mb_img[i] # pbuf /\ mb_img[i] # ptr /\ mb_img[i] # Null
  <2>1. \A i \in DOMAIN mb_img : mb_img[i] \in Buffers
    BY <1>6, <1>7, ElementOfSeq
  <2> QED
    BY <2>1, NoBuffer DEF FrameInv, Hands
<1>10. \A i, j \in DOMAIN mb_img' : mb_img'[i] = mb_img'[j] => i = j
  BY <1>7, <1>8, <1>9 DEF FrameInv
<1>11. \A i \in DOMAIN mb_img' : mb_img'[i] \notin {Null, ptr}
  BY <1>3, <1>7, <1>8, <1>9, NoBuffer
<1>12. \A b \in Buffers : Mailed(b)' <=> Mailed(b) \/ b = pbuf
  <2> TAKE b \in Buffers
  <2>1. ASSUME Mailed(b)' PROVE Mailed(b) \/ b = pbuf
    <3>1. PICK i \in DOMAIN mb_img' : mb_img'[i] = b
      BY <2>1 DEF Mailed
    <3> QED
      BY <1>7, <1>8, <3>1 DEF Mailed
  <2>2. ASSUME Mailed(b) PROVE Mailed(b)'
    <3>1. PICK i \in DOMAIN mb_img : mb_img[i] = b
      BY <2>2 DEF Mailed
    <3>2. i \in DOMAIN mb_img' /\ mb_img'[i] = b
      BY <1>7, <3>1
    <3> QED
      BY <3>2 DEF Mailed
  <2>3. ASSUME b = pbuf PROVE Mailed(b)'
    <3>1. Len(mb_img) + 1 \in DOMAIN mb_img' /\ mb_img'[Len(mb_img) + 1] = b
      BY <1>7, <2>3
    <3> QED
      BY <3>1 DEF Mailed
  <2> QED
    BY <2>1, <2>2, <2>3
<1>13. \A b \in Buffers : Owned(b)' <=> Owned(b)
  BY <1>1, <1>3, <1>12, NoBuffer DEF Owned, Hands
<1> QED
  BY <1>1, <1>2, <1>3, <1>7, <1>10, <1>11, <1>13 DEF FrameInv, Hands

\* rt_mb_init and image_queue_init
LEMMA FramesReset == ASSUME FrameInv, InitsMail \/ image_queue_init PROVE FrameInv'
<1> DEFINE b == First(Buffers \ ready)
<1>1. /\ ThreadsTyped' /\ at'["camera"] = at["camera"] /\ UNCHANGED <<pbuf, ptr>>
      /\ "decoder" \in Thread /\ {"clear", "set", "recv"} \subseteq Label /\ ThreadsTyped
  <2>1. xgd_decoder_thread
    BY DEF xgd_decoder_thread
  <2> QED
    BY <2>1, DecoderMoves, LabelNext
    DEF FrameInv, Moves, InitsMail, image_queue_init, ClearsFlag, SetsPointer, Label
<1>2. at["decoder"] \in {"clear", "set"} => b \in Buffers \ ready
  <2>1. ready # Buffers /\ ready \subseteq Buffers => Buffers \ ready # {}
    OBVIOUS
  <2> QED
    BY <2>1, FirstIs DEF FrameInv
<1> HIDE DEF b
<1>3. CASE InitsMail
  <2>1. /\ mb_img' = <<>> /\ UNCHANGED <<ready, flag, lost>> /\ at["decoder"] = "init"
        /\ Go("decoder", "clear")
    BY <1>3, AtIs DEF InitsMail
  <2>2. mb_img' = mb_img /\ at'["decoder"] = "clear"
    BY <1>1, <2>1, Goes DEF FrameInv
  <2>3. ready # Buffers
    <3>1. 1 \in Buffers
      BY ScannerAssumption DEF Buffers
    <3> QED
      BY <2>1, <3>1 DEF FrameInv
  <2>4. ptr = Null /\ \A c : Owned(c)' <=> Owned(c)
    BY <1>1, <2>1, <2>2 DEF FrameInv, Owned, Hands, Mailed
  <2> QED
    BY <1>1, <2>1, <2>2, <2>3, <2>4 DEF FrameInv, Hands
<1>4. CASE ClearsFlag
  <2>1. /\ flag' = [flag EXCEPT ![b] = 0] /\ lost' = lost \ {b}
        /\ UNCHANGED <<ready, mb_img>> /\ at["decoder"] = "clear" /\ Go("decoder", "set")
    BY <1>4, AtIs DEF ClearsFlag, b
  <2>2. at'["decoder"] = "set" /\ b \in Buffers \ ready
    BY <1>1, <1>2, <2>1, Goes
  <2>3. /\ flag' \in [Buffers -> {0, 1}]
        /\ \A c \in Buffers : flag'[c] = IF c = b THEN 0 ELSE flag[c]
    BY <2>1, <2>2 DEF FrameInv
  <2>4. \A c : Owned(c)' <=> Owned(c)
    BY <1>1, <2>1 DEF Owned, Hands, Mailed
  <2>5. ~Owned(b)
    BY <2>2 DEF FrameInv
  <2>6. \A c \in Buffers : flag'[c] = 1 <=> Owned(c)' \/ c \in lost'
    BY <2>1, <2>3, <2>4, <2>5 DEF FrameInv
  <2> QED
    BY <1>1, <2>1, <2>2, <2>3, <2>4, <2>6 DEF FrameInv, Hands
<1>5. CASE SetsPointer
  <2>1. /\ ready' = ready \cup {b} /\ UNCHANGED <<flag, lost, mb_img>>
        /\ at["decoder"] = "set" /\ Go("decoder", IF ready' = Buffers THEN "recv" ELSE "clear")
    BY <1>5, AtIs DEF SetsPointer, b
  <2>2. /\ at'["decoder"] = IF ready' = Buffers THEN "recv" ELSE "clear"
        /\ b \in Buffers
    BY <1>1, <1>2, <2>1, Goes
  <2>3. ptr = Null /\ \A c : Owned(c)' <=> Owned(c)
    BY <1>1, <2>1 DEF FrameInv, Owned, Hands, Mailed
  <2> QED
    BY <1>1, <2>1, <2>2, <2>3 DEF FrameInv, Hands
<1> QED
  BY <1>3, <1>4, <1>5 DEF image_queue_init

LEMMA FrameTaken == ASSUME FrameInv, TakesFrame PROVE FrameInv'
<1>1. /\ ptr' = Head(mb_img) /\ mb_img' = Tail(mb_img) /\ mb_img # <<>>
      /\ UNCHANGED <<ready, flag, lost, pbuf>> /\ at["decoder"] = "recv"
      /\ mb_img \in Seq(Buffers)
  BY AtIs DEF TakesFrame, FrameInv
<1>2. ThreadsTyped' /\ at'["camera"] = at["camera"] /\ at'["decoder"] = "decode"
  <2>1. xgd_decoder_thread /\ "decode" \in Label
    BY DEF xgd_decoder_thread, Label
  <2> QED
    BY <2>1, DecoderMoves, LabelNext, Goes DEF FrameInv, Moves, TakesFrame
<1>3. /\ Len(mb_img) \in Nat \ {0} /\ DOMAIN mb_img = 1 .. Len(mb_img)
      /\ Head(mb_img) = mb_img[1] /\ 1 \in DOMAIN mb_img
  BY <1>1, LenProperties, EmptySeq
<1>4. /\ mb_img' \in Seq(Buffers)
      /\ DOMAIN mb_img' = 1 .. Len(mb_img) - 1
      /\ \A j \in DOMAIN mb_img' : mb_img'[j] = mb_img[j + 1] /\ j + 1 \in DOMAIN mb_img
                                   /\ j + 1 # 1
  BY <1>1, <1>3, HeadTailProperties, LenProperties
<1>5. ptr' = mb_img[1] /\ ptr' \in Buffers /\ ptr' # pbuf /\ ptr' # Null /\ ptr = Null
  <2>1. mb_img[1] \in Buffers /\ mb_img[1] \notin Hands
    BY <1>1, <1>3, ElementOfSeq DEF FrameInv
  <2>2. ptr = Null
    BY <1>1 DEF FrameInv
  <2> QED
    BY <1>1, <1>3, <2>1, <2>2, NoBuffer DEF Hands
<1>6. \A i, j \in DOMAIN mb_img' : mb_img'[i] = mb_img'[j] => i = j
  <2> SUFFICES ASSUME NEW i \in DOMAIN mb_img', NEW j \in DOMAIN mb_img', mb_img'[i] = mb_img'[j]
               PROVE  i = j
    OBVIOUS
  <2>1. i + 1 = j + 1
    BY <1>4 DEF FrameInv
  <2> QED
    BY <1>3, <1>4, <2>1
<1>7. \A i \in DOMAIN mb_img' : mb_img'[i] \notin {pbuf, ptr'}
  BY <1>3, <1>4, <1>5 DEF FrameInv, Hands
<1>8. \A b \in Buffers : Mailed(b) <=> Mailed(b)' \/ b = ptr'
  <2> TAKE b \in Buffers
  <2>1. ASSUME Mailed(b) PROVE Mailed(b)' \/ b = ptr'
    <3>1. PICK i \in DOMAIN mb_img : mb_img[i] = b
      BY <2>1 DEF Mailed
    <3>2. CASE i = 1
      BY <1>5, <3>1, <3>2
    <3>3. CASE i # 1
      <4>1. i - 1 \in DOMAIN mb_img' /\ (i - 1) + 1 = i
        BY <1>3, <1>4, <3>3
      <4>2. mb_img'[i - 1] = b
        BY <1>4, <3>1, <4>1
      <4> QED
        BY <4>1, <4>2 DEF Mailed
    <3> QED
      BY <3>2, <3>3
  <2>2. ASSUME Mailed(b)' PROVE Mailed(b)
    <3>1. PICK i \in DOMAIN mb_img' : mb_img'[i] = b
      BY <2>2 DEF Mailed
    <3> QED
      BY <1>4, <3>1 DEF Mailed
  <2>3. ASSUME b = ptr' PROVE Mailed(b)
    BY <1>3, <1>5, <2>3 DEF Mailed
  <2> QED
    BY <2>1, <2>2, <2>3
<1>9. \A b \in Buffers : Owned(b)' <=> Owned(b)
  BY <1>1, <1>5, <1>8, NoBuffer DEF Owned, Hands
<1> QED
  BY <1>1, <1>2, <1>4, <1>5, <1>6, <1>7, <1>9 DEF FrameInv, Hands

LEMMA FrameFreed == ASSUME FrameInv, image_queue_free PROVE FrameInv'
<1>1. /\ ptr' = Null /\ flag' = [flag EXCEPT ![ptr] = 0]
      /\ UNCHANGED <<ready, lost, pbuf, mb_img>> /\ at["decoder"] = "free"
  BY AtIs DEF image_queue_free
<1>2. ThreadsTyped' /\ at'["camera"] = at["camera"] /\ at'["decoder"] = "recv"
  <2>1. xgd_decoder_thread /\ "recv" \in Label
    BY DEF xgd_decoder_thread, Label
  <2> QED
    BY <2>1, DecoderMoves, LabelNext, Goes DEF FrameInv, Moves, image_queue_free
<1>3. ptr \in Buffers /\ ptr # pbuf /\ ptr \notin lost
  BY <1>1, NoBuffer DEF FrameInv, Owned, Hands
<1>4. \A i \in DOMAIN mb_img : mb_img[i] # ptr /\ mb_img[i] # pbuf /\ mb_img[i] # Null
  <2>1. \A i \in DOMAIN mb_img : mb_img[i] \in Buffers
    BY LenProperties, ElementOfSeq DEF FrameInv
  <2> QED
    BY <2>1, NoBuffer DEF FrameInv, Hands
<1>5. flag' \in [Buffers -> {0, 1}] /\ \A b \in Buffers : flag'[b] = IF b = ptr THEN 0 ELSE flag[b]
  BY <1>1, <1>3 DEF FrameInv
<1>6. ~Mailed(ptr)
  BY <1>4 DEF Mailed
<1>7. \A b \in Buffers : Owned(b)' <=> Owned(b) /\ b # ptr
  <2> TAKE b \in Buffers
  <2>1. Mailed(b)' <=> Mailed(b)
    BY <1>1 DEF Mailed
  <2> QED
    BY <1>1, <1>3, <1>6, <2>1, NoBuffer DEF Owned, Hands
<1>8. \A b \in Buffers : flag'[b] = 1 <=> Owned(b)' \/ b \in lost
  <2> TAKE b \in Buffers
  <2>1. CASE b = ptr
    BY <1>3, <1>5, <1>7, <2>1
  <2>2. CASE b # ptr
    BY <1>5, <1>7, <2>2 DEF FrameInv
  <2> QED
    BY <2>1, <2>2
<1> QED
  BY <1>1, <1>2, <1>3, <1>4, <1>5, <1>7, <1>8 DEF FrameInv, Hands

LEMMA StepFrames == FrameInv /\ [ScannerNext]_scannerVars => FrameInv'
<1> SUFFICES ASSUME FrameInv, [ScannerNext]_scannerVars PROVE FrameInv'
  OBVIOUS
<1>1. /\ ThreadsTyped /\ ThreadsTyped' /\ "camera" \in Thread /\ "decoder" \in Thread
      /\ "sender" # "camera" /\ "cmd" # "camera" /\ "player" # "camera"
      /\ "sender" # "decoder" /\ "cmd" # "decoder" /\ "player" # "decoder"
      /\ "frame" \in Label /\ "check" \in Label /\ "free" \in Label
  BY StepThreads DEF FrameInv, Thread, Label
<1>2. ASSUME UNCHANGED imageVars, at'["camera"] = at["camera"], at'["decoder"] = at["decoder"]
      PROVE  FrameInv'
  BY <1>1, <1>2, FramesKept
<1>3. CASE Newline \/ ObeysCommand
  BY <1>1, <1>2, <1>3, CmdMoves DEF Moves
<1>4. CASE audio_player_thread
  BY <1>1, <1>2, <1>4, PlayerMoves DEF Moves
<1>5. CASE Sends \/ TimesOut
  BY <1>1, <1>2, <1>5, SenderMoves DEF Moves
<1>6. CASE FrameArrives
  BY <1>1, <1>6, Goes, FramesKept DEF FrameArrives
<1>7. CASE Skips
  BY <1>1, <1>7, AtIs, Goes, FramesKept DEF Skips
<1>8. CASE DecodesNothing
  BY <1>1, <1>8, AtIs, Goes, FramesKept DEF DecodesNothing
<1>9. CASE xgd_send_str
  BY <1>1, <1>9, AtIs, Goes, FramesKept DEF xgd_send_str
<1>10. CASE Wild \/ UNCHANGED scannerVars
  BY <1>2, <1>10 DEF Wild, scannerVars
<1>11. CASE Camera
  BY <1>6, <1>7, <1>11, FrameAllocated, FrameMailed DEF Camera
<1>12. CASE xgd_decoder_thread
  BY <1>8, <1>9, <1>12, FramesReset, FrameTaken, FrameFreed DEF xgd_decoder_thread
<1> QED
  BY <1>3, <1>4, <1>5, <1>10, <1>11, <1>12 DEF ScannerNext

LEMMA InitFrames == ScannerInit => FrameInv
<1> SUFFICES ASSUME ScannerInit PROVE FrameInv
  OBVIOUS
<1>1. /\ ready = {} /\ lost = {} /\ flag = [b \in Buffers |-> 0] /\ pbuf = Null /\ ptr = Null
      /\ mb_img = <<>>
      /\ ThreadsTyped /\ at["camera"] = "frame" /\ at["decoder"] = "init"
  BY InitThreads, FirstLabels DEF ScannerInit
<1>2. <<>> \in Seq(Buffers) /\ DOMAIN <<>> = {}
  OBVIOUS
<1>3. \A b \in Buffers : ~Owned(b)
  BY <1>1, <1>2, NoBuffer DEF Owned, Hands, Mailed
<1> QED
  BY <1>1, <1>2, <1>3 DEF FrameInv

(***************************************************************************)
(* No frame is overwritten, and no buffer is lost but one the camera has   *)
(* claimed before image_queue_init set its bufferptr, for every number of  *)
(* buffers, if the mailbox has a slot for each.                            *)
(***************************************************************************)
THEOREM ScannerFramesOwned == ScannerSpec => []FrameOwnedOnce
  BY InitFrames, StepFrames, FrameInvOwned, PTL DEF ScannerSpec

-----------------------------------------------------------------------------
(***************************************************************************)
(* The store.  The invariant is RestartFindsSettings with the types of the *)
(* two sequences and the fact that there is a file while it is written.    *)
(***************************************************************************)
Line == (Key \cup {Name(Section)}) \X Int

SettingsInv ==
    /\ file.exists \in BOOLEAN /\ file.lines \in Seq(Line)
    /\ file = [exists |-> file.exists, lines |-> file.lines]
    /\ handle \in Seq(Line)
    /\ config \in Saving => file.exists
    /\ RestartFindsSettings

\* The next line of a prefix of h makes a longer prefix of it.
LEMMA PrefixGrows ==
    ASSUME NEW S, NEW h \in Seq(S), NEW p \in Seq(S),
           p = SubSeq(h, 1, Len(p)), Len(p) < Len(h)
    PROVE  /\ Append(p, h[Len(p) + 1]) \in Seq(S)
           /\ Append(p, h[Len(p) + 1]) = SubSeq(h, 1, Len(Append(p, h[Len(p) + 1])))
<1> DEFINE n == Len(p)
           q == Append(p, h[n + 1])
<1>1. n \in Nat /\ Len(h) \in Nat /\ n + 1 \in 1 .. Len(h)
  BY LenProperties
<1>2. h[n + 1] \in S
  BY <1>1, ElementOfSeq
<1>3. q \in Seq(S) /\ Len(q) = n + 1
  BY <1>1, <1>2, AppendProperties
<1>4. \A i \in 1 .. n : p[i] = h[i]
  BY <1>1, SubSeqProperties
<1>5. \A i \in 1 .. n + 1 : q[i] = h[i]
  BY <1>1, <1>2, <1>4, AppendProperties
<1>6. /\ SubSeq(h, 1, n + 1) \in Seq(S)
      /\ Len(SubSeq(h, 1, n + 1)) = n + 1
      /\ \A i \in 1 .. n + 1 : SubSeq(h, 1, n + 1)[i] = h[i]
  BY <1>1, SubSeqProperties
<1>7. q = SubSeq(h, 1, n + 1)
  BY <1>1, <1>3, <1>5, <1>6, SeqEqual
<1> QED
  BY <1>3, <1>7

\* A prefix of h as long as h is h.
LEMMA WholePrefix ==
    ASSUME NEW S, NEW h \in Seq(S)
    PROVE  SubSeq(h, 1, Len(h)) = h
<1>1. Len(h) \in Nat
  BY LenProperties
<1>2. /\ SubSeq(h, 1, Len(h)) \in Seq(S)
      /\ Len(SubSeq(h, 1, Len(h))) = Len(h)
      /\ \A i \in 1 .. Len(h) : SubSeq(h, 1, Len(h))[i] = h[i]
  BY <1>1, SubSeqProperties
<1> QED
  BY <1>1, <1>2, SeqEqual
-----------------------------------------------------------------------------
(* What the operators on records return.                                   *)

LEMMA SectionIsLine ==
    Section \in Line /\ <<Section>> \in Seq(Line)
<1>1. Section \in Line
  BY DEF Section, Line, Name
<1>2. \A s \in Line : <<s>> \in Seq(Line)
  <2> SUFFICES ASSUME NEW s \in Line PROVE <<s>> \in Seq(Line)
    OBVIOUS
  <2>1. <<s>> = [i \in 1 .. 1 |-> s] /\ [i \in 1 .. 1 |-> s] \in [1 .. 1 -> Line]
    OBVIOUS
  <2> QED
    BY <2>1, SeqDef
<1> QED
  BY <1>1, <1>2

LEMMA ReadIsInt ==
    ASSUME NEW h \in Seq(Line), NEW k
    PROVE  xgd_config_read(h, k) \in Int
<1>1. CASE LinesOf(h, k) = {}
  BY <1>1 DEF xgd_config_read, Missing
<1>2. CASE LinesOf(h, k) # {}
  <2> DEFINE i == CHOOSE j \in LinesOf(h, k) : TRUE
  <2>1. i \in 1 .. Len(h)
    BY <1>2, LenProperties DEF LinesOf
  <2>2. h[i] \in Line
    BY <2>1, ElementOfSeq
  <2> QED
    BY <1>2, <2>2 DEF xgd_config_read, Value, Line
<1> QED
  BY <1>1, <1>2

LEMMA NewValueIsInt ==
    ASSUME NEW h \in Seq(Line), NEW s \in Sets
    PROVE  NewValue(h, s) \in Int
<1>1. s \in [key : Key, op : {"write", "open", "close"}, param : Nat]
  BY SettingsAssumption
<1> DEFINE v == Byte(xgd_config_read(h, s.key))
<1>2. v \in Int
  BY ReadIsInt DEF Byte
<1>3. s.param \in Int /\ s.op \in {"write", "open", "close"}
  BY <1>1
<1> QED
  BY <1>2, <1>3 DEF NewValue

LEMMA SetKeyIsSeq ==
    ASSUME NEW h \in Seq(Line), NEW k \in Key, NEW v \in Int
    PROVE  dev_ini_set_key(h, k, v) \in Seq(Line)
<1>1. <<k, v>> \in Line
  BY DEF Line
<1>2. CASE LinesOf(h, k) # {}
  <2> DEFINE g == [i \in DOMAIN h |-> IF i \in LinesOf(h, k) THEN <<k, v>> ELSE h[i]]
  <2>1. DOMAIN h = 1 .. Len(h) /\ Len(h) \in Nat
    BY LenProperties
  <2>2. \A i \in DOMAIN h : h[i] \in Line
    BY <2>1, ElementOfSeq
  <2>3. g \in [1 .. Len(h) -> Line]
    BY <1>1, <2>1, <2>2
  <2>4. g \in Seq(Line)
    BY <2>1, <2>3, SeqDef
  <2> QED
    BY <1>2, <2>4 DEF dev_ini_set_key
<1>3. CASE LinesOf(h, k) = {}
  <2> DEFINE g == IF h = <<>> THEN <<Section>> ELSE h
  <2>1. g \in Seq(Line)
    BY SectionIsLine
  <2>2. << <<k, v>> >> \in Seq(Line)
    BY <1>1
  <2>3. g \o << <<k, v>> >> \in Seq(Line)
    BY <2>1, <2>2, ConcatProperties
  <2> QED
    BY <1>3, <2>3 DEF dev_ini_set_key
<1> QED
  BY <1>2, <1>3

LEMMA DefaultsAreLines == Defaults \in Seq(Line)
<1>1. config_default \in Seq(Line)
  <2>1. /\ DOMAIN config_default = 1 .. Len(config_default)
        /\ Len(config_default) \in Nat
    BY SettingsAssumption, LenProperties
  <2>2. ASSUME NEW i \in DOMAIN config_default
        PROVE  config_default[i] \in Line
    <3>1. config_default[i] \in STRING \X Nat
      BY <2>1, SettingsAssumption, ElementOfSeq
    <3>2. config_default[i] = <<config_default[i][1], config_default[i][2]>>
      BY <3>1
    <3>3. config_default[i][1] \in Key /\ config_default[i][2] \in Int
      BY <3>1 DEF Key, Name
    <3> QED
      BY <3>2, <3>3 DEF Line
  <2>3. config_default = [i \in DOMAIN config_default |-> config_default[i]]
    BY SettingsAssumption
  <2>4. config_default \in [1 .. Len(config_default) -> Line]
    BY <2>1, <2>2, <2>3
  <2> QED
    BY <2>1, <2>4, SeqDef
<1>2. <<Section>> \in Seq(Line)
  BY SectionIsLine
<1> QED
  BY <1>1, <1>2, ConcatProperties DEF Defaults
-----------------------------------------------------------------------------
LEMMA InitSettings == SettingsInit => SettingsInv
<1> SUFFICES ASSUME SettingsInit PROVE SettingsInv
  OBVIOUS
<1>1. <<>> \in Seq(Line)
  OBVIOUS
<1> QED
  BY <1>1 DEF SettingsInit, SettingsInv, NoFile, Saving, RestartFindsSettings

LEMMA StepSettings == SettingsInv /\ [SettingsNext]_settingsVars => SettingsInv'
<1> SUFFICES ASSUME SettingsInv, [SettingsNext]_settingsVars PROVE SettingsInv'
  OBVIOUS
<1> USE DEF Saving
<1>1. /\ file.exists \in BOOLEAN /\ file.lines \in Seq(Line)
      /\ file = [exists |-> file.exists, lines |-> file.lines]
      /\ handle \in Seq(Line)
      /\ config \in Saving => file.exists
      /\ RestartFindsSettings
  BY DEF SettingsInv
<1>2. /\ <<>> \in Seq(Line) /\ Len(<<>>) = 0
      /\ \A h : SubSeq(h, 1, 0) = <<>>
  BY SubSeqEmpty
<1>3. CASE Loads
  <2>1. file.lines = SubSeq(file.lines, 1, Len(file.lines))
    BY <1>1, WholePrefix
  <2> QED
    BY <1>1, <1>3, <2>1 DEF Loads, SettingsInv, RestartFindsSettings
<1>4. CASE xgd_config_default
  BY <1>1, <1>2, <1>4, DefaultsAreLines
  DEF xgd_config_default, File, SettingsInv, RestartFindsSettings
<1>5. CASE Starts
  BY <1>1, <1>5 DEF Starts, SettingsInv, RestartFindsSettings
<1>6. ASSUME NEW from, NEW write \in Saving, Saves(from, write)
      PROVE  SettingsInv'
  BY <1>1, <1>2, <1>6 DEF Saves, File, SettingsInv, RestartFindsSettings
<1>7. CASE WritesLine
  <2>1. file.lines = SubSeq(handle, 1, Len(file.lines))
    BY <1>1, <1>7 DEF WritesLine, RestartFindsSettings
  <2> DEFINE lines == Append(file.lines, handle[Len(file.lines) + 1])
  <2>2. lines \in Seq(Line) /\ lines = SubSeq(handle, 1, Len(lines))
    BY <1>1, <1>7, <2>1, PrefixGrows DEF WritesLine
  <2>3. file' = [exists |-> TRUE, lines |-> lines] /\ handle' = handle /\ config' = config
    BY <1>7 DEF WritesLine, File
  <2>4. config \in Saving
    BY <1>7 DEF WritesLine
  <2> HIDE DEF lines
  <2> QED
    BY <1>1, <2>2, <2>3, <2>4 DEF SettingsInv, RestartFindsSettings
<1>8. CASE Saved
  <2>1. file.lines = SubSeq(handle, 1, Len(file.lines))
    BY <1>1, <1>8 DEF Saved, RestartFindsSettings
  <2>2. file.lines = handle
    BY <1>1, <1>8, <2>1, WholePrefix DEF Saved
  <2> QED
    BY <1>1, <1>8, <2>1, <2>2 DEF Saved, SettingsInv, RestartFindsSettings
<1>9. CASE FactorySettings
  BY <1>1, <1>2, <1>9 DEF FactorySettings, NoFile, SettingsInv, RestartFindsSettings
<1>10. ASSUME NEW s \in Sets, Obeys(s)
       PROVE  SettingsInv'
  <2>1. s.key \in Key
    BY SettingsAssumption
  <2>2. handle' \in Seq(Line)
    BY <1>1, <1>10, <2>1, SetKeyIsSeq, NewValueIsInt DEF Obeys
  <2> QED
    BY <1>1, <1>10, <2>2 DEF Obeys, SettingsInv, RestartFindsSettings
<1>11. CASE Applies
  BY <1>1, <1>11 DEF Applies, SettingsInv, RestartFindsSettings
<1>12. CASE PowerLoss
  BY <1>1, <1>2, <1>12 DEF PowerLoss, SettingsInv, RestartFindsSettings
<1>13. CASE UNCHANGED settingsVars
  BY <1>1, <1>13 DEF settingsVars, SettingsInv, RestartFindsSettings
<1>14. CASE dev_ini_save
  BY <1>6, <1>7, <1>8, <1>14 DEF dev_ini_save
<1> QED
  BY <1>3, <1>4, <1>5, <1>9, <1>10, <1>11, <1>12, <1>13, <1>14 DEF SettingsNext

(***************************************************************************)
(* Whenever power is lost, the next start finds the settings in use or,    *)
(* during a save, the first of the new ones.                               *)
(***************************************************************************)
THEOREM SettingsSurvivePowerLoss == SettingsSpec => []RestartFindsSettings
<1>1. SettingsInv => RestartFindsSettings
  BY DEF SettingsInv
<1> QED
  BY <1>1, InitSettings, StepSettings, PTL DEF SettingsSpec
-----------------------------------------------------------------------------
(***************************************************************************)
(* What a missing setting is used at.  While the firmware is up, a key the *)
(* records do not have is used at its default, and the records have the    *)
(* key of the setting that is being obeyed: so obeying it cannot bring a   *)
(* value into use that a restart would not find.                           *)
(***************************************************************************)
Up == {"up", "save", "write", "apply"}

ForgetInv ==
    /\ use \in [Key -> Int]
    /\ config \in {"save", "write", "apply"} => LinesOf(handle, setting) # {}
    /\ config \in Up =>
           \A k \in Key \cap Checked : LinesOf(handle, k) = {} => use[k] = Default(k)

\* Setting a key adds it, and takes no other away.
LEMMA SetKeyKeepsKeys ==
    ASSUME NEW h \in Seq(Line), NEW k \in Key, NEW v \in Int
    PROVE  /\ LinesOf(dev_ini_set_key(h, k, v), k) # {}
           /\ \A j \in Key : LinesOf(h, j) # {} => LinesOf(dev_ini_set_key(h, k, v), j) # {}
<1> DEFINE d == dev_ini_set_key(h, k, v)
<1>1. DOMAIN h = 1 .. Len(h) /\ Len(h) \in Nat
  BY LenProperties
<1>2. CASE LinesOf(h, k) # {}
  <2> DEFINE g == [i \in DOMAIN h |-> IF i \in LinesOf(h, k) THEN <<k, v>> ELSE h[i]]
  <2>1. d = g /\ DOMAIN g = DOMAIN h
    BY <1>2 DEF dev_ini_set_key
  <2>2. \A i \in DOMAIN h : Name(g[i]) = Name(h[i])
    BY DEF LinesOf, Name
  <2> HIDE DEF g
  <2>3. \A j : LinesOf(g, j) = LinesOf(h, j)
    BY <2>1, <2>2 DEF LinesOf
  <2> QED
    BY <1>2, <2>1, <2>3
<1>3. CASE LinesOf(h, k) = {}
  <2> DEFINE g == IF h = <<>> THEN <<Section>> ELSE h
             q == << <<k, v>> >>
             c == g \o q
  <2>1. d = c
    BY <1>3 DEF dev_ini_set_key
  <2>2. g \in Seq(Line) /\ q \in Seq(Line) /\ Len(q) = 1 /\ q[1] = <<k, v>>
    <3>1. <<k, v>> \in Line
      BY DEF Line
    <3> QED
      BY <3>1, SectionIsLine
  <2>3. /\ Len(g) \in Nat /\ DOMAIN h \subseteq 1 .. Len(g)
        /\ \A i \in DOMAIN h : g[i] = h[i]
    <3>1. CASE h = <<>>
      BY <3>1, <2>2, <1>1, LenProperties
    <3>2. CASE h # <<>>
      BY <3>2, <1>1
    <3> QED
      BY <3>1, <3>2
  <2>4. /\ DOMAIN c = 1 .. Len(g) + 1
        /\ \A i \in 1 .. Len(g) : c[i] = g[i]
        /\ c[Len(g) + 1] = <<k, v>>
    <3> HIDE DEF g, q
    <3>1. /\ c \in Seq(Line) /\ Len(c) = Len(g) + Len(q)
          /\ \A i \in 1 .. Len(c) : c[i] = IF i <= Len(g) THEN g[i] ELSE q[i - Len(g)]
      <4>1. g \in Seq(Line) /\ q \in Seq(Line)
        BY <2>2
      <4> QED
        BY <4>1, ConcatProperties
    <3>2. DOMAIN c = 1 .. Len(c)
      BY <3>1, LenProperties
    <3> QED
      BY <2>2, <2>3, <3>1, <3>2
  <2> HIDE DEF g, q, c
  <2>5. Len(g) + 1 \in LinesOf(c, k)
    BY <2>3, <2>4 DEF LinesOf, Name
  <2>6. \A j : LinesOf(h, j) \subseteq LinesOf(c, j)
    BY <2>3, <2>4 DEF LinesOf, Name
  <2> QED
    BY <2>1, <2>5, <2>6
<1> QED
  BY <1>2, <1>3

\* What a setting is used at is a number.
LEMMA UsedIsInt ==
    ASSUME NEW k, NEW v \in Int
    PROVE  Used(k, v) \in Int /\ UsedAtOnce(k, v) \in Int
<1>1. Byte(v) \in Int
  BY DEF Byte
<1>2. Char(v) \in Int
  BY <1>1 DEF Char
<1>3. Used(k, v) \in Int
  BY <1>1, <1>2 DEF Used
<1> QED
  BY <1>2, <1>3 DEF UsedAtOnce

LEMMA StepForget == SettingsInv /\ ForgetInv /\ [SettingsNext]_settingsVars => ForgetInv'
<1> SUFFICES ASSUME SettingsInv, ForgetInv, [SettingsNext]_settingsVars PROVE ForgetInv'
  OBVIOUS
<1>1. /\ use \in [Key -> Int] /\ handle \in Seq(Line)
      /\ config \in {"save", "write", "apply"} => LinesOf(handle, setting) # {}
      /\ config \in Up =>
             \A k \in Key \cap Checked : LinesOf(handle, k) = {} => use[k] = Default(k)
  BY DEF ForgetInv, SettingsInv
<1>2. ASSUME config' \notin Up, use' \in [Key -> Int]
      PROVE  ForgetInv'
  BY <1>2 DEF ForgetInv, Up
<1>3. ASSUME UNCHANGED <<handle, setting, use>>,
             \/ config' = config
             \/ config = "save" /\ config' = "write"
             \/ config = "write" /\ config' = "apply"
      PROVE  ForgetInv'
  BY <1>1, <1>3 DEF ForgetInv, Up
<1>4. CASE Loads \/ xgd_config_default
  <2>1. config' \notin Up /\ use' = use
    BY <1>4, Zenon DEF Loads, xgd_config_default, Up
  <2> QED
    BY <1>1, <1>2, <2>1
<1>5. CASE Starts
  <2>1. \A k \in Key : Used(k, xgd_config_read(handle, k)) \in Int
    BY <1>1, ReadIsInt, UsedIsInt
  <2>2. use' \in [Key -> Int]
    BY <1>5, <2>1 DEF Starts
  <2>3. \A k \in Key \cap Checked : LinesOf(handle, k) = {} => use'[k] = Default(k)
    BY <1>5, ReadersAssumption DEF Starts, xgd_config_read
  <2> QED
    BY <1>5, <2>2, <2>3 DEF Starts, ForgetInv
<1>6. CASE dev_ini_save
  <2>1. CASE Saves("save default", "write default")
    <3>1. config' \notin Up /\ use' = use
      BY <2>1, Zenon DEF Saves, Up
    <3> QED
      BY <1>1, <1>2, <3>1
  <2>2. CASE Saves("save", "write")
    BY <1>3, <2>2 DEF Saves
  <2>3. CASE WritesLine
    BY <1>3, <2>3, Zenon DEF WritesLine
  <2>4. CASE Saved
    <3>1. CASE config = "write"
      BY <1>3, <2>4, <3>1, Zenon DEF Saved
    <3>2. CASE config # "write"
      <4>1. config' \notin Up /\ use' = use
        BY <2>4, <3>2, Zenon DEF Saved, Up
      <4> QED
        BY <1>1, <1>2, <4>1
    <3> QED
      BY <3>1, <3>2
  <2> QED
    BY <1>6, <2>1, <2>2, <2>3, <2>4, Zenon DEF dev_ini_save
<1>7. CASE FactorySettings
  BY <1>3, <1>7 DEF FactorySettings
<1>8. ASSUME NEW s \in Sets, Obeys(s)
      PROVE  ForgetInv'
  <2>1. s.key \in Key
    BY SettingsAssumption
  <2> DEFINE h == dev_ini_set_key(handle, s.key, NewValue(handle, s))
  <2>2. LinesOf(h, s.key) # {} /\ \A k \in Key : LinesOf(h, k) = {} => LinesOf(handle, k) = {}
    BY <1>1, <2>1, NewValueIsInt, SetKeyKeepsKeys
  <2>3. handle' = h /\ setting' = s.key /\ config = "up" /\ config' = "save" /\ use' = use
    BY <1>8 DEF Obeys
  <2> HIDE DEF h
  <2> QED
    BY <1>1, <2>2, <2>3 DEF ForgetInv, Up
<1>9. CASE Applies
  <2>1. config = "apply" /\ config' = "up" /\ handle' = handle
    BY <1>9, Zenon DEF Applies
  <2>2. LinesOf(handle, setting) # {}
    BY <1>1, <2>1
  <2>3. /\ use' \in [Key -> Int]
        /\ \A k \in Key \ {setting} : use'[k] = use[k]
    <3>1. CASE setting \in InUseAtOnce
      <4> DEFINE u == UsedAtOnce(setting, xgd_config_read(handle, setting))
      <4>1. u \in Int
        BY <1>1, ReadIsInt, UsedIsInt
      <4>2. use' = [use EXCEPT ![setting] = u]
        BY <1>9, <3>1, Zenon DEF Applies
      <4> HIDE DEF u
      <4> QED
        BY <1>1, <4>1, <4>2
    <3>2. CASE setting \notin InUseAtOnce
      <4>1. use' = use
        BY <1>9, <3>2, Zenon DEF Applies
      <4> QED
        BY <1>1, <4>1
    <3> QED
      BY <3>1, <3>2
  <2> QED
    BY <1>1, <2>1, <2>2, <2>3 DEF ForgetInv, Up
<1>10. CASE PowerLoss
  <2>1. config' \notin Up /\ use' = [k \in Key |-> Missing]
    BY <1>10, Zenon DEF PowerLoss, Up
  <2> QED
    BY <1>2, <2>1 DEF Missing
<1>11. CASE UNCHANGED settingsVars
  BY <1>3, <1>11, Zenon DEF settingsVars
<1> QED
  BY <1>4, <1>5, <1>6, <1>7, <1>8, <1>9, <1>10, <1>11 DEF SettingsNext

(***************************************************************************)
(* A setting of Checked that the file has lost is used at its factory      *)
(* value: of what a power loss in the middle of dev_ini_save takes from    *)
(* the file, the decoder, the serial port and the volume find the default. *)
(* Of the settings outside Checked, SET_VOICE among them, it says nothing: *)
(* those readers go on with -1.                                            *)
(***************************************************************************)
THEOREM LostSettingIsDefault == SettingsSpec => []ForgottenIsDefault
<1>1. SettingsInit => ForgetInv
  <2> SUFFICES ASSUME SettingsInit PROVE ForgetInv
    OBVIOUS
  <2>1. config \notin Up /\ use = [k \in Key |-> Missing]
    BY Zenon DEF SettingsInit, Up
  <2> QED
    BY <2>1 DEF ForgetInv, Up, Missing
<1>2. SettingsInv /\ ForgetInv => ForgottenIsDefault
  <2> SUFFICES ASSUME SettingsInv, ForgetInv, config = "up", file.exists,
                      NEW k \in Key \cap Checked, LinesOf(file.lines, k) = {}
               PROVE  use[k] = Default(k)
    BY DEF ForgottenIsDefault
  <2>1. file.lines = handle
    BY DEF SettingsInv, RestartFindsSettings, Saving
  <2> QED
    BY <2>1 DEF ForgetInv, Up
<1> QED
  BY <1>1, <1>2, InitSettings, StepSettings, StepForget, PTL DEF SettingsSpec
-----------------------------------------------------------------------------
(***************************************************************************)
(* Every step of the firmware is a step of the settings or leaves them.    *)
(***************************************************************************)
LEMMA StepIsSettings == [Next]_vars => [SettingsNext]_settingsVars
<1> SUFFICES ASSUME [Next]_vars PROVE [SettingsNext]_settingsVars
  OBVIOUS
<1>1. CASE SenderOpens \/ CmdOpens
  BY <1>1 DEF SenderOpens, CmdOpens
<1>2. CASE SnOpens
  BY <1>2 DEF SnOpens
<1>3. CASE Configures
  BY <1>3 DEF Configures, SettingsNext
<1>4. CASE Provisions
  BY <1>4, Zenon DEF Provisions
<1>5. CASE Power
  BY <1>5 DEF Power, SettingsNext
<1>6. CASE UNCHANGED vars
  BY <1>6 DEF vars
<1> QED
  BY <1>1, <1>2, <1>3, <1>4, <1>5, <1>6 DEF Next, Overrun

(***************************************************************************)
(* Wherever the firmware loses power, the next start finds the settings in *)
(* use or, during a save, the first of the new ones.                       *)
(***************************************************************************)
THEOREM FirmwareKeepsSettings == Spec => []RestartFindsSettings
<1>1. Init => SettingsInit
  BY DEF Init
<1>2. Spec => SettingsSpec
  BY <1>1, StepIsSettings, PTL DEF Spec, SettingsSpec
<1> QED
  BY <1>2, SettingsSurvivePowerLoss, PTL

(***************************************************************************)
(* In the firmware too, a setting of Checked that the file has lost is     *)
(* used at its factory value.                                              *)
(***************************************************************************)
THEOREM FirmwareForgets == Spec => []ForgottenIsDefault
<1>1. Init => SettingsInit
  BY DEF Init
<1>2. Spec => SettingsSpec
  BY <1>1, StepIsSettings, PTL DEF Spec, SettingsSpec
<1> QED
  BY <1>2, LostSettingIsDefault, PTL
-----------------------------------------------------------------------------
(* The USB port.                                                           *)

\* until sn_down listens, only a device with a serial number may be a keyboard
PortInv ==
    /\ g_usb_fd \in {"none", "cdc", "hid"}
    /\ down = "open" => sector.sn = Absent /\ g_usb_fd # "hid"
    /\ down = "off" /\ g_usb_fd = "hid" => sector.sn # Absent
    /\ ListensOverCdc

\* A stage of a download is no stage before it.
LEMMA Stages ==
    Provisions =>
        /\ UNCHANGED g_usb_fd
        /\ \/ Boots
           \/ UNCHANGED <<down, sector>>
           \/ down \notin {"off", "idle", "open"} /\ down' \notin {"off", "idle", "open"}
<1> SUFFICES ASSUME Provisions
             PROVE  /\ UNCHANGED g_usb_fd
                    /\ \/ Boots
                       \/ UNCHANGED <<down, sector>>
                       \/ /\ down \notin {"off", "idle", "open"}
                          /\ down' \notin {"off", "idle", "open"}
  OBVIOUS
<1>1. UNCHANGED g_usb_fd
  BY DEF Provisions, usbVars
<1>2. ASSUME NEW m \in Messages, HostSends(m) PROVE UNCHANGED <<down, sector>>
  BY <1>2 DEF HostSends
<1>3. ASSUME NEW n \in 1 .. Len(wire), Reads(n)
      PROVE  down = "read" /\ down' \in {"read", "erase sn", "overrun"}
  BY <1>3 DEF Reads
<1>4. CASE Flash_Base_Write
  BY <1>1, <1>4 DEF Flash_Base_Write, Erases, ProgramsSn, ProgramsCipher
<1>5. CASE generate_random \/ Encrypts \/ Compares \/ Replies
  BY <1>1, <1>5 DEF generate_random, Encrypts, Compares, Replies
<1>6. CASE \/ efuse_write_key(0, "key 0", "key 1")
           \/ efuse_write_key(1, "key 1", "key 2")
           \/ efuse_write_key(2, "key 2", "encrypt")
  BY <1>1, <1>6 DEF efuse_write_key
<1> QED
  BY <1>1, <1>2, <1>3, <1>4, <1>5, <1>6 DEF Provisions

LEMMA StepPort == PortInv /\ [Next]_vars => PortInv'
<1> SUFFICES ASSUME PortInv, [Next]_vars PROVE PortInv'
  OBVIOUS
<1> USE DEF PortInv, ListensOverCdc, dev_usb_open
<1>1. CASE SenderOpens
  <2>1. UNCHANGED <<down, sector>> /\ com_choice' = ComChoice
    BY <1>1 DEF SenderOpens, provisionVars
  <2>2. CASE com_choice' = SET_USB_CDC_COM
    BY <1>1, <2>1, <2>2 DEF SenderOpens, SET_USB_CDC_COM, SET_USB_HID_MODE
  <2>3. CASE com_choice' = SET_USB_HID_MODE
    <3>1. sector.sn # Absent
      BY <2>1, <2>3 DEF ComChoice, SET_USB_CDC_COM, SET_USB_HID_MODE
    <3>2. g_usb_fd' = IF g_usb_fd = "none" THEN "hid" ELSE g_usb_fd
      BY <1>1, <2>3 DEF SenderOpens, SET_USB_CDC_COM, SET_USB_HID_MODE
    <3> QED
      BY <2>1, <3>1, <3>2
  <2>4. CASE com_choice' \notin {SET_USB_CDC_COM, SET_USB_HID_MODE}
    BY <1>1, <2>1, <2>4 DEF SenderOpens
  <2> QED
    BY <2>2, <2>3, <2>4
<1>2. CASE CmdOpens
  BY <1>2 DEF CmdOpens, provisionVars
<1>3. CASE SnOpens
  BY <1>3 DEF SnOpens
<1>4. CASE Configures
  BY <1>4 DEF Configures, provisionVars, usbVars
<1>5. CASE Provisions
  <2>1. CASE Boots
    BY <1>5, <2>1, Stages DEF Boots
  <2> QED
    BY <1>5, <2>1, Stages
<1>6. CASE Power
  BY <1>6 DEF Power, PowerLost
<1>7. CASE UNCHANGED vars
  BY <1>7 DEF vars, provisionVars, usbVars
<1> QED
  BY <1>1, <1>2, <1>3, <1>4, <1>5, <1>6, <1>7 DEF Next, Overrun

(***************************************************************************)
(* While sn_down listens to the host of the factory, the USB port is the   *)
(* serial port, whatever is stored and whichever thread opened it first.   *)
(***************************************************************************)
THEOREM FactoryHostIsHeard == Spec => []ListensOverCdc
<1>1. Init => PortInv
  BY DEF Init, ProvisionInit, PortInv, ListensOverCdc
<1>2. PortInv => ListensOverCdc
  BY DEF PortInv
<1> QED
  BY <1>1, <1>2, StepPort, PTL DEF Spec
-----------------------------------------------------------------------------
(* The ciphertext.                                                         *)

IsSector(s) == s = [sn |-> s.sn, cipher |-> s.cipher]

\* the record a device is genuine by: its serial number, sealed with the fuses
Sealed(s, fuses) ==
    /\ s.sn # Absent
    /\ s.cipher = Record(efuse_aes_enc(fuses, get_text(Content(s.sn))))

\* what the sector and its copy hold at each stage of a download
DownloadInv ==
    /\ IsSector(sector) /\ IsSector(sector_buf)
    /\ down \in {"erase sn", "program sn", "program sn 2"} => sector_buf.sn # Absent
    /\ down \in {"program sn 2", "keys", "key 0", "key 1", "key 2", "encrypt"} =>
           sector.sn # Absent
    /\ down \in {"erase cipher", "program cipher", "program cipher 2"} =>
           Sealed(sector_buf, otp)
    /\ down = "program cipher 2" => sector.sn = sector_buf.sn
    /\ down \in {"compare", "reply"} => Sealed(sector, otp)

\* What is sealed decrypts.
LEMMA SealedIsGenuine ==
    ASSUME NEW s, NEW fuses, Sealed(s, fuses)
    PROVE  Genuine(s, fuses)
<1> DEFINE text == get_text(Content(s.sn))
           cipher == efuse_aes_enc(fuses, text)
<1>1. s.cipher = <<cipher>> /\ s.cipher # Absent /\ Content(s.cipher) = cipher
  BY DEF Sealed, Record, Content, Absent
<1>2. cipher.key = AesKey(fuses) /\ cipher.text = text
  BY DEF efuse_aes_enc
<1>3. s.sn # Absent /\ Decrypts(fuses, cipher, text)
  BY <1>2 DEF Sealed, Decrypts
<1> QED
  BY <1>1, <1>3 DEF Genuine

LEMMA StepDownload == DownloadInv /\ [Next]_vars => DownloadInv'
<1> SUFFICES ASSUME DownloadInv, [Next]_vars PROVE DownloadInv'
  OBVIOUS
<1>1. ASSUME UNCHANGED <<sector, sector_buf, otp>>,
             down' \in {down, "off", "idle", "open", "read", "overrun"}
      PROVE  DownloadInv'
  BY <1>1 DEF DownloadInv, IsSector, Sealed
<1>2. CASE SenderOpens \/ CmdOpens \/ Configures
  BY <1>1, <1>2 DEF SenderOpens, CmdOpens, Configures, provisionVars
<1>3. CASE SnOpens
  BY <1>1, <1>3 DEF SnOpens
<1>4. CASE Boots
  BY <1>1, <1>4 DEF Boots
<1>5. ASSUME NEW m \in Messages, HostSends(m) PROVE DownloadInv'
  BY <1>1, <1>5 DEF HostSends
<1>6. ASSUME NEW n \in 1 .. Len(wire), Reads(n) PROVE DownloadInv'
  <2>1. UNCHANGED <<sector, otp>> /\ down = "read"
    BY <1>6 DEF Reads
  <2>2. CASE UNCHANGED <<sector_buf, down>>
    BY <1>1, <2>1, <2>2
  <2>3. ASSUME NEW sn, sector_buf' = [sector EXCEPT !.sn = Record(sn)], down' = "erase sn"
        PROVE  DownloadInv'
    BY <2>1, <2>3 DEF DownloadInv, IsSector, Record, Absent
  <2>4. CASE UNCHANGED sector_buf /\ down' = "overrun"
    BY <1>1, <2>1, <2>4
  <2> QED
    BY <1>6, <2>2, <2>3, <2>4, Zenon DEF Reads
<1>7. ASSUME NEW from, NEW to, Erases(from, to),
             <<from, to>> \in {<<"erase sn", "program sn">>, <<"erase cipher", "program cipher">>}
      PROVE  DownloadInv'
  BY <1>7 DEF Erases, DownloadInv, IsSector, Sealed, Erased, Absent
<1>8. CASE ProgramsSn("program sn", "program sn 2")
  BY <1>8 DEF ProgramsSn, DownloadInv, IsSector
<1>9. CASE ProgramsSn("program cipher", "program cipher 2")
  BY <1>9 DEF ProgramsSn, DownloadInv, IsSector, Sealed
<1>10. CASE ProgramsCipher("program sn 2", "keys")
  BY <1>10 DEF ProgramsCipher, DownloadInv, IsSector
<1>11. CASE ProgramsCipher("program cipher 2", "compare")
  <2>1. /\ sector' = [sn |-> sector.sn, cipher |-> sector_buf.cipher]
        /\ UNCHANGED <<sector_buf, otp>> /\ down' = "compare"
    BY <1>11 DEF ProgramsCipher, DownloadInv, IsSector
  <2>2. Sealed(sector_buf, otp) /\ sector.sn = sector_buf.sn
    BY <1>11 DEF ProgramsCipher, DownloadInv
  <2> QED
    BY <2>1, <2>2 DEF DownloadInv, IsSector, Sealed
<1>12. CASE generate_random
  BY <1>12 DEF generate_random, DownloadInv, IsSector
<1>13. ASSUME NEW z, NEW from \in {"key 0", "key 1", "key 2"},
              NEW to \in {"key 1", "key 2", "encrypt"}, efuse_write_key(z, from, to)
       PROVE  DownloadInv'
  BY <1>13 DEF efuse_write_key, DownloadInv, IsSector
<1>14. CASE Encrypts
  <2> DEFINE cipher == efuse_aes_enc(otp, get_text(Content(sector.sn)))
  <2>1. /\ sector_buf' = [sn |-> sector.sn, cipher |-> Record(cipher)]
        /\ UNCHANGED <<sector, otp>> /\ down' = "erase cipher"
    BY <1>14 DEF Encrypts, DownloadInv, IsSector
  <2>2. sector.sn # Absent
    BY <1>14 DEF Encrypts, DownloadInv
  <2> QED
    BY <2>1, <2>2 DEF DownloadInv, IsSector, Sealed
<1>15. CASE Compares
  BY <1>15 DEF Compares, DownloadInv, IsSector, Sealed
<1>16. CASE Replies
  BY <1>1, <1>16 DEF Replies
<1>17. CASE Power
  <2>1. UNCHANGED <<sector, otp>> /\ sector_buf' = Erased /\ down' = "off"
    BY <1>17 DEF Power, PowerLost
  <2> QED
    BY <2>1 DEF DownloadInv, IsSector, Erased
<1>18. CASE UNCHANGED vars
  BY <1>1, <1>18 DEF vars, provisionVars
<1>19. CASE Flash_Base_Write
  BY <1>7, <1>8, <1>9, <1>10, <1>11, <1>19 DEF Flash_Base_Write
<1>20. CASE Provisions
  BY <1>4, <1>5, <1>6, <1>12, <1>13, <1>14, <1>15, <1>16, <1>19, <1>20 DEF Provisions
<1> QED
  BY <1>2, <1>3, <1>17, <1>18, <1>20 DEF Next, Overrun

(***************************************************************************)
(* A host that is told its serial number was taken leaves a device that    *)
(* is genuine at every later start, whatever keys earlier attempts burnt   *)
(* and wherever they lost power.                                           *)
(***************************************************************************)
THEOREM ToldIsGenuine == Spec => []GenuineWhenTold
<1>1. Init => DownloadInv
  BY DEF Init, ProvisionInit, DownloadInv, IsSector, Erased
<1>2. DownloadInv => GenuineWhenTold
  BY SealedIsGenuine DEF DownloadInv, GenuineWhenTold
<1> QED
  BY <1>1, <1>2, StepDownload, PTL DEF Spec
-----------------------------------------------------------------------------
(* The serial number, from the bytes on the wire to the flash.  Every byte *)
(* on the wire has a place in a frame, and the parser's state fits the     *)
(* place of the byte that comes next: what it has taken of the header, the *)
(* sum so far, and a buffer that has the body up to there, or has had its  *)
(* first byte cleared by a read that began behind it.  A number has no     *)
(* byte 0 and no SOH, so the parser cannot take a part of a body for a     *)
(* header, and of a cleared buffer the string is the empty one.            *)

Octet == 0 .. 255

\* what serial numbers and other bodies are written in
Character == 2 .. 255

\* the host's numbers are text, and whatever else it sends is a whole frame: of
\* another command, too long, or with a sum that does not fit
HostSendsFrames ==
    /\ Serials \subseteq Seq(Character)
    /\ \A m \in Noise : \E cmd \in Octet \ {SOH}, body \in Seq(Character), sum \in Octet :
          /\ m = Framed(cmd, body, sum)
          /\ \/ cmd # PTE_DOWNLOAD_POSSN
             \/ Len(body) > POSSN_MAX_SIZE
             \/ sum # Sum(FrameData(cmd, body))[Len(FrameData(cmd, body))]

\* a frame that may be on the wire
OnWire == {f \in [cmd : Octet \ {SOH}, body : Seq(Character), sum : Octet] :
            LET data == FrameData(f.cmd, f.body)
            IN  f.cmd = PTE_DOWNLOAD_POSSN /\ f.sum = Sum(data)[Len(data)] =>
                    Len(f.body) > POSSN_MAX_SIZE \/ f.body \in Serials \cup {<<>>}}

Size(f) == Len(f.body)

Bytes(f) == Framed(f.cmd, f.body, f.sum)

Data(f) == FrameData(f.cmd, f.body)

LEMMA NatSetInduction ==
    ASSUME NEW S, 0 \in S, \A n \in Nat : n \in S => n + 1 \in S
    PROVE  Nat \subseteq S
<1> SUFFICES ASSUME ~(Nat \subseteq S) PROVE FALSE
  OBVIOUS
<1> DEFINE R == Nat \ S
           less == {ss \in Nat \X Nat : ss[1] < ss[2]}
<1>1. R \subseteq Nat /\ R # {}
  OBVIOUS
<1>2. IsWellFoundedOn(less, Nat)
  BY NatLessThanWellFounded, Zenon DEF OpToRel
<1>3. PICK m \in R : \A y \in R : <<y, m>> \notin less
  BY <1>1, <1>2, WFMin, Zenon
<1>4. m \in Nat \ {0} /\ m - 1 \in Nat /\ m - 1 < m
  BY <1>3
<1>5. m - 1 \notin R
  BY <1>3, <1>4
<1>6. (m - 1) + 1 \in S
  BY <1>4, <1>5
<1> QED
  BY <1>3, <1>4, <1>6

\* z is x and y behind it
Joins(z, x, y, m, n) ==
    /\ z \in Seq(Nat) /\ Len(z) = m + n
    /\ \A i \in 1 .. m : z[i] = x[i]
    /\ \A i \in 1 .. n : z[m + i] = y[i]

LEMMA Joined ==
    ASSUME NEW x \in Seq(Nat), NEW y \in Seq(Nat)
    PROVE  Joins(x \o y, x, y, Len(x), Len(y))
<1>1. PICK m, n, z : m = Len(x) /\ n = Len(y) /\ z = x \o y
  OBVIOUS
<1>2. m \in Nat /\ n \in Nat
  BY <1>1, LenProperties
<1>3. /\ x \o y \in Seq(Nat) /\ Len(x \o y) = Len(x) + Len(y)
      /\ \A i \in 1 .. Len(x) + Len(y) :
            (x \o y)[i] = IF i <= Len(x) THEN x[i] ELSE y[i - Len(x)]
  BY ConcatProperties
<1>4. /\ z \in Seq(Nat) /\ Len(z) = m + n
      /\ \A i \in 1 .. m + n : z[i] = IF i <= m THEN x[i] ELSE y[i - m]
  BY <1>1, <1>3
<1>5. ASSUME NEW i \in 1 .. m PROVE z[i] = x[i]
  <2>1. i \in 1 .. m + n /\ i <= m
    BY <1>2
  <2> QED
    BY <1>4, <2>1
<1>6. ASSUME NEW i \in 1 .. n PROVE z[m + i] = y[i]
  <2>1. m + i \in 1 .. m + n /\ ~(m + i <= m) /\ (m + i) - m = i
    BY <1>2
  <2> QED
    BY <1>4, <2>1
<1>7. Joins(z, x, y, m, n)
  BY <1>4, <1>5, <1>6 DEF Joins
<1> QED
  BY <1>1, <1>7

\* The bytes of a frame, one by one.
IsFrameData(d, cmd, body, n) ==
    /\ n \in Nat /\ d \in Seq(Nat) /\ Len(d) = n + 5
    /\ d[1] = PTE_LTEXT /\ d[2] = cmd /\ d[3] = n \div 256 /\ d[4] = n % 256
    /\ \A j \in 1 .. n : d[4 + j] = body[j] /\ body[j] \in Character
    /\ d[n + 5] = ETX

LEMMA FrameDataIs ==
    ASSUME NEW cmd \in Octet, NEW body \in Seq(Character)
    PROVE  IsFrameData(FrameData(cmd, body), cmd, body, Len(body))
<1> PICK n, d : n = Len(body) /\ d = FrameData(cmd, body)
  OBVIOUS
<1>1. n \in Nat /\ cmd \in Nat /\ \A j \in 1 .. n : body[j] \in Character
  BY LenProperties, ElementOfSeq DEF Octet
<1>2. body \in Seq(Nat)
  <2>1. Character \subseteq Nat
    BY DEF Character
  <2> QED
    BY <2>1, SeqMonotonic
<1> DEFINE h == <<PTE_LTEXT, cmd, n \div 256, n % 256>>
           t == <<ETX>>
<1>3. h \in Seq(Nat) /\ Len(h) = 4 /\ h[1] = PTE_LTEXT /\ h[2] = cmd
      /\ h[3] = n \div 256 /\ h[4] = n % 256
  BY <1>1 DEF PTE_LTEXT
<1>4. t \in Seq(Nat) /\ Len(t) = 1 /\ t[1] = ETX
  BY DEF ETX
<1>5. d = (h \o body) \o t
  BY DEF FrameData
<1> HIDE DEF h, t
<1>6. PICK a : a = h \o body
  OBVIOUS
<1>7. PICK m : m = Len(a)
  OBVIOUS
<1>8. /\ a \in Seq(Nat) /\ m = 4 + n
      /\ \A i \in 1 .. 4 : a[i] = h[i]
      /\ \A i \in 1 .. n : a[4 + i] = body[i]
  <2>1. Joins(h \o body, h, body, Len(h), Len(body))
    BY <1>2, <1>3, Joined, Zenon
  <2>2. Joins(a, h, body, 4, n)
    BY <1>3, <1>6, <2>1
  <2> QED
    BY <1>7, <2>2 DEF Joins
<1>9. /\ d \in Seq(Nat) /\ Len(d) = m + Len(t)
      /\ \A i \in 1 .. m : d[i] = a[i]
      /\ \A i \in 1 .. Len(t) : d[m + i] = t[i]
  <2>1. d = a \o t
    BY <1>5, <1>6
  <2>2. Joins(a \o t, a, t, Len(a), Len(t))
    BY <1>4, <1>8, Joined, Zenon
  <2> QED
    BY <1>7, <2>1, <2>2 DEF Joins
<1>10. Len(d) = n + 5
  BY <1>1, <1>4, <1>8, <1>9
<1>11. ASSUME NEW i \in 1 .. 4 PROVE d[i] = h[i]
  <2>1. i \in 1 .. m
    BY <1>1, <1>8
  <2> QED
    BY <1>8, <1>9, <2>1
<1>12. ASSUME NEW j \in 1 .. n PROVE d[4 + j] = body[j]
  <2>1. 4 + j \in 1 .. m
    BY <1>1, <1>8
  <2> QED
    BY <1>8, <1>9, <2>1
<1>13. d[n + 5] = t[1]
  <2>1. n + 5 = m + 1 /\ 1 \in 1 .. Len(t)
    BY <1>1, <1>4, <1>8
  <2> QED
    BY <1>9, <2>1
<1>14. d[1] = h[1] /\ d[2] = h[2] /\ d[3] = h[3] /\ d[4] = h[4]
  BY <1>11
<1>15. IsFrameData(d, cmd, body, n)
  BY <1>1, <1>3, <1>4, <1>9, <1>10, <1>12, <1>13, <1>14 DEF IsFrameData
<1> QED
  BY <1>15

LEMMA DataIs ==
    ASSUME NEW f \in OnWire
    PROVE  IsFrameData(Data(f), f.cmd, f.body, Size(f))
<1>1. f.cmd \in Octet /\ f.body \in Seq(Character)
  BY DEF OnWire
<1>2. PICK c, b : c = f.cmd /\ b = f.body
  OBVIOUS
<1>3. c \in Octet /\ b \in Seq(Character)
  BY <1>1, <1>2
<1>4. IsFrameData(FrameData(c, b), c, b, Len(b))
  BY <1>3, FrameDataIs
<1>5. IsFrameData(FrameData(f.cmd, f.body), f.cmd, f.body, Len(f.body))
  BY <1>2, <1>4
<1> QED
  BY <1>5 DEF Data, Size

LEMMA BytesAre ==
    ASSUME NEW f \in OnWire, NEW n, n = Size(f)
    PROVE  /\ n \in Nat /\ Bytes(f) \in Seq(Nat) /\ Len(Bytes(f)) = n + 9
           /\ Bytes(f)[1] = SOH /\ Bytes(f)[2] = SOH /\ Bytes(f)[3] = SOH
           /\ \A i \in 4 .. n + 8 : Bytes(f)[i] = Data(f)[i - 3] /\ Data(f)[i - 3] \in Nat
           /\ Bytes(f)[n + 9] = f.sum /\ f.sum \in Nat
<1>1. PICK d : d = Data(f)
  OBVIOUS
<1>2. n \in Nat /\ d \in Seq(Nat) /\ Len(d) = n + 5
  <2>1. IsFrameData(Data(f), f.cmd, f.body, Size(f))
    BY DataIs
  <2>2. IsFrameData(d, f.cmd, f.body, n)
    BY <1>1, <2>1
  <2> QED
    BY <2>2 DEF IsFrameData
<1>3. f.sum \in Nat
  <2>1. f.sum \in Octet
    BY DEF OnWire
  <2> QED
    BY <2>1 DEF Octet
<1> DEFINE h == <<SOH, SOH, SOH>>
           t == <<f.sum>>
<1>4. h \in Seq(Nat) /\ Len(h) = 3 /\ h[1] = SOH /\ h[2] = SOH /\ h[3] = SOH
  BY DEF SOH
<1>5. t \in Seq(Nat) /\ Len(t) = 1 /\ t[1] = f.sum
  BY <1>3
<1>6. Bytes(f) = (h \o d) \o t
  BY <1>1 DEF Bytes, Framed, Data
<1> HIDE DEF h, t
<1>7. PICK a : a = h \o d
  OBVIOUS
<1>8. PICK m, l : m = Len(a) /\ l = Len(d)
  OBVIOUS
<1>9. /\ a \in Seq(Nat) /\ m = 3 + l
      /\ \A i \in 1 .. 3 : a[i] = h[i]
      /\ \A i \in 1 .. l : a[3 + i] = d[i]
  <2>1. Joins(h \o d, h, d, Len(h), Len(d))
    BY <1>2, <1>4, Joined, Zenon
  <2>2. Joins(a, h, d, 3, l)
    BY <1>4, <1>7, <1>8, <2>1
  <2> QED
    BY <1>8, <2>2 DEF Joins
<1>10. PICK b : b = a \o t
  OBVIOUS
<1>11. /\ b \in Seq(Nat) /\ Len(b) = m + Len(t)
       /\ \A i \in 1 .. m : b[i] = a[i]
       /\ \A i \in 1 .. Len(t) : b[m + i] = t[i]
  <2>1. Joins(a \o t, a, t, Len(a), Len(t))
    BY <1>5, <1>9, Joined, Zenon
  <2> QED
    BY <1>8, <1>10, <2>1 DEF Joins
<1>12. l = n + 5 /\ m = n + 8 /\ Len(b) = n + 9
  <2>1. l = n + 5
    BY <1>2, <1>8
  <2>2. m = n + 8
    BY <1>2, <1>9, <2>1
  <2> QED
    BY <1>2, <1>5, <1>11, <2>1, <2>2
<1>13. b[1] = SOH /\ b[2] = SOH /\ b[3] = SOH
  <2>1. ASSUME NEW i \in 1 .. 3 PROVE b[i] = h[i]
    <3>1. n \in Nat /\ m = n + 8
      BY <1>2, <1>12
    <3>2. i \in 1 .. m
      BY <3>1
    <3> QED
      BY <1>9, <1>11, <3>2
  <2>2. b[1] = h[1] /\ b[2] = h[2] /\ b[3] = h[3]
    BY <2>1
  <2> QED
    BY <1>4, <2>2
<1>14. b[n + 9] = f.sum
  <2>1. n + 9 = m + 1 /\ 1 \in 1 .. Len(t)
    BY <1>2, <1>5, <1>12
  <2> QED
    BY <1>5, <1>11, <2>1
<1>15. ASSUME NEW i \in 4 .. n + 8 PROVE b[i] = d[i - 3] /\ d[i - 3] \in Nat
  <2>1. i - 3 \in 1 .. Len(d) /\ i - 3 \in 1 .. l /\ 3 + (i - 3) = i /\ i \in 1 .. m
    BY <1>2, <1>8, <1>12
  <2>2. d[i - 3] \in Nat
    BY <1>2, <2>1, ElementOfSeq
  <2> QED
    BY <1>9, <1>11, <2>1, <2>2
<1> QED
  BY <1>1, <1>2, <1>3, <1>6, <1>7, <1>10, <1>11, <1>12, <1>13, <1>14, <1>15

\* A sum is the one before and the next byte.
\* s has the sum of an SOH and each of the first n bytes of d
SumsOf(s, d, n) == s[0] = SOH /\ \A i \in 1 .. n : s[i] = (s[i - 1] + d[i]) % 256

LEMMA SumIs ==
    ASSUME NEW d, NEW n \in Nat, Len(d) = n
    PROVE  SumsOf(Sum(d), d, n)
<1> DEFINE Adds(g, m) == g = [i \in 0 .. m |-> IF i = 0 THEN SOH ELSE (g[i - 1] + d[i]) % 256]
           S == {m \in Nat : \E g : Adds(g, m)}
<1>1. 0 \in S
  <2> DEFINE g == [i \in 0 .. 0 |-> SOH]
  <2>1. Adds(g, 0)
    OBVIOUS
  <2> QED
    BY <2>1
<1>2. ASSUME NEW m \in Nat, m \in S PROVE m + 1 \in S
  <2>1. PICK g : Adds(g, m)
    BY <1>2
  <2> DEFINE h == [i \in 0 .. m + 1 |-> IF i <= m THEN g[i] ELSE (g[m] + d[i]) % 256]
  <2>2. ASSUME NEW i \in 0 .. m + 1
        PROVE  h[i] = IF i = 0 THEN SOH ELSE (h[i - 1] + d[i]) % 256
    <3>1. CASE i = 0
      BY <2>1, <3>1
    <3>2. CASE i # 0 /\ i <= m
      <4>1. i \in 0 .. m /\ i - 1 \in 0 .. m
        BY <3>2
      <4>2. g[i] = (g[i - 1] + d[i]) % 256
        BY <2>1, <3>2, <4>1
      <4>3. h[i] = g[i] /\ h[i - 1] = g[i - 1]
        BY <4>1
      <4> QED
        BY <3>2, <4>2, <4>3
    <3>3. CASE i = m + 1
      <4>1. h[i] = (g[m] + d[i]) % 256 /\ h[i - 1] = g[m]
        BY <3>3
      <4> QED
        BY <3>3, <4>1
    <3> QED
      BY <3>1, <3>2, <3>3
  <2>3. Adds(h, m + 1)
    BY <2>2
  <2>4. \E x : Adds(x, m + 1)
    <3> HIDE DEF h, Adds
    <3> QED
      BY <2>3
  <2> QED
    BY <2>4
<1> HIDE DEF S
<1>3. \E g : Adds(g, n)
  <2>1. n \in S
    BY <1>1, <1>2, NatSetInduction
  <2> QED
    BY <2>1 DEF S
<1>4. Sum(d) = CHOOSE g : Adds(g, n)
  BY DEF Sum
<1>5. PICK g : g = Sum(d)
  OBVIOUS
<1>6. Adds(g, n)
  <2> HIDE DEF Adds
  <2> QED
    BY <1>3, <1>4, <1>5, Zenon
<1>7. ASSUME NEW i \in 0 .. n
      PROVE  g[i] = IF i = 0 THEN SOH ELSE (g[i - 1] + d[i]) % 256
  <2> DEFINE h == [j \in 0 .. n |-> IF j = 0 THEN SOH ELSE (g[j - 1] + d[j]) % 256]
  <2>1. h[i] = IF i = 0 THEN SOH ELSE (g[i - 1] + d[i]) % 256
    OBVIOUS
  <2>2. g = h
    BY <1>6
  <2> HIDE DEF h
  <2> QED
    BY <2>1, <2>2
<1>8. g[0] = SOH /\ \A i \in 1 .. n : g[i] = (g[i - 1] + d[i]) % 256
  BY <1>7
<1> QED
  BY <1>5, <1>8 DEF SumsOf

LEMMA SumOctet ==
    ASSUME NEW a \in Octet, NEW b \in Nat
    PROVE  (a + b) % 256 \in Octet
  BY DEF Octet

\* Sums are bytes.
LEMMA SumIn ==
    ASSUME NEW d \in Seq(Nat), NEW n \in Nat, Len(d) = n
    PROVE  \A i \in 0 .. n : Sum(d)[i] \in Octet
<1>1. PICK g : g = Sum(d)
  OBVIOUS
<1>2. g[0] = SOH /\ \A i \in 1 .. n : g[i] = (g[i - 1] + d[i]) % 256
  <2>1. SumsOf(g, d, n)
    BY <1>1, SumIs
  <2> QED
    BY <2>1 DEF SumsOf
<1> DEFINE S == {i \in Nat : i <= n => g[i] \in Octet}
<1>3. 0 \in S
  BY <1>2 DEF SOH, Octet
<1>4. ASSUME NEW i \in Nat, i \in S PROVE i + 1 \in S
  <2>1. CASE i + 1 <= n
    <3>1. g[i] \in Octet /\ d[i + 1] \in Nat /\ g[i + 1] = (g[i] + d[i + 1]) % 256
      BY <1>2, <1>4, <2>1, ElementOfSeq
    <3>2. g[i + 1] \in Octet
      BY <3>1, SumOctet
    <3> QED
      BY <3>2
  <2>2. CASE ~(i + 1 <= n)
    BY <2>2
  <2> QED
    BY <2>1, <2>2
<1> HIDE DEF S
<1>5. Nat \subseteq S
  BY <1>3, <1>4, NatSetInduction
<1> QED
  BY <1>1, <1>5 DEF S

\* byte i of a frame with n bytes of body, and the sums around it
IsOctet(f, n, i, d) ==
    /\ n \in Nat /\ d \in Nat
    /\ i \in 1 .. 3 => d = SOH
    /\ i = 4 => d = PTE_LTEXT /\ Sum(Data(f))[1] = SOH + d
    /\ i = 5 => d = f.cmd /\ d # SOH
    /\ i = 6 => d = n \div 256
    /\ i = 7 => d = n % 256
    /\ i \in 8 .. n + 7 => d = f.body[i - 7] /\ d \in Character
    /\ i = n + 8 => d = ETX
    /\ i = n + 9 => d = f.sum
    /\ i \in 5 .. n + 8 => Sum(Data(f))[i - 3] = (Sum(Data(f))[i - 4] + d) % 256

LEMMA OctetIs ==
    ASSUME NEW f \in OnWire, NEW n, n = Size(f), NEW i \in 1 .. n + 9,
           NEW d, d = Bytes(f)[i]
    PROVE  IsOctet(f, n, i, d)
<1>1. PICK e : e = Data(f)
  OBVIOUS
<1>2. PICK b : b = Bytes(f)
  OBVIOUS
<1>3. /\ n \in Nat /\ Len(e) = n + 5 /\ e[1] = PTE_LTEXT /\ e[2] = f.cmd
      /\ e[3] = n \div 256 /\ e[4] = n % 256 /\ e[n + 5] = ETX
      /\ \A j \in 1 .. n : e[4 + j] = f.body[j] /\ f.body[j] \in Character
  <2>1. IsFrameData(Data(f), f.cmd, f.body, Size(f))
    BY DataIs
  <2>2. IsFrameData(e, f.cmd, f.body, n)
    BY <1>1, <2>1
  <2> QED
    BY <2>2 DEF IsFrameData
<1>4. /\ b[1] = SOH /\ b[2] = SOH /\ b[3] = SOH /\ b[n + 9] = f.sum /\ f.sum \in Nat
      /\ \A j \in 4 .. n + 8 : b[j] = e[j - 3] /\ e[j - 3] \in Nat
  BY <1>1, <1>2, BytesAre
<1>nat. n \in Nat
  BY <1>3
<1>5. PICK s : s = Sum(e)
  OBVIOUS
<1>6. s[0] = SOH /\ \A j \in 1 .. n + 5 : s[j] = (s[j - 1] + e[j]) % 256
  <2>1. PICK k : k = n + 5
    OBVIOUS
  <2>2. k \in Nat /\ Len(e) = k
    BY <1>3, <2>1
  <2>3. SumsOf(s, e, k)
    BY <1>5, <2>2, SumIs
  <2> QED
    BY <2>1, <2>3 DEF SumsOf
<1>7. f.cmd \in Octet /\ f.cmd # SOH
  BY DEF OnWire
<1>8. d = b[i]
  BY <1>2
<1>9. d \in Nat
  <2>1. CASE i \in 4 .. n + 8
    BY <1>4, <1>8, <2>1
  <2>2. CASE i \notin 4 .. n + 8
    <3>1. i = 1 \/ i = 2 \/ i = 3 \/ i = n + 9
      BY <1>nat, <2>2
    <3> QED
      BY <1>4, <1>8, <3>1 DEF SOH
  <2> QED
    BY <2>1, <2>2
<1>10. i \in 1 .. 3 => d = SOH
  <2> SUFFICES ASSUME i \in 1 .. 3 PROVE d = SOH
    OBVIOUS
  <2>1. i = 1 \/ i = 2 \/ i = 3
    OBVIOUS
  <2> QED
    BY <1>4, <1>8, <2>1
<1>11. i = 4 => d = PTE_LTEXT /\ s[1] = SOH + d
  <2> SUFFICES ASSUME i = 4 PROVE d = PTE_LTEXT /\ s[1] = SOH + d
    OBVIOUS
  <2>1. 4 \in 4 .. n + 8 /\ 4 - 3 = 1 /\ 1 \in 1 .. n + 5 /\ 1 - 1 = 0
    BY <1>nat
  <2>2. b[4] = e[1]
    BY <1>4, <2>1
  <2>3. s[1] = (s[0] + e[1]) % 256
    BY <1>6, <2>1
  <2>4. d = PTE_LTEXT /\ e[1] = PTE_LTEXT /\ s[0] = SOH
    BY <1>3, <1>6, <1>8, <2>2
  <2>5. s[1] = (SOH + PTE_LTEXT) % 256
    BY <2>3, <2>4
  <2> QED
    BY <2>4, <2>5 DEF PTE_LTEXT, SOH
<1>12. /\ i = 5 => d = f.cmd
       /\ i = 6 => d = n \div 256
       /\ i = 7 => d = n % 256
  <2>1. ASSUME NEW j \in {2, 3, 4}, i = j + 3 PROVE d = e[j]
    <3>1. i \in 4 .. n + 8 /\ i - 3 = j
      BY <1>nat, <2>1
    <3> QED
      BY <1>4, <1>8, <3>1
  <2>2. i = 5 => d = e[2]
    BY <2>1
  <2>3. i = 6 => d = e[3]
    BY <2>1
  <2>4. i = 7 => d = e[4]
    BY <2>1
  <2> QED
    BY <1>3, <2>2, <2>3, <2>4
<1>13. i \in 8 .. n + 7 => d = f.body[i - 7] /\ d \in Character
  <2> SUFFICES ASSUME i \in 8 .. n + 7 PROVE d = f.body[i - 7] /\ d \in Character
    OBVIOUS
  <2>1. i - 7 \in 1 .. n /\ i \in 4 .. n + 8 /\ 4 + (i - 7) = i - 3
    BY <1>nat
  <2>2. d = e[i - 3]
    BY <1>4, <1>8, <2>1
  <2>3. PICK j : j = i - 7
    OBVIOUS
  <2>4. e[4 + j] = f.body[j] /\ f.body[j] \in Character
    BY <1>3, <2>1, <2>3
  <2> QED
    BY <2>1, <2>2, <2>3, <2>4
<1>14. (i = n + 8 => d = ETX) /\ (i = n + 9 => d = f.sum)
  <2>1. n + 8 \in 4 .. n + 8 /\ (n + 8) - 3 = n + 5
    BY <1>nat
  <2>2. b[n + 8] = e[n + 5]
    BY <1>4, <2>1
  <2>3. b[n + 8] = ETX /\ b[n + 9] = f.sum
    BY <1>3, <1>4, <2>2
  <2> QED
    BY <1>8, <2>3
<1>15. i \in 5 .. n + 8 => s[i - 3] = (s[i - 4] + d) % 256
  <2> SUFFICES ASSUME i \in 5 .. n + 8 PROVE s[i - 3] = (s[i - 4] + d) % 256
    OBVIOUS
  <2>1. i - 3 \in 1 .. n + 5 /\ (i - 3) - 1 = i - 4 /\ i \in 4 .. n + 8
    BY <1>nat
  <2>2. d = e[i - 3]
    BY <1>4, <1>8, <2>1
  <2> QED
    BY <1>6, <2>1, <2>2
<1> QED
  BY <1>1, <1>3, <1>5, <1>7, <1>9, <1>10, <1>11, <1>12, <1>13, <1>14, <1>15 DEF IsOctet
-----------------------------------------------------------------------------
(* Where the parser is, when byte i of frame f comes next.                 *)

Steps == {0, 1} \cup 7 .. 12

Parsers == [Step : Steps, SohCnt : Nat, Bcc : Nat, Cnt : Nat,
            Valid : BOOLEAN, cmd : Nat, len : Nat, buf : [Body -> Nat]]

\* as many of the last bytes may have been SOH
MostSohs(i) == IF i = 1 \/ i = 7 THEN 1 ELSE IF i \in {2, 3, 4, 8} THEN 2 ELSE 0

\* the buffer has the first c bytes of the body, or the first was cleared
SoFar(p, f, c) == c >= 1 => p.buf[1] = 0 \/ \A j \in 1 .. c : p.buf[j] = f.body[j]

PlaceOf(p, n, i) ==
    /\ p.Step = 0 => p.SohCnt <= MostSohs(i)
    /\ p.Step # 0 => p.SohCnt = 0
    /\ p.Step = 1 => i \in {3, 4}
    /\ p.Step = 7 => i = 5
    /\ p.Step = 8 => i = 6
    /\ p.Step = 9 => i = 7 /\ p.len = (n \div 256) * 256
    /\ p.Step = 10 => i = 8 + p.Cnt /\ p.Cnt < n
    /\ p.Step = 11 => i = 8 + n
    /\ p.Step = 12 => i = 9 + n
    /\ p.Step \in {10, 11, 12} => p.len = n /\ n <= FRAME_O1_DATA_MAX

ParserAt(p, f, i) ==
    /\ p \in Parsers
    /\ PlaceOf(p, Size(f), i)
    /\ p.Step \in 7 .. 12 => p.Bcc = Sum(Data(f))[i - 4]
    /\ p.Step \in 8 .. 12 => p.cmd = f.cmd
    /\ p.Step = 10 => SoFar(p, f, p.Cnt)
    /\ p.Step \in {11, 12} => SoFar(p, f, Size(f))

\* the text of a valid frame is a serial number of the host
TextOK(p) ==
    p.cmd = PTE_DOWNLOAD_POSSN /\ Len(Text01(p)) <= POSSN_MAX_SIZE =>
        Text01(p) \in Serials \cup {<<>>}

\* what is known at the end of a frame
EndOK(p) ==
    /\ p \in Parsers /\ p.Step = 0 /\ p.SohCnt <= 1
    /\ p.Valid => p.SohCnt = 0 /\ TextOK(p)

LEMMA LeastOf ==
    ASSUME NEW S \in SUBSET Nat, S # {}
    PROVE  \E m \in S : \A x \in S : m <= x
<1> DEFINE less == {ss \in Nat \X Nat : ss[1] < ss[2]}
<1>1. IsWellFoundedOn(less, Nat)
  BY NatLessThanWellFounded, Zenon DEF OpToRel
<1>2. PICK m \in S : \A y \in S : <<y, m>> \notin less
  BY <1>1, WFMin, Zenon
<1>3. ASSUME NEW x \in S PROVE m <= x
  <2>1. <<x, m>> \notin less /\ x \in Nat /\ m \in Nat
    BY <1>2
  <2> QED
    BY <2>1
<1> QED
  BY <1>3

LEMMA NoEntry ==
    ASSUME NEW g \in [1 .. 0 -> Nat]
    PROVE  g = <<>>
<1>1. g \in Seq(Nat) /\ Len(g) = 0
  OBVIOUS
<1> QED
  BY <1>1, EmptySeq

\* The string in the buffer.
LEMMA TextIs ==
    ASSUME NEW p \in Parsers, NEW f \in OnWire, NEW n, n = Size(f), p.len = n,
           n <= FRAME_O1_DATA_MAX, SoFar(p, f, n)
    PROVE  Text01(p) \in {f.body, <<>>}
<1>1. f.body \in Seq(Character)
  BY DEF OnWire
<1>2. n \in Nat /\ \A j \in 1 .. n : f.body[j] \in Character
  BY DataIs DEF IsFrameData
<1> DEFINE ends == {i \in Body : p.buf[i] = 0}
           least == CHOOSE i \in ends : \A j \in ends : i <= j
           strlen == IF ends = {} THEN FRAME_O1_DATA_MAX ELSE least - 1
           w_len == IF strlen > p.len THEN p.len ELSE strlen
<1>3. Text01(p) = [i \in 1 .. w_len |-> p.buf[i]]
  BY DEF Text01
<1>4. ends \subseteq 1 .. FRAME_O1_DATA_MAX /\ ends \subseteq Nat
  BY DEF Body
<1>5. ends # {} => least \in ends /\ \A j \in ends : least <= j
  <2> SUFFICES ASSUME ends # {} PROVE least \in ends /\ \A j \in ends : least <= j
    OBVIOUS
  <2>1. \E m \in ends : \A x \in ends : m <= x
    <3> HIDE DEF ends
    <3> QED
      BY <1>4, LeastOf
  <2> HIDE DEF ends
  <2> QED
    BY <2>1
<1>6. strlen \in 0 .. FRAME_O1_DATA_MAX
  <2> HIDE DEF ends, least
  <2>1. CASE ends = {}
    BY <2>1, ProvisionAssumption
  <2>2. CASE ends # {}
    <3>1. least \in 1 .. FRAME_O1_DATA_MAX
      BY <1>4, <1>5, <2>2
    <3>2. strlen = least - 1
      BY <2>2
    <3> HIDE DEF strlen
    <3> QED
      BY <3>1, <3>2, ProvisionAssumption
  <2> QED
    BY <2>1, <2>2
<1>7. CASE w_len = 0
  <2>1. Text01(p) = [i \in 1 .. 0 |-> p.buf[i]]
    BY <1>3, <1>7
  <2>2. [i \in 1 .. 0 |-> p.buf[i]] \in [1 .. 0 -> Nat]
    OBVIOUS
  <2>3. Text01(p) = <<>>
    BY <2>1, <2>2, NoEntry
  <2> QED
    BY <2>3
<1>8. CASE n = 0
  <2>1. w_len = 0
    <3> HIDE DEF strlen
    <3> QED
      BY <1>6, <1>8
  <2> QED
    BY <1>7, <2>1
<1>9. CASE n >= 1 /\ p.buf[1] = 0
  <2>1. 1 \in ends
    BY <1>2, <1>9, ProvisionAssumption DEF Body
  <2>2. least = 1
    <3> HIDE DEF ends, least
    <3>1. least \in ends /\ least <= 1
      BY <1>5, <2>1
    <3>2. least \in Nat \ {0}
      BY <1>4, <3>1
    <3> QED
      BY <3>1, <3>2
  <2>3. strlen = 0
    <3> HIDE DEF ends, least
    <3> QED
      BY <2>1, <2>2
  <2>4. w_len = 0
    <3> HIDE DEF strlen
    <3> QED
      BY <1>2, <2>3
  <2> QED
    BY <1>7, <2>4
<1>10. CASE n >= 1 /\ p.buf[1] # 0
  <2>1. \A j \in 1 .. n : p.buf[j] = f.body[j]
    BY <1>10 DEF SoFar
  <2>2. \A j \in ends : j > n
    <3> SUFFICES ASSUME NEW j \in ends, ~(j > n) PROVE FALSE
      OBVIOUS
    <3>1. j \in 1 .. n /\ p.buf[j] = 0
      BY <1>2, <1>4
    <3> QED
      <4>1. f.body[j] = 0 /\ f.body[j] \in Character
        BY <1>2, <2>1, <3>1
      <4>2. 0 \notin Character
        BY DEF Character
      <4> QED
        BY <4>1, <4>2
  <2>3. strlen >= n
    <3> HIDE DEF ends, least
    <3>1. CASE ends = {}
      BY <1>2, <3>1, ProvisionAssumption
    <3>2. CASE ends # {}
      <4>1. least \in Nat /\ least > n
        BY <1>4, <1>5, <2>2, <3>2
      <4>2. strlen = least - 1
        BY <3>2
      <4> HIDE DEF strlen
      <4> QED
        BY <1>2, <4>1, <4>2
    <3> QED
      BY <3>1, <3>2
  <2>4. w_len = n
    <3> HIDE DEF strlen
    <3> QED
      BY <1>2, <1>6, <2>3
  <2>5. Text01(p) = [i \in 1 .. n |-> f.body[i]]
    <3> HIDE DEF w_len
    <3> QED
      BY <1>3, <2>1, <2>4
  <2>6. f.body = [i \in 1 .. n |-> f.body[i]]
    BY <1>1, LenProperties DEF Size
  <2> QED
    BY <2>5, <2>6
<1> QED
  BY <1>2, <1>8, <1>9, <1>10

Parser(step, soh, bcc, cnt, valid, cmd, len, buf) ==
    [Step |-> step, SohCnt |-> soh, Bcc |-> bcc, Cnt |-> cnt,
     Valid |-> valid, cmd |-> cmd, len |-> len, buf |-> buf]

\* q is p with other values in its fields
Becomes(q, p, step, soh, bcc, cnt, cmd, len, buf) ==
    /\ q \in Parsers /\ q.Valid = p.Valid /\ q.Step = step /\ q.SohCnt = soh /\ q.Bcc = bcc
    /\ q.Cnt = cnt /\ q.cmd = cmd /\ q.len = len /\ q.buf = buf

LEMMA ParserIs ==
    ASSUME NEW p \in Parsers
    PROVE  /\ p.SohCnt \in Nat /\ p.Bcc \in Nat /\ p.Cnt \in Nat /\ p.Valid \in BOOLEAN
           /\ p.cmd \in Nat /\ p.len \in Nat /\ p.buf \in [Body -> Nat] /\ p.Step \in Steps
  BY DEF Parsers

LEMMA ParserBecomes ==
    ASSUME NEW p \in Parsers, NEW a \in Steps, NEW b \in Nat, NEW c \in Nat, NEW e \in Nat,
           NEW g \in Nat, NEW h \in Nat, NEW u \in [Body -> Nat],
           NEW q, q = Parser(a, b, c, e, p.Valid, g, h, u)
    PROVE  Becomes(q, p, a, b, c, e, g, h, u)
<1>1. p.Valid \in BOOLEAN
  BY ParserIs
<1>2. q \in Parsers
  BY <1>1 DEF Parser, Parsers
<1> QED
  BY <1>2 DEF Parser, Becomes

\* what the bytes of a frame set
CmdSet(p, c, a, g) == [p EXCEPT !.Bcc = c, !.Step = a, !.cmd = g]
LenSet(p, c, a, h) == [p EXCEPT !.Bcc = c, !.Step = a, !.len = h]
LenCntSet(p, c, h, e, a) == [p EXCEPT !.Bcc = c, !.len = h, !.Cnt = e, !.Step = a]
BufSet(p, c, u, e, a) == [p EXCEPT !.Bcc = c, !.buf = u, !.Cnt = e, !.Step = a]
CntSet(p, c, a, e) == [p EXCEPT !.Bcc = c, !.Step = a, !.Cnt = e]

LEMMA SetsCmd ==
    ASSUME NEW p \in Parsers, NEW a \in Steps, NEW c \in Nat, NEW g \in Nat
    PROVE  Becomes(CmdSet(p, c, a, g), p, a, p.SohCnt, c, p.Cnt, g, p.len, p.buf)
<1>1. PICK q : q = CmdSet(p, c, a, g)
  OBVIOUS
<1>2. q = [p EXCEPT !.Bcc = c, !.Step = a, !.cmd = g]
  BY <1>1 DEF CmdSet
<1>3. q = Parser(a, p.SohCnt, c, p.Cnt, p.Valid, g, p.len, p.buf)
  BY <1>2 DEF Parsers, Parser
<1> QED
  BY <1>1, <1>3, ParserIs, ParserBecomes

LEMMA SetsLen ==
    ASSUME NEW p \in Parsers, NEW a \in Steps, NEW c \in Nat, NEW h \in Nat
    PROVE  Becomes(LenSet(p, c, a, h), p, a, p.SohCnt, c, p.Cnt, p.cmd, h, p.buf)
<1>1. PICK q : q = LenSet(p, c, a, h)
  OBVIOUS
<1>2. q = [p EXCEPT !.Bcc = c, !.Step = a, !.len = h]
  BY <1>1 DEF LenSet
<1>3. q = Parser(a, p.SohCnt, c, p.Cnt, p.Valid, p.cmd, h, p.buf)
  BY <1>2 DEF Parsers, Parser
<1> QED
  BY <1>1, <1>3, ParserIs, ParserBecomes

LEMMA SetsLenCnt ==
    ASSUME NEW p \in Parsers, NEW a \in Steps, NEW c \in Nat, NEW e \in Nat, NEW h \in Nat
    PROVE  Becomes(LenCntSet(p, c, h, e, a), p, a, p.SohCnt, c, e, p.cmd, h, p.buf)
<1>1. PICK q : q = LenCntSet(p, c, h, e, a)
  OBVIOUS
<1>2. q = [p EXCEPT !.Bcc = c, !.len = h, !.Cnt = e, !.Step = a]
  BY <1>1 DEF LenCntSet
<1>3. q = Parser(a, p.SohCnt, c, e, p.Valid, p.cmd, h, p.buf)
  BY <1>2 DEF Parsers, Parser
<1> QED
  BY <1>1, <1>3, ParserIs, ParserBecomes

LEMMA SetsBuf ==
    ASSUME NEW p \in Parsers, NEW a \in Steps, NEW c \in Nat, NEW e \in Nat, NEW u \in [Body -> Nat]
    PROVE  Becomes(BufSet(p, c, u, e, a), p, a, p.SohCnt, c, e, p.cmd, p.len, u)
<1>1. PICK q : q = BufSet(p, c, u, e, a)
  OBVIOUS
<1>2. q = [p EXCEPT !.Bcc = c, !.buf = u, !.Cnt = e, !.Step = a]
  BY <1>1 DEF BufSet
<1>3. q = Parser(a, p.SohCnt, c, e, p.Valid, p.cmd, p.len, u)
  BY <1>2 DEF Parsers, Parser
<1> QED
  BY <1>1, <1>3, ParserIs, ParserBecomes

LEMMA SetsCnt ==
    ASSUME NEW p \in Parsers, NEW a \in Steps, NEW c \in Nat, NEW e \in Nat
    PROVE  Becomes(CntSet(p, c, a, e), p, a, p.SohCnt, c, e, p.cmd, p.len, p.buf)
<1>1. PICK q : q = CntSet(p, c, a, e)
  OBVIOUS
<1>2. q = [p EXCEPT !.Bcc = c, !.Step = a, !.Cnt = e]
  BY <1>1 DEF CntSet
<1>3. q = Parser(a, p.SohCnt, c, e, p.Valid, p.cmd, p.len, p.buf)
  BY <1>2 DEF Parsers, Parser
<1> QED
  BY <1>1, <1>3, ParserIs, ParserBecomes

\* The fields of the parser after a byte, step by step.
LEMMA TakesSoh ==
    ASSUME NEW p \in Parsers, NEW d \in Nat, p.Step \in {0, 1}, NEW q, q = Takes(p, d)
    PROVE  /\ q \in Parsers /\ q.Valid = p.Valid
           /\ p.Step = 0 /\ d # SOH => q.Step = 0 /\ q.SohCnt = 0
           /\ p.Step = 0 /\ d = SOH /\ p.SohCnt < 2 => q.Step = 0 /\ q.SohCnt = p.SohCnt + 1
           /\ p.Step = 0 /\ d = SOH /\ p.SohCnt >= 2 => q.Step = 1 /\ q.SohCnt = 0
           /\ p.Step = 1 /\ d = SOH => q = p
           /\ p.Step = 1 /\ d = PTE_LTEXT =>
                  q.Step = 7 /\ q.Bcc = SOH + d /\ q.SohCnt = p.SohCnt
<1>0. p.SohCnt \in Nat
  BY DEF Parsers
<1>1. CASE p.Step = 0
  <2>1. q = IF d # SOH THEN [p EXCEPT !.SohCnt = 0]
            ELSE IF p.SohCnt + 1 < 3 THEN [p EXCEPT !.SohCnt = p.SohCnt + 1]
            ELSE [p EXCEPT !.SohCnt = 0, !.Step = 1]
    BY <1>1 DEF Takes
  <2>2. CASE d # SOH
    <3>1. q = [p EXCEPT !.SohCnt = 0]
      BY <2>1, <2>2
    <3>2. q \in Parsers /\ q.Valid = p.Valid /\ q.Step = p.Step /\ q.SohCnt = 0
      BY <3>1 DEF Parsers
    <3> QED
      BY <1>1, <2>2, <3>2
  <2>3. CASE d = SOH /\ p.SohCnt < 2
    <3>1. PICK n : n = p.SohCnt + 1
      OBVIOUS
    <3>2. q = [p EXCEPT !.SohCnt = n] /\ n \in Nat
      BY <1>0, <2>1, <2>3, <3>1
    <3>3. q \in Parsers /\ q.Valid = p.Valid /\ q.Step = p.Step /\ q.SohCnt = n
      BY <3>2 DEF Parsers
    <3> QED
      BY <1>0, <1>1, <2>3, <3>1, <3>3
  <2>4. CASE d = SOH /\ p.SohCnt >= 2
    <3>1. q = [p EXCEPT !.SohCnt = 0, !.Step = 1]
      BY <1>0, <2>1, <2>4
    <3>2. Becomes(q, p, 1, 0, p.Bcc, p.Cnt, p.cmd, p.len, p.buf)
      <4>1. 1 \in Steps
        BY DEF Steps
      <4>2. q = Parser(1, 0, p.Bcc, p.Cnt, p.Valid, p.cmd, p.len, p.buf)
        BY <3>1 DEF Parsers, Parser
      <4> QED
        BY <4>1, <4>2, ParserIs, ParserBecomes
    <3>3. q \in Parsers /\ q.Valid = p.Valid /\ q.Step = 1 /\ q.SohCnt = 0
      BY <3>2 DEF Becomes
    <3> QED
      BY <1>0, <1>1, <2>4, <3>3
  <2> QED
    BY <1>0, <2>2, <2>3, <2>4
<1>2. CASE p.Step = 1
  <2>1. q = IF d = PTE_LTEXT THEN [p EXCEPT !.Bcc = SOH + d, !.Step = 7]
            ELSE IF d = SOH THEN p
            ELSE [p EXCEPT !.Step = 0]
    BY <1>2 DEF Takes
  <2>2. PTE_LTEXT # SOH /\ SOH \in Nat
    BY DEF SOH, PTE_LTEXT
  <2>3. CASE d = PTE_LTEXT
    <3>1. PICK n : n = SOH + d
      OBVIOUS
    <3>2. q = [p EXCEPT !.Bcc = n, !.Step = 7] /\ n \in Nat
      BY <2>1, <2>2, <2>3, <3>1
    <3>3. q \in Parsers /\ q.Valid = p.Valid /\ q.Step = 7 /\ q.Bcc = n /\ q.SohCnt = p.SohCnt
      <4>1. 7 \in Steps
        BY DEF Steps
      <4> QED
        BY <3>2, <4>1 DEF Parsers
    <3> QED
      BY <1>2, <2>2, <2>3, <3>1, <3>3
  <2>4. CASE d = SOH
    BY <1>2, <2>1, <2>2, <2>4
  <2>5. CASE d # SOH /\ d # PTE_LTEXT
    <3>1. q = [p EXCEPT !.Step = 0]
      BY <2>1, <2>5
    <3>2. q \in Parsers /\ q.Valid = p.Valid
      <4>1. 0 \in Steps
        BY DEF Steps
      <4> QED
        BY <3>1, <4>1 DEF Parsers
    <3> QED
      BY <1>2, <2>5, <3>2
  <2> QED
    BY <2>3, <2>4, <2>5
<1> QED
  BY <1>1, <1>2

LEMMA TakesHead ==
    ASSUME NEW p \in Parsers, NEW d \in Nat, p.Step \in {7, 8, 9}, NEW q, q = Takes(p, d),
           NEW b, b = (p.Bcc + d) % 256
    PROVE  /\ p.Step = 7 => Becomes(q, p, 8, p.SohCnt, b, p.Cnt, d, p.len, p.buf)
           /\ p.Step = 8 => Becomes(q, p, 9, p.SohCnt, b, p.Cnt, p.cmd, d * 256, p.buf)
           /\ p.Step = 9 =>
                  Becomes(q, p, IF p.len + d > FRAME_O1_DATA_MAX THEN 0
                                ELSE IF p.len + d = 0 THEN 11 ELSE 10,
                          p.SohCnt, b, 0, p.cmd, p.len + d, p.buf)
<1>1. b \in Nat
  <2>1. p.Bcc \in Nat
    BY DEF Parsers
  <2> QED
    BY <2>1
<1>2. CASE p.Step = 7
  <2>1. q = [p EXCEPT !.Bcc = b, !.Step = 8, !.cmd = d]
    BY <1>2 DEF Takes, Parsers
  <2>2. 8 \in Steps
    BY DEF Steps
  <2>3. Becomes(q, p, 8, p.SohCnt, b, p.Cnt, d, p.len, p.buf)
    <3>1. q = CmdSet(p, b, 8, d)
      BY <2>1 DEF CmdSet
    <3> QED
      BY <1>1, <2>2, <3>1, ParserIs, SetsCmd
  <2> QED
    BY <1>2, <2>3
<1>3. CASE p.Step = 8
  <2>1. PICK n : n = d * 256
    OBVIOUS
  <2>2. q = [p EXCEPT !.Bcc = b, !.Step = 9, !.len = n]
    BY <1>3, <2>1 DEF Takes, Parsers
  <2>3. n \in Nat /\ 9 \in Steps
    BY <2>1 DEF Steps
  <2>4. Becomes(q, p, 9, p.SohCnt, b, p.Cnt, p.cmd, n, p.buf)
    <3>1. q = LenSet(p, b, 9, n)
      BY <2>2 DEF LenSet
    <3> QED
      BY <1>1, <2>3, <3>1, ParserIs, SetsLen
  <2> QED
    BY <1>3, <2>1, <2>4
<1>4. CASE p.Step = 9
  <2>1. PICK n : n = p.len + d
    OBVIOUS
  <2>2. PICK a : a = IF n > FRAME_O1_DATA_MAX THEN 0 ELSE IF n = 0 THEN 11 ELSE 10
    OBVIOUS
  <2>3. q = [p EXCEPT !.Bcc = b, !.len = n, !.Cnt = 0, !.Step = a]
    BY <1>4, <2>1, <2>2 DEF Takes, Parsers
  <2>4. p.len \in Nat
    BY DEF Parsers
  <2>5. n \in Nat /\ a \in Steps
    BY <2>1, <2>2, <2>4 DEF Steps
  <2>6. Becomes(q, p, a, p.SohCnt, b, 0, p.cmd, n, p.buf)
    <3>1. q = LenCntSet(p, b, n, 0, a)
      BY <2>3 DEF LenCntSet
    <3> QED
      BY <1>1, <2>5, <3>1, ParserIs, SetsLenCnt
  <2> QED
    BY <1>4, <2>1, <2>2, <2>6
<1> QED
  BY <1>2, <1>3, <1>4

LEMMA TakesBody ==
    ASSUME NEW p \in Parsers, NEW d \in Nat, p.Step = 10, p.Cnt + 1 \in Body,
           NEW q, q = Takes(p, d), NEW b, b = (p.Bcc + d) % 256
    PROVE  \E u : /\ Becomes(q, p, IF p.Cnt + 1 = p.len THEN 11 ELSE 10, p.SohCnt, b, p.Cnt + 1,
                             p.cmd, p.len, u)
                  /\ u[p.Cnt + 1] = d
                  /\ \A j \in Body : j # p.Cnt + 1 => u[j] = p.buf[j]
<1>1. p.Bcc \in Nat /\ p.Cnt \in Nat /\ p.buf \in [Body -> Nat]
  BY DEF Parsers
<1>2. b \in Nat
  BY <1>1
<1>3. PICK n : n = p.Cnt + 1
  OBVIOUS
<1>4. PICK u : u = [p.buf EXCEPT ![n] = d]
  OBVIOUS
<1>5. /\ u \in [Body -> Nat] /\ u[n] = d
      /\ \A j \in Body : j # n => u[j] = p.buf[j]
  BY <1>1, <1>3, <1>4
<1>6. PICK a : a = IF n = p.len THEN 11 ELSE 10
  OBVIOUS
<1>7. q = [p EXCEPT !.Bcc = b, !.buf = u, !.Cnt = n, !.Step = a]
  BY <1>3, <1>4, <1>6 DEF Takes, Parsers
<1>8. n \in Nat /\ a \in Steps
  BY <1>1, <1>3, <1>6 DEF Steps
<1>9. Becomes(q, p, a, p.SohCnt, b, n, p.cmd, p.len, u)
  <2>1. q = BufSet(p, b, u, n, a)
    BY <1>7 DEF BufSet
  <2> QED
    BY <1>2, <1>5, <1>8, <2>1, ParserIs, SetsBuf
<1> QED
  BY <1>3, <1>5, <1>6, <1>9

LEMMA TakesEnd ==
    ASSUME NEW p \in Parsers, NEW d \in Nat, NEW q, q = Takes(p, d),
           NEW b, b = (p.Bcc + d) % 256
    PROVE  /\ p.Step = 11 /\ d = ETX =>
                  Becomes(q, p, 12, p.SohCnt, b, p.Cnt + d, p.cmd, p.len, p.buf)
           /\ p.Step = 12 =>
                  /\ q \in Parsers /\ q.SohCnt = p.SohCnt /\ q.cmd = p.cmd
                  /\ q.len = p.len /\ q.buf = p.buf /\ q.Step = 0
                  /\ q.Valid = (p.Bcc = d)
<1>1. p.Bcc \in Nat /\ p.Cnt \in Nat
  BY DEF Parsers
<1>2. CASE p.Step = 11 /\ d = ETX
  <2>1. PICK n : n = p.Cnt + d
    OBVIOUS
  <2>2. q = [p EXCEPT !.Bcc = b, !.Step = 12, !.Cnt = n]
    BY <1>2, <2>1 DEF Takes, Parsers
  <2>3. n \in Nat /\ b \in Nat /\ 12 \in Steps
    BY <1>1, <2>1 DEF Steps
  <2>4. Becomes(q, p, 12, p.SohCnt, b, n, p.cmd, p.len, p.buf)
    <3>1. q = CntSet(p, b, 12, n)
      BY <2>2 DEF CntSet
    <3> QED
      BY <2>3, <3>1, ParserIs, SetsCnt
  <2> QED
    BY <1>2, <2>1, <2>4
<1>3. CASE p.Step = 12
  <2>1. PICK v \in BOOLEAN : v = (p.Bcc = d)
    OBVIOUS
  <2>2. q = [p EXCEPT !.Step = 0, !.Valid = v]
    BY <1>3, <2>1 DEF Takes, Sums
  <2>3. /\ q \in Parsers /\ q.SohCnt = p.SohCnt /\ q.cmd = p.cmd
        /\ q.len = p.len /\ q.buf = p.buf /\ q.Step = 0 /\ q.Valid = v
    <3>1. 0 \in Steps
      BY DEF Steps
    <3> QED
      BY <2>2, <3>1 DEF Parsers
  <2> QED
    BY <1>3, <2>1, <2>3
<1> QED
  BY <1>2, <1>3

\* A byte takes the parser to the next place in the frame.
LEMMA OctetTaken ==
    ASSUME NEW f \in OnWire, NEW i \in 1 .. Size(f) + 9, NEW p, ParserAt(p, f, i),
           ~p.Valid, NEW q, q = Takes(p, Bytes(f)[i])
    PROVE  IF i < Size(f) + 9 THEN ParserAt(q, f, i + 1) /\ ~q.Valid ELSE EndOK(q)
<1>1. PICK n : n = Size(f)
  OBVIOUS
<1>2. PICK d : d = Bytes(f)[i]
  OBVIOUS
<1>3. PICK s : s = Sum(Data(f))
  OBVIOUS
<1>4. IsOctet(f, n, i, d)
  BY <1>1, <1>2, OctetIs
<1>5. n \in Nat /\ d \in Nat /\ p \in Parsers /\ q = Takes(p, d) /\ i \in 1 .. n + 9
  BY <1>1, <1>2, <1>4 DEF IsOctet, ParserAt
<1>6. PlaceOf(p, n, i)
  BY <1>1 DEF ParserAt
<1>7. p.Step \in {0, 1} \cup 7 .. 12 /\ p.Cnt \in Nat /\ p.SohCnt \in Nat
  BY <1>5 DEF Parsers, Steps
<1>8. CASE p.Step = 0
  <2>1. d = SOH => i \notin {4, 5, 8} /\ ~(i \in 8 .. n + 8)
    BY <1>4, <1>5 DEF IsOctet, SOH, ETX, PTE_LTEXT, Character
  <2>2. q \in Parsers /\ ~q.Valid
    BY <1>5, <1>8, TakesSoh
  <2>3. i \in 1 .. 3 => d = SOH
    BY <1>4 DEF IsOctet
  <2>4. p.SohCnt <= MostSohs(i)
    BY <1>6, <1>8 DEF PlaceOf
  <2>5. CASE d # SOH
    <3>1. q.Step = 0 /\ q.SohCnt = 0
      BY <1>5, <1>8, <2>5, TakesSoh
    <3> QED
      BY <1>1, <1>5, <2>2, <3>1 DEF ParserAt, PlaceOf, EndOK, MostSohs
  <2>6. CASE d = SOH /\ p.SohCnt < 2
    <3>1. q.Step = 0 /\ q.SohCnt = p.SohCnt + 1
      BY <1>5, <1>8, <2>6, TakesSoh
    <3>2. i \in {1, 2, 3, 6, 7, n + 9}
      BY <1>5, <2>1, <2>6
    <3>3. i < n + 9 => q.SohCnt <= MostSohs(i + 1)
      BY <1>5, <1>7, <2>4, <2>6, <3>1, <3>2 DEF MostSohs
    <3>4. i = n + 9 => q.SohCnt <= 1
      BY <1>5, <1>7, <2>4, <2>6, <3>1 DEF MostSohs
    <3> QED
      BY <1>1, <1>5, <2>2, <3>1, <3>3, <3>4 DEF ParserAt, PlaceOf, EndOK
  <2>7. CASE d = SOH /\ p.SohCnt >= 2
    <3>1. q.Step = 1 /\ q.SohCnt = 0
      BY <1>5, <1>8, <2>7, TakesSoh
    <3>2. i = 2 \/ i = 3
      BY <1>5, <1>7, <2>1, <2>4, <2>7 DEF MostSohs
    <3> QED
      BY <1>1, <1>5, <2>2, <3>1, <3>2 DEF ParserAt, PlaceOf
  <2> QED
    BY <1>7, <2>5, <2>6, <2>7
<1>9. CASE p.Step = 1
  <2>1. i = 3 \/ i = 4
    BY <1>6, <1>9 DEF PlaceOf
  <2>2. CASE i = 3
    <3>1. q = p
      BY <1>4, <1>5, <1>9, <2>2, TakesSoh DEF IsOctet
    <3> QED
      BY <1>1, <1>5, <1>6, <1>9, <2>2, <3>1 DEF ParserAt, PlaceOf
  <2>3. CASE i = 4
    <3>1. d = PTE_LTEXT /\ s[1] = SOH + d
      BY <1>3, <1>4, <2>3 DEF IsOctet
    <3>2. /\ q \in Parsers /\ q.Valid = p.Valid
          /\ q.Step = 7 /\ q.Bcc = SOH + d /\ q.SohCnt = p.SohCnt
      BY <1>5, <1>9, <3>1, TakesSoh
    <3>3. p.SohCnt = 0
      BY <1>6, <1>9 DEF PlaceOf
    <3> QED
      BY <1>1, <1>3, <1>5, <2>3, <3>1, <3>2, <3>3 DEF ParserAt, PlaceOf
  <2> QED
    BY <2>1, <2>2, <2>3
<1>10. CASE p.Step \in {7, 8, 9}
  <2>1. i \in 5 .. 7 /\ i = p.Step - 2 /\ p.SohCnt = 0
    BY <1>6, <1>10 DEF PlaceOf
  <2>2. p.Bcc = s[i - 4]
    BY <1>3, <1>10 DEF ParserAt
  <2>3. s[i - 3] = (p.Bcc + d) % 256
    BY <1>3, <1>4, <1>5, <2>1, <2>2 DEF IsOctet
  <2>4. /\ q \in Parsers /\ ~q.Valid /\ q.SohCnt = 0 /\ q.Bcc = s[(i + 1) - 4]
    <3>1. /\ q \in Parsers /\ q.Valid = p.Valid /\ q.SohCnt = p.SohCnt
          /\ q.Bcc = (p.Bcc + d) % 256
      BY <1>5, <1>10, TakesHead DEF Becomes
    <3>2. (i + 1) - 4 = i - 3
      BY <2>1
    <3> QED
      BY <2>1, <2>3, <3>1, <3>2
  <2>5. i < n + 9
    BY <1>5, <2>1
  <2>6. CASE p.Step = 7
    <3>1. i = 5 /\ d = f.cmd /\ q.Step = 8 /\ q.cmd = d
      BY <1>4, <1>5, <2>1, <2>6, TakesHead DEF IsOctet, Becomes
    <3> QED
      BY <1>1, <1>3, <1>5, <2>4, <2>5, <3>1 DEF ParserAt, PlaceOf
  <2>7. CASE p.Step = 8
    <3>1. i = 6 /\ d = n \div 256
      BY <1>4, <2>1, <2>7 DEF IsOctet
    <3>2. q.Step = 9 /\ q.cmd = p.cmd /\ q.len = d * 256
      BY <1>5, <2>7, TakesHead DEF Becomes
    <3>3. p.cmd = f.cmd
      BY <2>7 DEF ParserAt
    <3> QED
      BY <1>1, <1>3, <1>5, <2>4, <2>5, <3>1, <3>2, <3>3 DEF ParserAt, PlaceOf
  <2>8. CASE p.Step = 9
    <3>1. i = 7 /\ d = n % 256 /\ p.len = (n \div 256) * 256
      BY <1>4, <1>6, <2>1, <2>8 DEF IsOctet, PlaceOf
    <3>2. p.len + d = n
      BY <1>5, <3>1
    <3>3. /\ q.cmd = p.cmd /\ q.len = n /\ q.Cnt = 0
          /\ q.Step = IF n > FRAME_O1_DATA_MAX THEN 0 ELSE IF n = 0 THEN 11 ELSE 10
      BY <1>5, <2>8, <3>2, TakesHead DEF Becomes
    <3>4. p.cmd = f.cmd
      BY <2>8 DEF ParserAt
    <3>5. SoFar(q, f, 0)
      BY DEF SoFar
    <3>6. n <= FRAME_O1_DATA_MAX \/ n > FRAME_O1_DATA_MAX
      BY <1>5, ProvisionAssumption
    <3>7. CASE n > FRAME_O1_DATA_MAX
      <4>1. q.Step = 0 /\ i + 1 = 8
        BY <3>1, <3>3, <3>7
      <4> QED
        BY <1>1, <1>5, <2>4, <2>5, <4>1 DEF ParserAt, PlaceOf, MostSohs
    <3>8. CASE n <= FRAME_O1_DATA_MAX /\ n = 0
      <4>1. q.Step = 11 /\ i + 1 = 8
        BY <3>1, <3>3, <3>8, ProvisionAssumption
      <4> QED
        BY <1>1, <1>3, <1>5, <2>4, <2>5, <3>3, <3>4, <3>5, <3>8, <4>1 DEF ParserAt, PlaceOf
    <3>9. CASE n <= FRAME_O1_DATA_MAX /\ n # 0
      <4>1. q.Step = 10 /\ i + 1 = 8
        BY <1>5, <3>1, <3>3, <3>9, ProvisionAssumption
      <4> QED
        BY <1>1, <1>3, <1>5, <2>4, <2>5, <3>3, <3>4, <3>5, <3>9, <4>1 DEF ParserAt, PlaceOf
    <3> QED
      BY <3>6, <3>7, <3>8, <3>9
  <2> QED
    BY <1>10, <2>6, <2>7, <2>8
<1>11. CASE p.Step = 10
  <2>1. /\ i = 8 + p.Cnt /\ p.Cnt < n /\ p.SohCnt = 0 /\ p.len = n /\ n <= FRAME_O1_DATA_MAX
    BY <1>6, <1>11 DEF PlaceOf
  <2>2. p.Bcc = s[i - 4] /\ p.cmd = f.cmd /\ SoFar(p, f, p.Cnt)
    BY <1>3, <1>11 DEF ParserAt
  <2>3. PICK c : c = p.Cnt
    OBVIOUS
  <2>4. c \in Nat /\ c + 1 \in Body /\ i \in 8 .. n + 7 /\ i - 7 = c + 1 /\ i < n + 9
    BY <1>5, <1>7, <2>1, <2>3, ProvisionAssumption DEF Body
  <2>5. d = f.body[c + 1] /\ s[i - 3] = (p.Bcc + d) % 256
    BY <1>3, <1>4, <1>5, <2>2, <2>4 DEF IsOctet
  <2>6. /\ q \in Parsers /\ q.Valid = p.Valid /\ q.SohCnt = p.SohCnt
        /\ q.Bcc = (p.Bcc + d) % 256 /\ q.cmd = p.cmd /\ q.len = p.len
        /\ q.Cnt = c + 1
        /\ q.Step = IF c + 1 = p.len THEN 11 ELSE 10
        /\ q.buf[c + 1] = d
        /\ \A j \in Body : j # c + 1 => q.buf[j] = p.buf[j]
    BY <1>5, <1>11, <2>3, <2>4, TakesBody DEF Becomes
  <2>7. SoFar(q, f, c + 1)
    <3>1. CASE c = 0
      BY <2>5, <2>6, <3>1 DEF SoFar
    <3>2. CASE c # 0 /\ p.buf[1] = 0
      <4>1. 1 \in Body /\ 1 # c + 1
        BY <2>4, <3>2, ProvisionAssumption DEF Body
      <4> QED
        BY <2>6, <3>2, <4>1 DEF SoFar
    <3>3. CASE c # 0 /\ p.buf[1] # 0
      <4>1. \A j \in 1 .. c : p.buf[j] = f.body[j]
        BY <2>2, <2>3, <2>4, <3>3 DEF SoFar
      <4>2. \A j \in 1 .. c + 1 : q.buf[j] = f.body[j]
        <5> SUFFICES ASSUME NEW j \in 1 .. c + 1 PROVE q.buf[j] = f.body[j]
          OBVIOUS
        <5>1. CASE j = c + 1
          BY <2>5, <2>6, <5>1
        <5>2. CASE j # c + 1
          <6>1. j \in 1 .. c /\ j \in Body
            BY <2>4, <5>2, ProvisionAssumption DEF Body
          <6> QED
            BY <2>6, <4>1, <5>2, <6>1
        <5> QED
          BY <5>1, <5>2
      <4> QED
        BY <4>2 DEF SoFar
    <3> QED
      BY <3>1, <3>2, <3>3
  <2>8. q.Bcc = s[(i + 1) - 4]
    <3>1. (i + 1) - 4 = i - 3
      BY <2>4
    <3> QED
      BY <2>5, <2>6, <3>1
  <2>9. CASE c + 1 = n
    <3>1. q.Step = 11 /\ i + 1 = 8 + n /\ SoFar(q, f, n)
      BY <2>1, <2>4, <2>6, <2>7, <2>9
    <3> QED
      BY <1>1, <1>3, <1>5, <2>1, <2>2, <2>4, <2>6, <2>8, <3>1 DEF ParserAt, PlaceOf
  <2>10. CASE c + 1 # n
    <3>1. q.Step = 10 /\ i + 1 = 8 + q.Cnt /\ q.Cnt < n /\ SoFar(q, f, q.Cnt)
      BY <1>5, <2>1, <2>3, <2>4, <2>6, <2>7, <2>10
    <3> QED
      BY <1>1, <1>3, <1>5, <2>1, <2>2, <2>4, <2>6, <2>8, <3>1 DEF ParserAt, PlaceOf
  <2> QED
    BY <2>9, <2>10
<1>12. CASE p.Step = 11
  <2>1. i = 8 + n /\ p.SohCnt = 0 /\ p.len = n /\ n <= FRAME_O1_DATA_MAX
    BY <1>6, <1>12 DEF PlaceOf
  <2>2. p.Bcc = s[i - 4] /\ p.cmd = f.cmd /\ SoFar(p, f, n)
    BY <1>1, <1>3, <1>12 DEF ParserAt
  <2>3. d = ETX /\ s[i - 3] = (p.Bcc + d) % 256
    BY <1>3, <1>4, <1>5, <2>1, <2>2 DEF IsOctet
  <2>4. /\ q \in Parsers /\ q.Valid = p.Valid /\ q.SohCnt = p.SohCnt
        /\ q.Bcc = (p.Bcc + d) % 256 /\ q.cmd = p.cmd /\ q.len = p.len
        /\ q.buf = p.buf /\ q.Step = 12
    BY <1>5, <1>12, <2>3, TakesEnd DEF Becomes
  <2>5. SoFar(q, f, n)
    BY <2>2, <2>4 DEF SoFar
  <2>6. q.Bcc = s[(i + 1) - 4] /\ i + 1 = 9 + n /\ i < n + 9
    <3>1. (i + 1) - 4 = i - 3
      BY <1>5
    <3> QED
      BY <1>5, <2>1, <2>3, <2>4, <3>1
  <2> QED
    BY <1>1, <1>3, <1>5, <2>1, <2>2, <2>4, <2>5, <2>6 DEF ParserAt, PlaceOf
<1>13. CASE p.Step = 12
  <2>1. i = 9 + n /\ p.SohCnt = 0 /\ p.len = n /\ n <= FRAME_O1_DATA_MAX
    BY <1>6, <1>13 DEF PlaceOf
  <2>2. p.Bcc = s[i - 4] /\ p.cmd = f.cmd /\ SoFar(p, f, n)
    BY <1>1, <1>3, <1>13 DEF ParserAt
  <2>3. d = f.sum
    BY <1>4, <1>5, <2>1 DEF IsOctet
  <2>4. /\ q \in Parsers /\ q.SohCnt = p.SohCnt /\ q.cmd = p.cmd
        /\ q.len = p.len /\ q.buf = p.buf /\ q.Step = 0
        /\ q.Valid = (p.Bcc = d)
    BY <1>5, <1>13, TakesEnd
  <2>5. ASSUME q.Valid PROVE TextOK(q)
    <3>1. f.sum = s[n + 5]
      <4>1. i - 4 = n + 5
        BY <1>5, <2>1
      <4> QED
        BY <2>2, <2>3, <2>4, <2>5, <4>1
    <3>2. Len(Data(f)) = n + 5
      BY <1>1, DataIs DEF IsFrameData
    <3>3. f.cmd = PTE_DOWNLOAD_POSSN =>
              Size(f) > POSSN_MAX_SIZE \/ f.body \in Serials \cup {<<>>}
      BY <1>3, <3>1, <3>2 DEF OnWire, Data, Size
    <3>4. SoFar(q, f, n)
      BY <2>2, <2>4 DEF SoFar
    <3>5. Text01(q) \in {f.body, <<>>}
      BY <1>1, <2>1, <2>4, <3>4, TextIs
    <3> QED
      BY <1>1, <1>5, <2>2, <2>4, <3>3, <3>5, ProvisionAssumption DEF TextOK, Size
  <2>6. EndOK(q)
    BY <2>1, <2>4, <2>5 DEF EndOK
  <2> QED
    BY <1>1, <1>5, <2>1, <2>6
<1> QED
  BY <1>7, <1>8, <1>9, <1>10, <1>11, <1>12, <1>13
-----------------------------------------------------------------------------
(* A read, and the wire.                                                   *)

\* what is known of the parser within a read: after a valid frame it waits
ReadAt(p, f, i) ==
    /\ ParserAt(p, f, i)
    /\ p.Valid => p.Step = 0 /\ p.SohCnt = 0 /\ TextOK(p)

\* a byte of a frame, and the one behind it on the wire
Place == {x \in [f : OnWire, i : Nat \ {0}] : x.i <= Size(x.f) + 9}

Follows(x, y) ==
    IF x.i < Size(x.f) + 9 THEN y.f = x.f /\ y.i = x.i + 1 ELSE y.i = 1

\* s says of every byte on the wire, and of the next one sent, where it belongs
Places(w, s) ==
    /\ s \in [1 .. Len(w) + 1 -> Place]
    /\ \A j \in 1 .. Len(w) : w[j] = Bytes(s[j].f)[s[j].i] /\ Follows(s[j], s[j + 1])
    /\ s[Len(w) + 1].i = 1

LEMMA PlaceIs ==
    ASSUME NEW x \in Place
    PROVE  /\ x.f \in OnWire /\ Size(x.f) \in Nat /\ x.i \in 1 .. Size(x.f) + 9
<1>1. x.f \in OnWire /\ x.i \in Nat \ {0} /\ x.i <= Size(x.f) + 9
  BY DEF Place
<1>2. Size(x.f) \in Nat
  BY <1>1, DataIs DEF IsFrameData
<1> QED
  BY <1>1, <1>2

LEMMA WaitsAnywhere ==
    ASSUME NEW p \in Parsers, p.Step = 0, p.SohCnt = 0, NEW f, NEW i
    PROVE  ParserAt(p, f, i)
  BY DEF ParserAt, PlaceOf, MostSohs

LEMMA EndIsStart ==
    ASSUME NEW p, EndOK(p), NEW f
    PROVE  ReadAt(p, f, 1)
  BY DEF ReadAt, EndOK, ParserAt, PlaceOf, MostSohs

LEMMA ReadsOne ==
    ASSUME NEW x \in Place, NEW y \in Place, Follows(x, y), NEW p, ReadAt(p, x.f, x.i),
           NEW q, q = IF p.Valid THEN p ELSE Takes(p, Bytes(x.f)[x.i])
    PROVE  ReadAt(q, y.f, y.i)
<1>1. x.f \in OnWire /\ Size(x.f) \in Nat /\ x.i \in 1 .. Size(x.f) + 9
  BY PlaceIs
<1>2. CASE p.Valid
  <2>1. p \in Parsers /\ p.Step = 0 /\ p.SohCnt = 0 /\ q = p
    BY <1>2 DEF ReadAt, ParserAt
  <2> QED
    BY <1>2, <2>1, WaitsAnywhere DEF ReadAt
<1>3. CASE ~p.Valid
  <2>1. q = Takes(p, Bytes(x.f)[x.i]) /\ ParserAt(p, x.f, x.i)
    BY <1>3 DEF ReadAt
  <2>2. IF x.i < Size(x.f) + 9 THEN ParserAt(q, x.f, x.i + 1) /\ ~q.Valid ELSE EndOK(q)
    BY <1>1, <1>3, <2>1, OctetTaken
  <2>3. CASE x.i < Size(x.f) + 9
    BY <2>2, <2>3 DEF Follows, ReadAt
  <2>4. CASE ~(x.i < Size(x.f) + 9)
    <3>1. y.i = 1 /\ EndOK(q)
      BY <2>2, <2>4 DEF Follows
    <3> QED
      BY <3>1, EndIsStart
  <2> QED
    BY <2>3, <2>4
<1> QED
  BY <1>2, <1>3

\* The buffer is cleared in the middle of a frame.
LEMMA ClearedAt ==
    ASSUME NEW f \in OnWire, NEW i, NEW p, ParserAt(p, f, i), NEW q, q = [p EXCEPT !.buf = Zeros]
    PROVE  ParserAt(q, f, i) /\ q.Valid = p.Valid
<1>1. p \in Parsers
  BY DEF ParserAt
<1>2. Zeros \in [Body -> Nat] /\ (1 \in Body => Zeros[1] = 0)
  BY DEF Zeros
<1> DEFINE z == Zeros
<1> HIDE DEF z
<1>3. /\ q \in Parsers /\ q.Step = p.Step /\ q.SohCnt = p.SohCnt /\ q.Bcc = p.Bcc
      /\ q.Cnt = p.Cnt /\ q.Valid = p.Valid /\ q.cmd = p.cmd /\ q.len = p.len
      /\ q.buf = Zeros
  BY <1>1, <1>2 DEF Parsers
<1>4. PlaceOf(q, Size(f), i)
  BY <1>3 DEF ParserAt, PlaceOf
<1>5. ASSUME NEW c, c \in 1 .. FRAME_O1_DATA_MAX \/ ~(c >= 1)
      PROVE  SoFar(q, f, c)
  <2>1. CASE c \in 1 .. FRAME_O1_DATA_MAX
    <3>1. 1 \in Body
      BY <2>1, ProvisionAssumption DEF Body
    <3> QED
      BY <1>2, <1>3, <3>1 DEF SoFar
  <2> QED
    BY <1>5, <2>1 DEF SoFar
<1>6. Size(f) \in Nat /\ p.Cnt \in Nat
  BY <1>1, DataIs DEF Parsers, IsFrameData
<1>7. q.Step = 10 => SoFar(q, f, q.Cnt)
  <2> SUFFICES ASSUME q.Step = 10 PROVE SoFar(q, f, q.Cnt)
    OBVIOUS
  <2>1. q.Cnt < Size(f) /\ Size(f) <= FRAME_O1_DATA_MAX
    BY <1>4 DEF PlaceOf
  <2>2. q.Cnt \in 1 .. FRAME_O1_DATA_MAX \/ ~(q.Cnt >= 1)
    BY <1>3, <1>6, <2>1, ProvisionAssumption
  <2> QED
    BY <1>5, <2>2
<1>8. q.Step \in {11, 12} => SoFar(q, f, Size(f))
  <2> SUFFICES ASSUME q.Step \in {11, 12} PROVE SoFar(q, f, Size(f))
    OBVIOUS
  <2>1. Size(f) <= FRAME_O1_DATA_MAX
    BY <1>4 DEF PlaceOf
  <2>2. Size(f) \in 1 .. FRAME_O1_DATA_MAX \/ ~(Size(f) >= 1)
    BY <1>6, <2>1, ProvisionAssumption
  <2> QED
    BY <1>5, <2>2
<1> QED
  BY <1>3, <1>4, <1>7, <1>8 DEF ParserAt

\* A read takes the bytes one after the other.
AfterEach(g, p, src) ==
    /\ g[0] = [p EXCEPT !.buf = Zeros]
    /\ \A i \in 1 .. Len(src) :
          g[i] = IF g[i - 1].Valid THEN g[i - 1] ELSE Takes(g[i - 1], src[i])

LEMMA ParseIs ==
    ASSUME NEW p, NEW src, Len(src) \in Nat
    PROVE  \E g : AfterEach(g, p, src) /\ frame_01_parse(p, src) = g[Len(src)]
<1> DEFINE first == [p EXCEPT !.buf = Zeros]
           Then(b, i) == IF b.Valid THEN b ELSE Takes(b, src[i])
           Reading(g, m) == g = [i \in 0 .. m |-> IF i = 0 THEN first ELSE Then(g[i - 1], i)]
           S == {m \in Nat : \E g : Reading(g, m)}
<1>1. 0 \in S
  <2> DEFINE g == [i \in 0 .. 0 |-> first]
  <2>1. Reading(g, 0)
    <3> HIDE DEF first, Then
    <3> QED
      OBVIOUS
  <2>2. \E x : Reading(x, 0)
    <3> HIDE DEF g, Reading
    <3> QED
      BY <2>1
  <2> QED
    BY <2>2
<1>2. ASSUME NEW m \in Nat, m \in S PROVE m + 1 \in S
  <2>1. PICK g : Reading(g, m)
    BY <1>2
  <2> DEFINE h == [i \in 0 .. m + 1 |-> IF i <= m THEN g[i] ELSE Then(g[m], i)]
  <2>2. ASSUME NEW i \in 0 .. m + 1
        PROVE  h[i] = IF i = 0 THEN first ELSE Then(h[i - 1], i)
    <3> HIDE DEF first, Then
    <3>1. CASE i = 0
      BY <2>1, <3>1
    <3>2. CASE i # 0 /\ i <= m
      <4>1. i \in 0 .. m /\ i - 1 \in 0 .. m
        BY <3>2
      <4>2. g[i] = Then(g[i - 1], i)
        BY <2>1, <3>2, <4>1
      <4>3. h[i] = g[i] /\ h[i - 1] = g[i - 1]
        BY <4>1
      <4> QED
        BY <3>2, <4>2, <4>3
    <3>3. CASE i = m + 1
      <4>1. h[i] = Then(g[m], i) /\ h[i - 1] = g[m]
        BY <3>3
      <4> QED
        BY <3>3, <4>1
    <3> QED
      BY <3>1, <3>2, <3>3
  <2>3. Reading(h, m + 1)
    <3> HIDE DEF first, Then
    <3> QED
      BY <2>2
  <2>4. \E x : Reading(x, m + 1)
    <3> HIDE DEF h, Reading
    <3> QED
      BY <2>3
  <2> QED
    BY <2>4
<1> HIDE DEF S
<1>3. \E g : Reading(g, Len(src))
  <2>1. Len(src) \in S
    BY <1>1, <1>2, NatSetInduction
  <2> QED
    BY <2>1 DEF S
<1>4. frame_01_parse(p, src) = (CHOOSE g : Reading(g, Len(src)))[Len(src)]
  BY DEF frame_01_parse
<1>5. PICK g : g = (CHOOSE x : Reading(x, Len(src)))
  OBVIOUS
<1>6. Reading(g, Len(src))
  <2> HIDE DEF Reading
  <2> QED
    BY <1>3, <1>5, Zenon
<1>7. ASSUME NEW i \in 0 .. Len(src)
      PROVE  g[i] = IF i = 0 THEN first ELSE Then(g[i - 1], i)
  <2> DEFINE h == [j \in 0 .. Len(src) |-> IF j = 0 THEN first ELSE Then(g[j - 1], j)]
  <2>1. h[i] = IF i = 0 THEN first ELSE Then(g[i - 1], i)
    <3> HIDE DEF first, Then
    <3> QED
      OBVIOUS
  <2>2. g = h
    BY <1>6
  <2> HIDE DEF h, first, Then
  <2> QED
    BY <2>1, <2>2
<1>8. AfterEach(g, p, src)
  <2>1. g[0] = first
    <3> HIDE DEF first, Then
    <3> QED
      BY <1>7
  <2>2. ASSUME NEW i \in 1 .. Len(src) PROVE g[i] = Then(g[i - 1], i)
    <3> HIDE DEF first, Then
    <3> QED
      BY <1>7
  <2> QED
    BY <2>1, <2>2 DEF AfterEach
<1>9. frame_01_parse(p, src) = g[Len(src)]
  BY <1>4, <1>5
<1> QED
  BY <1>8, <1>9

LEMMA ParseOK ==
    ASSUME NEW w \in Seq(Nat), NEW s, Places(w, s), NEW n \in 1 .. Len(w),
           NEW p, ParserAt(p, s[1].f, s[1].i), ~p.Valid,
           NEW r, r = frame_01_parse(p, SubSeq(w, 1, n))
    PROVE  ReadAt(r, s[n + 1].f, s[n + 1].i)
<1>1. Len(w) \in Nat
  BY LenProperties
<1>2. PICK src : src = SubSeq(w, 1, n)
  OBVIOUS
<1>3. Len(src) = n /\ \A i \in 1 .. n : src[i] = w[i]
  BY <1>1, <1>2, SubSeqProperties
<1>4. PICK g : AfterEach(g, p, src) /\ r = g[n]
  <2>1. \E g : AfterEach(g, p, src) /\ frame_01_parse(p, src) = g[Len(src)]
    BY <1>1, <1>3, ParseIs
  <2> QED
    BY <1>2, <1>3, <2>1
<1> DEFINE S == {i \in Nat : i <= n => ReadAt(g[i], s[i + 1].f, s[i + 1].i)}
<1>5. 0 \in S
  <2>1. s[1] \in Place
    BY <1>1 DEF Places
  <2>2. g[0] = [p EXCEPT !.buf = Zeros]
    BY <1>4 DEF AfterEach
  <2>3. ParserAt(g[0], s[1].f, s[1].i) /\ g[0].Valid = p.Valid
    BY <2>1, <2>2, PlaceIs, ClearedAt
  <2> QED
    BY <2>3 DEF ReadAt
<1>6. ASSUME NEW i \in Nat, i \in S PROVE i + 1 \in S
  <2> SUFFICES ASSUME i + 1 <= n PROVE ReadAt(g[i + 1], s[(i + 1) + 1].f, s[(i + 1) + 1].i)
    OBVIOUS
  <2>1. i + 1 \in 1 .. Len(w) /\ i + 1 \in 1 .. n /\ (i + 1) - 1 = i
    BY <1>1
  <2>2. PICK x, y : x = s[i + 1] /\ y = s[(i + 1) + 1]
    OBVIOUS
  <2>3. x \in Place /\ y \in Place /\ w[i + 1] = Bytes(x.f)[x.i] /\ Follows(x, y)
    <3>1. i + 1 \in 1 .. Len(w) + 1 /\ (i + 1) + 1 \in 1 .. Len(w) + 1
      BY <1>1, <2>1
    <3>2. s \in [1 .. Len(w) + 1 -> Place]
      BY DEF Places
    <3>3. s[i + 1] \in Place /\ s[(i + 1) + 1] \in Place
      BY <3>1, <3>2
    <3>4. w[i + 1] = Bytes(s[i + 1].f)[s[i + 1].i] /\ Follows(s[i + 1], s[(i + 1) + 1])
      BY <2>1 DEF Places
    <3> QED
      BY <2>2, <3>3, <3>4
  <2>4. ReadAt(g[i], x.f, x.i)
    BY <1>6, <2>2
  <2>5. g[i + 1] = IF g[i].Valid THEN g[i] ELSE Takes(g[i], Bytes(x.f)[x.i])
    BY <1>3, <1>4, <2>1, <2>3 DEF AfterEach
  <2> QED
    BY <2>2, <2>3, <2>4, <2>5, ReadsOne
<1> HIDE DEF S
<1>7. Nat \subseteq S
  BY <1>5, <1>6, NatSetInduction
<1>8. n \in S
  BY <1>7
<1> QED
  BY <1>4, <1>8 DEF S

\* The host adds a frame, a read takes bytes away.
LEMMA PlacesAfterSend ==
    ASSUME NEW w \in Seq(Nat), NEW s, Places(w, s), NEW f \in OnWire, NEW p,
           ParserAt(p, s[1].f, s[1].i), NEW v, v = w \o Bytes(f)
    PROVE  /\ v \in Seq(Nat)
           /\ \E t : Places(v, t) /\ ParserAt(p, t[1].f, t[1].i)
<1>1. PICK b : b = Bytes(f)
  OBVIOUS
<1>2. PICK m : m = Size(f) + 9
  OBVIOUS
<1>3. PICK l : l = Len(w)
  OBVIOUS
<1>4. b \in Seq(Nat) /\ Len(b) = m /\ Size(f) \in Nat /\ m \in Nat /\ m >= 9 /\ l \in Nat
  BY <1>1, <1>2, <1>3, BytesAre, LenProperties
<1>5. /\ v \in Seq(Nat) /\ Len(v) = l + m
      /\ \A j \in 1 .. l : v[j] = w[j]
      /\ \A j \in 1 .. m : v[l + j] = b[j]
  <2>1. Joins(w \o b, w, b, Len(w), Len(b))
    BY <1>4, Joined, Zenon
  <2>2. Joins(v, w, b, l, m)
    BY <1>1, <1>3, <1>4, <2>1
  <2> QED
    BY <2>2 DEF Joins
<1> DEFINE At1(i) == [f |-> f, i |-> i]
           t == [j \in 1 .. (l + m) + 1 |->
                     IF j <= l THEN s[j] ELSE IF j <= l + m THEN At1(j - l) ELSE At1(1)]
<1>6. ASSUME NEW i \in 1 .. m PROVE At1(i) \in Place
  BY <1>2, <1>4 DEF Place
<1>7. \A j \in 1 .. l : s[j] \in Place
  BY <1>3, <1>4 DEF Places
<1>8. t \in [1 .. Len(v) + 1 -> Place]
  <2> SUFFICES ASSUME NEW j \in 1 .. (l + m) + 1 PROVE t[j] \in Place
    BY <1>5
  <2>1. CASE j <= l
    <3>1. t[j] = s[j] /\ j \in 1 .. l
      BY <1>4, <2>1
    <3> QED
      BY <1>7, <3>1
  <2>2. CASE ~(j <= l) /\ j <= l + m
    <3>1. t[j] = At1(j - l) /\ j - l \in 1 .. m
      BY <1>4, <2>2
    <3> HIDE DEF t, At1
    <3> QED
      BY <1>6, <3>1
  <2>3. CASE ~(j <= l + m)
    <3>1. t[j] = At1(1) /\ 1 \in 1 .. m
      BY <1>4, <2>3
    <3> HIDE DEF t, At1
    <3> QED
      BY <1>6, <3>1
  <2> QED
    BY <2>1, <2>2, <2>3
<1>9. t[Len(v) + 1].i = 1
  <2>1. t[(l + m) + 1] = At1(1)
    BY <1>4
  <2> HIDE DEF t
  <2> QED
    BY <1>5, <2>1
<1>10. ASSUME NEW j \in 1 .. l
       PROVE  v[j] = Bytes(t[j].f)[t[j].i] /\ Follows(t[j], t[j + 1])
  <2>1. v[j] = w[j] /\ t[j] = s[j]
    BY <1>4, <1>5
  <2>2. w[j] = Bytes(s[j].f)[s[j].i] /\ Follows(s[j], s[j + 1])
    BY <1>3 DEF Places
  <2>3. CASE j < l
    <3>1. t[j + 1] = s[j + 1]
      BY <1>4, <2>3
    <3> HIDE DEF t
    <3> QED
      BY <2>1, <2>2, <3>1
  <2>4. CASE j = l
    <3>1. t[j + 1] = At1(1)
      BY <1>4, <2>4
    <3>2. s[j + 1].i = 1
      BY <1>3, <2>4 DEF Places
    <3>3. s[j] \in Place
      BY <1>7
    <3>4. s[j].i # 0 /\ s[j].i \in Nat
      BY <3>3 DEF Place
    <3>5. ~(s[j].i < Size(s[j].f) + 9)
      BY <2>2, <3>2, <3>4 DEF Follows
    <3>6. t[j + 1].i = 1
      BY <3>1
    <3> HIDE DEF t
    <3>7. Follows(t[j], t[j + 1])
      BY <2>1, <3>5, <3>6 DEF Follows
    <3> QED
      BY <2>1, <2>2, <3>7
  <2>5. j < l \/ j = l
    BY <1>4
  <2> HIDE DEF t
  <2> QED
    BY <2>3, <2>4, <2>5
<1>11. ASSUME NEW j \in l + 1 .. l + m
       PROVE  v[j] = Bytes(t[j].f)[t[j].i] /\ Follows(t[j], t[j + 1])
  <2>1. j - l \in 1 .. m /\ v[j] = b[j - l] /\ t[j] = At1(j - l)
    <3>1. j - l \in 1 .. m /\ l + (j - l) = j
      BY <1>4
    <3>2. v[l + (j - l)] = b[j - l]
      BY <1>5, <3>1
    <3>3. t[j] = At1(j - l)
      BY <1>4
    <3> HIDE DEF t, At1
    <3> QED
      BY <3>1, <3>2, <3>3
  <2>2. t[j].f = f /\ t[j].i = j - l
    BY <2>1
  <2>3. CASE j < l + m
    <3>1. t[j + 1] = At1((j + 1) - l)
      BY <1>4, <2>3
    <3>2. t[j + 1].f = f /\ t[j + 1].i = (j - l) + 1 /\ j - l < m
      BY <1>4, <2>3, <3>1
    <3> HIDE DEF t
    <3> QED
      BY <1>1, <1>2, <2>1, <2>2, <3>2 DEF Follows
  <2>4. CASE j = l + m
    <3>1. t[j + 1] = At1(1)
      BY <1>4, <2>4
    <3>2. t[j + 1].i = 1 /\ j - l = m /\ ~(j - l < m)
      BY <1>4, <2>4, <3>1
    <3> HIDE DEF t
    <3> QED
      BY <1>1, <1>2, <2>1, <2>2, <3>2 DEF Follows
  <2>5. j < l + m \/ j = l + m
    BY <1>4
  <2> HIDE DEF t
  <2> QED
    BY <2>3, <2>4, <2>5
<1>12. ASSUME NEW j \in 1 .. Len(v)
       PROVE  v[j] = Bytes(t[j].f)[t[j].i] /\ Follows(t[j], t[j + 1])
  <2> HIDE DEF t
  <2>1. j \in 1 .. l \/ j \in l + 1 .. l + m
    BY <1>4, <1>5
  <2> QED
    BY <1>10, <1>11, <2>1
<1>13. Places(v, t)
  <2> HIDE DEF t
  <2> QED
    BY <1>8, <1>9, <1>12 DEF Places
<1>14. ParserAt(p, t[1].f, t[1].i)
  <2>1. CASE l = 0
    <3>1. t[1] = At1(1) /\ s[1].i = 1
      BY <1>3, <1>4, <2>1 DEF Places
    <3>2. t[1].f = f /\ t[1].i = 1
      BY <3>1
    <3>3. s[1] \in Place
      BY <1>3, <2>1 DEF Places
    <3>4. Size(s[1].f) \in Nat
      BY <3>3, PlaceIs
    <3>5. ParserAt(p, s[1].f, 1)
      BY <3>1
    <3>6. p \in Parsers /\ PlaceOf(p, Size(s[1].f), 1)
      BY <3>5 DEF ParserAt
    <3>7. p.Cnt \in Nat /\ p.Step \in {0, 1} \cup 7 .. 12
      <4>1. p.Step \in Steps
        BY <3>6, ParserIs
      <4> QED
        BY <3>6, <4>1, ParserIs DEF Steps
    <3>8. p.Step = 0 /\ p.SohCnt <= MostSohs(1)
      BY <3>4, <3>6, <3>7 DEF PlaceOf
    <3>9. ParserAt(p, f, 1)
      BY <3>6, <3>8 DEF ParserAt, PlaceOf
    <3> HIDE DEF t
    <3> QED
      BY <3>2, <3>9
  <2>2. CASE l # 0
    <3>1. t[1] = s[1]
      BY <1>4, <2>2
    <3> HIDE DEF t
    <3> QED
      BY <3>1
  <2> QED
    BY <2>1, <2>2
<1> HIDE DEF t
<1> QED
  BY <1>5, <1>13, <1>14

LEMMA PlacesAfterRead ==
    ASSUME NEW w \in Seq(Nat), NEW s, Places(w, s), NEW n \in 1 .. Len(w),
           NEW v, v = SubSeq(w, n + 1, Len(w))
    PROVE  v \in Seq(Nat) /\ \E t : Places(v, t) /\ t[1] = s[n + 1]
<1>1. PICK l : l = Len(w)
  OBVIOUS
<1>2. l \in Nat /\ n \in Nat /\ n <= l
  BY <1>1, LenProperties
<1>3. v \in Seq(Nat) /\ Len(v) = l - n /\ \A j \in 1 .. l - n : v[j] = w[n + j]
  <2>1. n + 1 \in 1 .. l + 1 /\ l \in n + 1 - 1 .. Len(w)
    BY <1>1, <1>2
  <2>2. \A j \in n + 1 .. l : w[j] \in Nat
    BY <1>1, <1>2, ElementOfSeq
  <2> QED
    BY <1>1, <1>2, <2>1, <2>2, SubSeqProperties
<1> DEFINE t == [j \in 1 .. (l - n) + 1 |-> s[n + j]]
<1>4. t \in [1 .. Len(v) + 1 -> Place]
  <2> SUFFICES ASSUME NEW j \in 1 .. (l - n) + 1 PROVE s[n + j] \in Place
    BY <1>3
  <2>1. n + j \in 1 .. l + 1
    BY <1>2
  <2> QED
    BY <1>1, <2>1 DEF Places
<1>5. ASSUME NEW j \in 1 .. Len(v)
      PROVE  v[j] = Bytes(t[j].f)[t[j].i] /\ Follows(t[j], t[j + 1])
  <2>1. j \in 1 .. l - n /\ n + j \in 1 .. l
    BY <1>2, <1>3
  <2>2. t[j] = s[n + j] /\ t[j + 1] = s[(n + j) + 1]
    <3>1. j \in 1 .. (l - n) + 1 /\ j + 1 \in 1 .. (l - n) + 1 /\ n + (j + 1) = (n + j) + 1
      BY <1>2, <2>1
    <3> QED
      BY <3>1
  <2>3. w[n + j] = Bytes(s[n + j].f)[s[n + j].i] /\ Follows(s[n + j], s[(n + j) + 1])
    BY <1>1, <2>1 DEF Places
  <2> HIDE DEF t
  <2> QED
    BY <1>3, <2>1, <2>2, <2>3
<1>6. t[Len(v) + 1].i = 1
  <2>1. t[(l - n) + 1] = s[l + 1]
    <3>1. (l - n) + 1 \in 1 .. (l - n) + 1 /\ n + ((l - n) + 1) = l + 1
      BY <1>2
    <3> QED
      BY <3>1
  <2> HIDE DEF t
  <2> QED
    BY <1>1, <1>3, <2>1 DEF Places
<1>7. t[1] = s[n + 1]
  BY <1>2
<1>8. Places(v, t)
  <2> HIDE DEF t
  <2> QED
    BY <1>4, <1>5, <1>6 DEF Places
<1> HIDE DEF t
<1> QED
  BY <1>3, <1>7, <1>8

\* What the host sends is a frame that may be on the wire.
LEMMA MessageIs ==
    ASSUME HostSendsFrames, NEW m \in Messages
    PROVE  \E f \in OnWire : m = Bytes(f)
<1>1. CASE m \in Noise
  <2>1. PICK cmd \in Octet \ {SOH}, body \in Seq(Character), sum \in Octet :
            /\ m = Framed(cmd, body, sum)
            /\ \/ cmd # PTE_DOWNLOAD_POSSN
               \/ Len(body) > POSSN_MAX_SIZE
               \/ sum # Sum(FrameData(cmd, body))[Len(FrameData(cmd, body))]
    BY <1>1 DEF HostSendsFrames
  <2> DEFINE f == [cmd |-> cmd, body |-> body, sum |-> sum]
  <2>2. f \in OnWire
    BY <2>1 DEF OnWire
  <2>3. m = Bytes(f)
    BY <2>1 DEF Bytes
  <2> HIDE DEF f
  <2> QED
    BY <2>2, <2>3
<1>2. CASE m \in {Frame(PTE_DOWNLOAD_POSSN, sn) : sn \in Serials}
  <2>1. PICK sn \in Serials : m = Frame(PTE_DOWNLOAD_POSSN, sn)
    BY <1>2
  <2>2. sn \in Seq(Character)
    BY DEF HostSendsFrames
  <2>3. PICK sum : sum = Sum(FrameData(PTE_DOWNLOAD_POSSN, sn))[
                             Len(FrameData(PTE_DOWNLOAD_POSSN, sn))]
    OBVIOUS
  <2>4. PTE_DOWNLOAD_POSSN \in Octet \ {SOH}
    BY DEF PTE_DOWNLOAD_POSSN, Octet, SOH
  <2> DEFINE e == [cmd |-> PTE_DOWNLOAD_POSSN, body |-> sn, sum |-> 0]
             f == [cmd |-> PTE_DOWNLOAD_POSSN, body |-> sn, sum |-> sum]
  <2>5. sum \in Octet
    <3>1. PICK d : d = FrameData(PTE_DOWNLOAD_POSSN, sn)
      OBVIOUS
    <3>2. PICK n : n = Len(sn)
      OBVIOUS
    <3>3. n \in Nat /\ d \in Seq(Nat) /\ Len(d) = n + 5
      <4>1. IsFrameData(FrameData(PTE_DOWNLOAD_POSSN, sn), PTE_DOWNLOAD_POSSN, sn, Len(sn))
        BY <2>2, <2>4, FrameDataIs
      <4>2. IsFrameData(d, PTE_DOWNLOAD_POSSN, sn, n)
        BY <3>1, <3>2, <4>1
      <4> QED
        BY <4>2 DEF IsFrameData
    <3>4. \A i \in 0 .. n + 5 : Sum(d)[i] \in Octet
      BY <3>3, SumIn
    <3> QED
      BY <2>3, <3>1, <3>3, <3>4
  <2>6. f \in OnWire
    BY <2>2, <2>4, <2>5 DEF OnWire
  <2>7. m = Bytes(f)
    BY <2>1, <2>3 DEF Bytes, Frame
  <2> HIDE DEF f
  <2> QED
    BY <2>6, <2>7
<1> QED
  BY <1>1, <1>2 DEF Messages
-----------------------------------------------------------------------------
(* The serial number.                                                      *)

WireOK(w, p) ==
    /\ w \in Seq(Nat) /\ ~p.Valid
    /\ \E s : Places(w, s) /\ ParserAt(p, s[1].f, s[1].i)

WireInv == WireOK(wire, parser)

\* the number in a sector is one of the host's
SerialIn(x) == IsSector(x) /\ (x.sn # Absent => Content(x.sn) \in Serials \cup {<<>>})

SerialInv == WireInv /\ SerialIn(sector) /\ SerialIn(sector_buf)

LEMMA EmptyWire ==
    WireOK(<<>>, NewParser)
<1> DEFINE f == [cmd |-> 0, body |-> <<>>, sum |-> 0]
           x == [f |-> f, i |-> 1]
           s == [j \in 1 .. 1 |-> x]
<1>1. f \in OnWire
  BY DEF OnWire, Octet, SOH, PTE_DOWNLOAD_POSSN
<1>2. x \in Place
  <2>1. f.body = <<>>
    OBVIOUS
  <2> HIDE DEF f
  <2> QED
    BY <1>1, <2>1 DEF Place, Size
<1>3. s \in [1 .. 1 -> Place] /\ s[1] = x /\ x.i = 1
  <2> HIDE DEF x
  <2>1. s \in [1 .. 1 -> Place] /\ s[1] = x
    BY <1>2
  <2> QED
    BY <2>1 DEF x
<1>4. NewParser \in Parsers /\ NewParser.Step = 0 /\ NewParser.SohCnt = 0 /\ ~NewParser.Valid
  <2>1. 0 \in Steps
    BY DEF Steps
  <2>2. Zeros \in [Body -> Nat]
    BY DEF Zeros
  <2> QED
    BY <2>1, <2>2 DEF NewParser, Parsers
<1> HIDE DEF f, x, s
<1>5. PICK w : w = <<>>
  OBVIOUS
<1>6. Len(w) = 0 /\ w \in Seq(Nat)
  BY <1>5, EmptySeq
<1>7. Places(w, s)
  BY <1>3, <1>6 DEF Places
<1>8. ParserAt(NewParser, s[1].f, s[1].i)
  BY <1>4, WaitsAnywhere
<1> QED
  BY <1>4, <1>5, <1>6, <1>7, <1>8 DEF WireOK

LEMMA WireAfterSend ==
    ASSUME HostSendsFrames, WireInv, NEW m \in Messages, HostSends(m)
    PROVE  WireInv'
<1>1. PICK f \in OnWire : m = Bytes(f)
  BY MessageIs
<1>2. PICK s : Places(wire, s) /\ ParserAt(parser, s[1].f, s[1].i)
  BY DEF WireInv, WireOK
<1>3. wire' = wire \o Bytes(f) /\ parser' = parser
  BY <1>1 DEF HostSends
<1>4. wire' \in Seq(Nat) /\ \E t : Places(wire', t) /\ ParserAt(parser, t[1].f, t[1].i)
  BY <1>2, <1>3, PlacesAfterSend DEF WireInv, WireOK
<1> QED
  BY <1>3, <1>4 DEF WireInv, WireOK

LEMMA AfterReading ==
    ASSUME SerialInv, NEW n \in 1 .. Len(wire), Reads(n)
    PROVE  SerialInv'
<1>1. PICK s : Places(wire, s) /\ ParserAt(parser, s[1].f, s[1].i)
  BY DEF SerialInv, WireInv, WireOK
<1>2. PICK p : p = frame_01_parse(parser, SubSeq(wire, 1, n))
  OBVIOUS
<1>3. wire \in Seq(Nat) /\ ~parser.Valid
  BY DEF SerialInv, WireInv, WireOK
<1>4. ReadAt(p, s[n + 1].f, s[n + 1].i)
  BY <1>1, <1>2, <1>3, ParseOK
<1>5. /\ wire' = SubSeq(wire, n + 1, Len(wire))
      /\ parser' = [p EXCEPT !.Valid = FALSE]
      /\ UNCHANGED sector
      /\ \/ UNCHANGED sector_buf
         \/ /\ Downloads(p) /\ Len(Text01(p)) <= POSSN_MAX_SIZE
            /\ sector_buf' = [sector EXCEPT !.sn = Record(Text01(p))]
  <2>1. /\ wire' = SubSeq(wire, n + 1, Len(wire))
        /\ parser' = [p EXCEPT !.Valid = FALSE]
        /\ UNCHANGED <<messages, sector, secret_key, otp, device_id, security_status>>
    BY <1>2, Zenon DEF Reads
  <2>2. \/ UNCHANGED <<sector_buf, down>>
        \/ /\ Downloads(p) /\ Len(Text01(p)) <= POSSN_MAX_SIZE
           /\ sector_buf' = [sector EXCEPT !.sn = Record(Text01(p))]
        \/ UNCHANGED sector_buf
    BY <1>2, Zenon DEF Reads
  <2>3. UNCHANGED <<sector_buf, down>> => UNCHANGED sector_buf
    OBVIOUS
  <2>4. UNCHANGED sector
    BY <2>1
  <2> QED
    BY <2>1, <2>2, <2>3, <2>4, Zenon
<1>6. WireInv'
  <2>1. wire' \in Seq(Nat) /\ \E t : Places(wire', t) /\ t[1] = s[n + 1]
    <3>1. wire' = SubSeq(wire, n + 1, Len(wire))
      BY <1>5
    <3>2. PICK v : v = wire'
      OBVIOUS
    <3>3. v \in Seq(Nat) /\ \E t : Places(v, t) /\ t[1] = s[n + 1]
      BY <1>1, <1>3, <3>1, <3>2, PlacesAfterRead
    <3> QED
      BY <3>2, <3>3
  <2>2. p \in Parsers /\ ParserAt(p, s[n + 1].f, s[n + 1].i)
    BY <1>4 DEF ReadAt, ParserAt
  <2>3. PICK q : q = parser'
    OBVIOUS
  <2>4. /\ q \in Parsers /\ q.Step = p.Step /\ q.SohCnt = p.SohCnt /\ q.Bcc = p.Bcc
        /\ q.Cnt = p.Cnt /\ q.Valid = FALSE /\ q.cmd = p.cmd /\ q.len = p.len
        /\ q.buf = p.buf
    BY <1>5, <2>2, <2>3 DEF Parsers
  <2>5. ParserAt(q, s[n + 1].f, s[n + 1].i)
    BY <2>2, <2>4 DEF ParserAt, PlaceOf, SoFar
  <2>6. \E t : Places(wire', t) /\ ParserAt(q, t[1].f, t[1].i)
    BY <2>1, <2>5
  <2> QED
    BY <2>1, <2>3, <2>4, <2>6 DEF WireInv, WireOK
<1>7. SerialIn(sector_buf')
  <2>1. CASE /\ Downloads(p) /\ Len(Text01(p)) <= POSSN_MAX_SIZE
             /\ sector_buf' = [sector EXCEPT !.sn = Record(Text01(p))]
    <3>1. PICK x : x = Text01(p)
      OBVIOUS
    <3>2. x \in Serials \cup {<<>>}
      BY <1>4, <2>1, <3>1 DEF ReadAt, TextOK, Downloads
    <3>3. sector_buf' = [sn |-> <<x>>, cipher |-> sector.cipher]
      BY <2>1, <3>1 DEF SerialInv, SerialIn, IsSector, Record
    <3> QED
      BY <3>2, <3>3 DEF SerialIn, IsSector, Content
  <2>2. CASE UNCHANGED sector_buf
    BY <2>2 DEF SerialInv
  <2> QED
    BY <1>5, <2>1, <2>2
<1> QED
  BY <1>5, <1>6, <1>7 DEF SerialInv

LEMMA StepSerial ==
    ASSUME HostSendsFrames
    PROVE  SerialInv /\ [Next]_vars => SerialInv'
<1> SUFFICES ASSUME SerialInv, [Next]_vars PROVE SerialInv'
  OBVIOUS
<1>1. ASSUME UNCHANGED <<wire, parser, sector, sector_buf>> PROVE SerialInv'
  BY <1>1 DEF SerialInv, WireInv, WireOK
<1>2. ASSUME UNCHANGED <<wire, parser>>, SerialIn(sector'), SerialIn(sector_buf')
      PROVE  SerialInv'
  BY <1>2 DEF SerialInv, WireInv, WireOK
<1>3. CASE SenderOpens \/ CmdOpens \/ Configures
  BY <1>1, <1>3 DEF SenderOpens, CmdOpens, Configures, provisionVars
<1>4. CASE SnOpens
  BY <1>1, <1>4 DEF SnOpens
<1>5. CASE Boots
  BY <1>1, <1>5 DEF Boots
<1>6. ASSUME NEW m \in Messages, HostSends(m) PROVE SerialInv'
  <2>1. WireInv'
    BY <1>6, WireAfterSend DEF SerialInv
  <2> QED
    BY <1>6, <2>1 DEF HostSends, SerialInv
<1>7. ASSUME NEW n \in 1 .. Len(wire), Reads(n) PROVE SerialInv'
  BY <1>7, AfterReading
<1>8. ASSUME NEW from, NEW to, Erases(from, to) PROVE SerialInv'
  <2>1. UNCHANGED <<wire, parser, sector_buf>> /\ sector' = Erased
    BY <1>8 DEF Erases
  <2>2. SerialIn(sector')
    BY <2>1 DEF SerialIn, IsSector, Erased
  <2> QED
    BY <1>2, <2>1, <2>2 DEF SerialInv
<1>9. ASSUME NEW from, NEW to, ProgramsSn(from, to) PROVE SerialInv'
  <2>1. UNCHANGED <<wire, parser, sector_buf>> /\ sector' = [sector EXCEPT !.sn = sector_buf.sn]
    BY <1>9 DEF ProgramsSn
  <2>2. SerialIn(sector')
    BY <2>1 DEF SerialInv, SerialIn, IsSector
  <2> QED
    BY <1>2, <2>1, <2>2 DEF SerialInv
<1>10. ASSUME NEW from, NEW to, ProgramsCipher(from, to) PROVE SerialInv'
  <2>1. /\ UNCHANGED <<wire, parser, sector_buf>>
        /\ sector' = [sector EXCEPT !.cipher = sector_buf.cipher]
    BY <1>10 DEF ProgramsCipher
  <2>2. SerialIn(sector')
    BY <2>1 DEF SerialInv, SerialIn, IsSector
  <2> QED
    BY <1>2, <2>1, <2>2 DEF SerialInv
<1>11. CASE Flash_Base_Write
  <2>1. /\ \A from, to : Erases(from, to) => SerialInv'
        /\ \A from, to : ProgramsSn(from, to) => SerialInv'
        /\ \A from, to : ProgramsCipher(from, to) => SerialInv'
    BY <1>8, <1>9, <1>10, Zenon
  <2> QED
    BY <1>11, <2>1, Zenon DEF Flash_Base_Write
<1>12. CASE generate_random
  <2>1. UNCHANGED <<wire, messages, parser, sector, sector_buf, otp, device_id, security_status>>
    BY <1>12, Zenon DEF generate_random
  <2> QED
    BY <1>1, <2>1
<1>13. ASSUME NEW z, NEW from, NEW to, efuse_write_key(z, from, to) PROVE SerialInv'
  BY <1>1, <1>13 DEF efuse_write_key
<1>14. CASE Encrypts
  <2> DEFINE c == Record(efuse_aes_enc(otp, get_text(Content(sector.sn))))
  <2>1. UNCHANGED <<wire, parser, sector>> /\ sector_buf' = [sector EXCEPT !.cipher = c]
    <3>1. /\ sector_buf' = [sector EXCEPT !.cipher = c]
          /\ UNCHANGED <<wire, messages, parser, sector, secret_key, otp, device_id,
                         security_status>>
      BY <1>14, Zenon DEF Encrypts
    <3> HIDE DEF c
    <3> QED
      BY <3>1
  <2> HIDE DEF c
  <2>2. SerialIn(sector_buf')
    BY <2>1 DEF SerialInv, SerialIn, IsSector
  <2> QED
    BY <1>2, <2>1, <2>2 DEF SerialInv
<1>15. CASE Compares
  BY <1>1, <1>15 DEF Compares
<1>16. CASE Replies
  BY <1>1, <1>16 DEF Replies
<1>17. CASE Power
  <2>1. wire' = <<>> /\ parser' = NewParser /\ sector_buf' = Erased /\ UNCHANGED sector
    BY <1>17 DEF Power, PowerLost
  <2>2. WireInv'
    <3>1. WireOK(wire', parser')
      BY <2>1, EmptyWire, Zenon
    <3> QED
      BY <3>1 DEF WireInv
  <2>3. SerialIn(sector_buf')
    BY <2>1 DEF SerialIn, IsSector, Erased
  <2> QED
    BY <2>1, <2>2, <2>3 DEF SerialInv
<1>18. CASE UNCHANGED vars
  BY <1>1, <1>18 DEF vars, provisionVars
<1>19. CASE Provisions
  <2>1. /\ \A m \in Messages : HostSends(m) => SerialInv'
        /\ \A n \in 1 .. Len(wire) : Reads(n) => SerialInv'
        /\ \A z, from, to : efuse_write_key(z, from, to) => SerialInv'
    BY <1>6, <1>7, <1>13, Zenon
  <2> QED
    BY <1>5, <1>11, <1>12, <1>14, <1>15, <1>16, <1>19, <2>1, Zenon DEF Provisions
<1> QED
  BY <1>3, <1>4, <1>17, <1>18, <1>19 DEF Next, Overrun

(***************************************************************************)
(* The serial number in the flash is one the host sent or the empty one,   *)
(* however its bytes were cut into reads and whatever other frames came    *)
(* before, between and behind: of other commands, too long, or garbled so  *)
(* that their sum does not fit.  A number too long for POSSN_MAX_SIZE is   *)
(* refused up to W_BUFF bytes; one longer than that ends the model where   *)
(* it overruns w_buff, and what the program does from there on is outside  *)
(* the theorem.                                                            *)
(***************************************************************************)
THEOREM SerialKept ==
    ASSUME HostSendsFrames
    PROVE  Spec => []SerialWholeOrEmpty
<1>1. Init => SerialInv
  BY EmptyWire DEF Init, ProvisionInit, SerialInv, WireInv, SerialIn, IsSector, Erased
<1>2. SerialInv => SerialWholeOrEmpty
  BY DEF SerialInv, SerialIn, SerialWholeOrEmpty
<1> QED
  BY <1>1, <1>2, StepSerial, PTL DEF Spec
=============================================================================
