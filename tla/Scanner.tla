------------------------------- MODULE Scanner -------------------------------
(***************************************************************************)
(* The firmware's scan pipeline, above the kernel.  Five threads:          *)
(*                                                                         *)
(*   camera  takes frames, copies one into an image buffer and mails it    *)
(*   decoder decodes a mailed frame, mails the text, frees the buffer      *)
(*   sender  plays a sound for a text and reports it, or obeys it as a     *)
(*           setting; stops the scanner when nothing is scanned            *)
(*   cmd     starts the scanner on a newline from the host                 *)
(*   player  plays the sound the sender asked for                          *)
(*                                                                         *)
(* Mailboxes and events are taken at what Mailbox and Event show of them:  *)
(* a bounded queue, a set of bits.  Threads are scheduled as Scheduler     *)
(* shows: a thread runs when it is not blocked and no thread of a higher   *)
(* priority (a smaller number) is ready; at equal priority time slices     *)
(* interleave them anywhere.  What time decides (the 0.5 s between scans,  *)
(* the suppression of a repeated text, the 2 s before the scanner stops)   *)
(* is left open.  The texts sent in production-test mode                   *)
(* (info_to_mes_sender) are not modelled.                                  *)
(***************************************************************************)
EXTENDS Integers, Sequences, FiniteSets, Functions

CONSTANTS IMG_BUF_NUM,   \* image buffers
          ImgSlots,      \* mails mb_pool_img holds
          SenderSlots,   \* mails mb_pool_hid holds
          Frames,        \* frames in a sound file
          DrainTicks,    \* tick_delay: ticks a sound is waited for
          MaxScans,      \* bound: texts decoded
          BootTimeouts,  \* timeouts of the sender before it stops the scanner: 3
          Voice,         \* SET_VOICE: "sok.wav" or "beep.wav"
          IdleStop       \* mb_timeout is one second, not RT_WAITING_FOREVER

Buffers == 1 .. IMG_BUF_NUM
Text == 1 .. MaxScans
Files == {"sok.wav", "beep.wav"}
Null == 0

ASSUME ScannerAssumption ==
    /\ IMG_BUF_NUM \in Nat \ {0}
    /\ ImgSlots \in Nat /\ ImgSlots >= IMG_BUF_NUM
    /\ SenderSlots \in Nat \ {0}
    /\ Frames \in Nat /\ DrainTicks \in Nat \ {0} /\ MaxScans \in Nat
    /\ BootTimeouts \in Nat
    /\ Voice \in Files
    /\ IdleStop \in BOOLEAN

VARIABLES
    at,             \* where each thread is
    ready,          \* the buffers whose bufferptr is set
    flag,           \* image_queue.imagebuffer[].flag
    lost,           \* history: the buffers claimed without a bufferptr
    pbuf, ptr,      \* the buffer the camera fills, the decoder reads, or Null
    mb_img,         \* the mailbox of buffers
    scans,          \* how many texts were decoded
    heap,           \* the texts allocated and not freed
    mb_sender,      \* the mailbox of texts
    str,            \* the sender's text, or Null
    reported,       \* the texts reported to the host, in order
    scan_status, backlight,
    init_flag, scaner_ok,
    play_event, play_over,
    last_filename,  \* the file in wav_buf, or being read into it
    audio_play_status, end_flag, index, ticks

imageVars == <<ready, flag, lost, pbuf, ptr, mb_img>>
textVars == <<scans, heap, mb_sender, str, reported>>
switchVars == <<scan_status, backlight>>
idleVars == <<init_flag, scaner_ok>>
eventVars == <<play_event, play_over>>
playVars == <<audio_play_status, end_flag, index, ticks>>
scannerVars == <<at, imageVars, textVars, switchVars, idleVars, eventVars, last_filename, playVars>>

Thread == {"camera", "decoder", "sender", "cmd", "player"}

\* BUG: the sender at TASK_PRIORITY_SENDER
BugPrio == [t \in Thread |-> CASE t = "decoder" -> 168
                               [] t = "player"  -> 169
                               [] t = "sender"  -> 171
                               [] OTHER         -> 130]

\* RT_APP_THREAD_PRIORITY, TASK_PRIORITY_HID, _CMD, _XGDZBAR, _AUDIO
Prio == [t \in Thread |-> CASE t = "decoder" -> 168
                            [] t = "player"  -> 169
                            [] OTHER         -> 130]

(***************************************************************************)
(* Blocked in a wait that something outside these threads ends: a frame,   *)
(* a byte from the host, a tick, the flash file system, the audio driver.  *)
(* "wild": the heap is ruined (FreesWild), and the model ends.             *)
(***************************************************************************)
Outside == {"frame", "input", "delay", "load", "sending", "tick", "wild"}

Ready(t) ==
    /\ at[t] \notin Outside
    /\ at[t] = "recv" => CASE t = "decoder" -> mb_img # <<>>
                           [] t = "sender"  -> mb_sender # <<>>
                           [] t = "player"  -> play_event

At(t, label) ==
    /\ at[t] = label
    /\ \A u \in Thread : Ready(u) => Prio[t] <= Prio[u]

Go(t, label) == at' = [at EXCEPT ![t] = label]

ScannerInit ==
    /\ at = [t \in Thread |-> CASE t = "camera" -> "frame"
                                [] t = "decoder" -> "init"
                                [] t = "sender" -> "start"
                                [] t = "cmd" -> "input"
                                [] t = "player" -> "recv"]
    /\ ready = {}
    /\ lost = {}
    /\ flag = [b \in Buffers |-> 0]
    /\ pbuf = Null /\ ptr = Null
    /\ mb_img = <<>>
    /\ scans = 0 /\ heap = {}
    /\ mb_sender = <<>> /\ str = Null /\ reported = <<>>
    /\ scan_status = 0 /\ backlight = 1
    /\ init_flag = 1 /\ scaner_ok = 0
    /\ play_event = FALSE /\ play_over = FALSE
    /\ last_filename = ""
    /\ audio_play_status = 0 /\ end_flag = 0 /\ index = 0 /\ ticks = 0
-----------------------------------------------------------------------------
(* The camera: xgdzbar_get_stream_proc and image_frame_send.               *)

\* FH_VPSS_GetChnFrame returns a frame
FrameArrives ==
    /\ at["camera"] = "frame"
    /\ Go("camera", "check")
    /\ UNCHANGED <<imageVars, textVars, switchVars, idleVars, eventVars, last_filename, playVars>>

Skips ==
    /\ At("camera", "check")
    /\ scan_status = 0
    /\ Go("camera", "frame")
    /\ UNCHANGED <<imageVars, textVars, switchVars, idleVars, eventVars, last_filename, playVars>>

FreeBuffers == {b \in Buffers : flag[b] = 0}

First(S) == CHOOSE b \in S : \A c \in S : b <= c

(***************************************************************************)
(* image_queue_malloc: the first buffer whose flag is 0.  Until            *)
(* image_queue_init has set its bufferptr that is NULL, which the caller   *)
(* takes for a full queue: the flag stays and the frame is dropped.        *)
(***************************************************************************)
image_queue_malloc ==
    /\ At("camera", "check")
    /\ scan_status = 1
    /\ IF FreeBuffers = {}
       THEN UNCHANGED <<flag, lost, pbuf>> /\ Go("camera", "frame")
       ELSE LET b == First(FreeBuffers)
            IN  /\ flag' = [flag EXCEPT ![b] = 1]
                /\ pbuf' = IF b \in ready THEN b ELSE Null
                /\ lost' = IF b \in ready THEN lost ELSE lost \union {b}
                /\ Go("camera", IF b \in ready THEN "copy" ELSE "frame")
    /\ UNCHANGED <<ready, ptr, mb_img, textVars, switchVars, idleVars, eventVars,
                   last_filename, playVars>>

\* BUG: rt_mb_send does not test for a full mailbox
BugSent(mb, m, slots) == Append(mb, m)

\* rt_mb_send with no wait: a full mailbox refuses and the result is ignored
Sent(mb, m, slots) == IF Len(mb) < slots THEN Append(mb, m) ELSE mb

image_frame_send ==
    /\ At("camera", "copy")
    /\ mb_img' = Sent(mb_img, pbuf, ImgSlots)
    /\ pbuf' = Null
    /\ Go("camera", "frame")
    /\ UNCHANGED <<ready, lost, flag, ptr, textVars, switchVars, idleVars, eventVars,
                   last_filename, playVars>>
-----------------------------------------------------------------------------
(* The decoder: xgd_decoder_thread, xgd_decode, new_decode_data.           *)

InitsMail ==
    /\ At("decoder", "init")
    /\ mb_img' = <<>>
    /\ Go("decoder", "clear")
    /\ UNCHANGED <<ready, flag, lost, pbuf, ptr, textVars, switchVars, idleVars, eventVars,
                   last_filename, playVars>>

(* image_queue_init clears the flag of each buffer in turn and sets its    *)
(* bufferptr a few statements later: the camera may come in between.       *)
ClearsFlag ==
    LET b == First(Buffers \ ready)
    IN  /\ At("decoder", "clear")
        /\ flag' = [flag EXCEPT ![b] = 0]
        /\ lost' = lost \ {b}
        /\ Go("decoder", "set")
        /\ UNCHANGED <<ready, pbuf, ptr, mb_img, textVars, switchVars, idleVars, eventVars,
                       last_filename, playVars>>

SetsPointer ==
    /\ At("decoder", "set")
    /\ ready' = ready \union {First(Buffers \ ready)}
    /\ Go("decoder", IF ready' = Buffers THEN "recv" ELSE "clear")
    /\ UNCHANGED <<flag, lost, pbuf, ptr, mb_img, textVars, switchVars, idleVars, eventVars,
                   last_filename, playVars>>

image_queue_init == ClearsFlag \/ SetsPointer

\* BUG: the buffer is freed before it is decoded
BugTakesFrame ==
    /\ At("decoder", "recv")
    /\ mb_img # <<>>
    /\ ptr' = Head(mb_img)
    /\ mb_img' = Tail(mb_img)
    /\ flag' = [flag EXCEPT ![ptr'] = 0]
    /\ Go("decoder", "decode")
    /\ UNCHANGED <<ready, lost, pbuf, textVars, switchVars, idleVars, eventVars,
                   last_filename, playVars>>

TakesFrame ==
    /\ At("decoder", "recv")
    /\ mb_img # <<>>
    /\ ptr' = Head(mb_img)
    /\ mb_img' = Tail(mb_img)
    /\ Go("decoder", "decode")
    /\ UNCHANGED <<ready, lost, flag, pbuf, textVars, switchVars, idleVars, eventVars,
                   last_filename, playVars>>

\* nothing read, or too soon, or the text of the scan before
DecodesNothing ==
    /\ At("decoder", "decode")
    /\ Go("decoder", "free")
    /\ UNCHANGED <<imageVars, textVars, switchVars, idleVars, eventVars, last_filename, playVars>>

\* BUG: the copy is freed once it is mailed
BugSendStr ==
    /\ At("decoder", "decode")
    /\ scans < MaxScans
    /\ scans' = scans + 1
    /\ mb_sender' = Sent(mb_sender, scans + 1, SenderSlots)
    /\ Go("decoder", "free")
    /\ UNCHANGED <<heap, imageVars, str, reported, switchVars, idleVars, eventVars,
                   last_filename, playVars>>

(***************************************************************************)
(* xgd_send_str: a copy of the text is allocated and mailed; when the      *)
(* mailbox refuses it, nobody frees the copy.                              *)
(***************************************************************************)
xgd_send_str ==
    /\ At("decoder", "decode")
    /\ scans < MaxScans
    /\ scans' = scans + 1
    /\ heap' = heap \union {scans + 1}
    /\ mb_sender' = Sent(mb_sender, scans + 1, SenderSlots)
    /\ Go("decoder", "free")
    /\ UNCHANGED <<imageVars, str, reported, switchVars, idleVars, eventVars, last_filename, playVars>>

image_queue_free ==
    /\ At("decoder", "free")
    /\ flag' = [flag EXCEPT ![ptr] = 0]
    /\ ptr' = Null
    /\ Go("decoder", "recv")
    /\ UNCHANGED <<ready, lost, pbuf, mb_img, textVars, switchVars, idleVars, eventVars,
                   last_filename, playVars>>
-----------------------------------------------------------------------------
(* The scanner switch: xgd_scanner_start, xgd_scanner_stop: the status,    *)
(* under rt_enter_critical, and then the light.                            *)

StartsScan(t, from, to) ==
    /\ At(t, from)
    /\ scan_status' = 1
    /\ Go(t, to)
    /\ UNCHANGED <<backlight, imageVars, textVars, idleVars, eventVars, last_filename, playVars>>

Lights(t, from, on, to) ==
    /\ At(t, from)
    /\ backlight' = on
    /\ Go(t, to)
    /\ UNCHANGED <<scan_status, imageVars, textVars, idleVars, eventVars, last_filename, playVars>>

\* scan_ok_led_ctrl: the scan light is off while the green one is on
Led(from, on, to) ==
    /\ At("sender", from)
    /\ backlight' = IF scan_status = 1 THEN 1 - on ELSE backlight
    /\ Go("sender", to)
    /\ UNCHANGED <<scan_status, imageVars, textVars, idleVars, eventVars, last_filename, playVars>>

\* cdc_uart_cmd_thread reads a line end from the host
Newline ==
    /\ at["cmd"] = "input"
    /\ Go("cmd", "starts")
    /\ UNCHANGED <<imageVars, textVars, switchVars, idleVars, eventVars, last_filename, playVars>>

ObeysCommand == StartsScan("cmd", "starts", "lights") \/ Lights("cmd", "lights", 1, "input")
-----------------------------------------------------------------------------
(* The sender: xgd_sender_thread, dev_audio_play, xgd_config_parser.       *)

TakesText ==
    /\ At("sender", "recv")
    /\ mb_sender # <<>>
    /\ str' = Head(mb_sender)
    /\ mb_sender' = Tail(mb_sender)
    /\ Go("sender", "led_on")
    /\ UNCHANGED <<scans, heap, reported, imageVars, switchVars, idleVars, eventVars,
                   last_filename, playVars>>

(***************************************************************************)
(* dev_audio_play: a playback under way is told to stop; the file in the   *)
(* buffer is played again, another one is loaded first.                    *)
(***************************************************************************)
PlaysFile(file) ==
    /\ play_over' = (play_over \/ audio_play_status = 1)
    /\ last_filename' = file
    /\ play_event' = (play_event \/ last_filename = file)
    /\ Go("sender", IF last_filename = file THEN "parse" ELSE "load")
    /\ UNCHANGED <<imageVars, textVars, switchVars, idleVars, playVars>>

Plays == At("sender", "play") /\ PlaysFile(Voice)

(* "sok.wav" cannot be opened: "beep.wav" is played instead.  On the way   *)
(* out the stack variable fr2_info.data is freed, which has no value yet:  *)
(* NULL by luck, or the heap is ruined.                                    *)
LoadFails ==
    /\ at["sender"] = "load"
    /\ IF last_filename = "sok.wav"
       THEN PlaysFile("beep.wav")
       ELSE /\ Go("sender", "parse")
            /\ UNCHANGED <<eventVars, last_filename, imageVars, textVars, switchVars,
                           idleVars, playVars>>

FreesWild ==
    /\ at["sender"] = "load"
    /\ Go("sender", "wild")
    /\ UNCHANGED <<imageVars, textVars, switchVars, idleVars, eventVars, last_filename, playVars>>

\* the buffer is cleared and filled from the file
LoadsSound ==
    /\ at["sender"] = "load"
    /\ play_event' = TRUE
    /\ Go("sender", "parse")
    /\ UNCHANGED <<play_over, last_filename, imageVars, textVars, switchVars, idleVars, playVars>>

\* xgd_config_parser obeys the text: the loop goes on without rt_free
ParsesSetting ==
    /\ At("sender", "parse")
    /\ str' = Null
    /\ Go("sender", "delay")
    /\ UNCHANGED <<scans, heap, mb_sender, reported, imageVars, switchVars, idleVars,
                   eventVars, last_filename, playVars>>

xgd_send_message ==
    /\ At("sender", "parse")
    /\ reported' = Append(reported, str)
    /\ scaner_ok' = 1
    /\ heap' = heap \ {str}
    /\ str' = Null
    /\ Go("sender", "delay")
    /\ UNCHANGED <<scans, mb_sender, init_flag, imageVars, switchVars, eventVars,
                   last_filename, playVars>>

DelayEnds ==
    /\ at["sender"] = "delay"
    /\ Go("sender", "led_off")
    /\ UNCHANGED <<imageVars, textVars, switchVars, idleVars, eventVars, last_filename, playVars>>

(***************************************************************************)
(* rt_mb_recv times out.  The first times (booting) only count; the next   *)
(* stops the scanner and goes on to the check of an idle scanner.          *)
(***************************************************************************)
TimesOut ==
    /\ at["sender"] = "recv" /\ IdleStop
    /\ mb_sender = <<>>
    /\ init_flag' = IF init_flag \in 1 .. BootTimeouts THEN init_flag + 1 ELSE 0
    /\ scan_status' = IF init_flag = BootTimeouts + 1 THEN 0 ELSE scan_status
    /\ Go("sender", CASE init_flag = 0 -> "idle"
                      [] init_flag = BootTimeouts + 1 -> "unlights"
                      [] OTHER         -> "recv")
    /\ UNCHANGED <<scaner_ok, backlight, imageVars, textVars, eventVars, last_filename, playVars>>

\* a text was reported, more than 200 ticks ago
StopsIdle ==
    /\ At("sender", "idle")
    /\ scaner_ok = 1
    /\ scan_status' = 0
    /\ scaner_ok' = 0
    /\ Go("sender", "unlights")
    /\ UNCHANGED <<init_flag, backlight, imageVars, textVars, eventVars, last_filename, playVars>>

StaysOn ==
    /\ At("sender", "idle")
    /\ Go("sender", "recv")
    /\ UNCHANGED <<imageVars, textVars, switchVars, idleVars, eventVars, last_filename, playVars>>

Sounds == Plays \/ LoadFails \/ FreesWild \/ LoadsSound

Sends ==
    \/ StartsScan("sender", "start", "lights")
    \/ Lights("sender", "lights", 1, "recv")
    \/ TakesText
    \/ Led("led_on", 1, "play")
    \/ Sounds
    \/ ParsesSetting
    \/ xgd_send_message
    \/ DelayEnds
    \/ Led("led_off", 0, "recv")
    \/ StopsIdle
    \/ Lights("sender", "unlights", 0, "idle")
    \/ StaysOn
-----------------------------------------------------------------------------
(* The player: audio_player_thread, audio_play_thread.                     *)

PlayerStep(from, to) ==
    /\ At("player", from)
    /\ Go("player", to)
    /\ UNCHANGED <<imageVars, textVars, switchVars, idleVars, last_filename>>

TakesRequest ==
    /\ PlayerStep("recv", "begin")
    /\ play_event
    /\ play_event' = FALSE
    /\ UNCHANGED <<play_over, playVars>>

Begins ==
    /\ PlayerStep("begin", "enable")
    /\ audio_play_status' = 1
    /\ UNCHANGED <<end_flag, index, ticks, eventVars>>

(* The next frame, or the wait for the sound to end; end_flag is static    *)
(* and never cleared.                                                      *)
PlaysOn(i, ended) == IF i < Frames THEN "sending" ELSE IF ended = 0 THEN "tick" ELSE "close"

Enables ==
    /\ PlayerStep("enable", PlaysOn(0, end_flag))
    /\ index' = 0 /\ ticks' = 0
    /\ UNCHANGED <<audio_play_status, end_flag, eventVars>>

EnableFails ==
    /\ PlayerStep("enable", "recv")
    /\ audio_play_status' = 0
    /\ UNCHANGED <<end_flag, index, ticks, eventVars>>

FrameSent ==
    /\ at["player"] = "sending"
    /\ index' = index + 1
    /\ Go("player", "poll")
    /\ UNCHANGED <<audio_play_status, end_flag, ticks, imageVars, textVars, switchVars,
                   idleVars, eventVars, last_filename>>

\* audio_thread_over takes the request to stop
Polls ==
    /\ PlayerStep("poll", IF play_over THEN "close" ELSE PlaysOn(index, end_flag))
    /\ play_over' = FALSE
    /\ end_flag' = IF play_over THEN 1 ELSE end_flag
    /\ UNCHANGED <<audio_play_status, index, ticks, play_event>>

Tick ==
    /\ at["player"] = "tick"
    /\ ticks' = ticks + 1
    /\ Go("player", "listen")
    /\ UNCHANGED <<audio_play_status, end_flag, index, imageVars, textVars, switchVars,
                   idleVars, eventVars, last_filename>>

Listens ==
    /\ PlayerStep("listen", IF play_over \/ ticks = DrainTicks THEN "close" ELSE "tick")
    /\ play_over' = FALSE
    /\ UNCHANGED <<audio_play_status, end_flag, index, ticks, play_event>>

Closes ==
    /\ PlayerStep("close", "recv")
    /\ audio_play_status' = 0
    /\ UNCHANGED <<end_flag, index, ticks, eventVars>>

audio_player_thread ==
    \/ TakesRequest \/ Begins \/ Enables \/ EnableFails \/ FrameSent
    \/ Polls \/ Tick \/ Listens \/ Closes
-----------------------------------------------------------------------------
Camera == FrameArrives \/ Skips \/ image_queue_malloc \/ image_frame_send

xgd_decoder_thread ==
    \/ InitsMail \/ image_queue_init
    \/ TakesFrame \/ DecodesNothing \/ xgd_send_str \/ image_queue_free

Wild == at["sender"] = "wild" /\ UNCHANGED scannerVars

ScannerNext ==
    \/ /\ at["sender"] # "wild"
       /\ \/ Camera \/ xgd_decoder_thread
          \/ Sends \/ TimesOut \/ Newline \/ ObeysCommand
          \/ audio_player_thread
    \/ Wild

ScannerSpec == ScannerInit /\ [][ScannerNext]_scannerVars
-----------------------------------------------------------------------------
TypeOK ==
    /\ at \in [Thread -> STRING]
    /\ ready \subseteq Buffers /\ lost \subseteq Buffers /\ flag \in [Buffers -> 0 .. 1]
    /\ pbuf \in Buffers \union {Null} /\ ptr \in Buffers \union {Null}
    /\ mb_img \in Seq(Buffers) /\ Len(mb_img) <= ImgSlots
    /\ scans \in 0 .. MaxScans /\ heap \subseteq 1 .. scans
    /\ mb_sender \in Seq(Text) /\ Len(mb_sender) <= SenderSlots
    /\ str \in Text \union {Null} /\ reported \in Seq(Text)
    /\ scan_status \in 0 .. 1 /\ backlight \in 0 .. 1
    /\ init_flag \in 0 .. BootTimeouts + 1 /\ scaner_ok \in 0 .. 1
    /\ play_event \in BOOLEAN /\ play_over \in BOOLEAN
    /\ last_filename \in Files \union {""}
    /\ audio_play_status \in 0 .. 1 /\ end_flag \in 0 .. 1
    /\ index \in 0 .. Frames /\ ticks \in 0 .. DrainTicks

\* How often the buffer is in the camera's hands, in the mail or in the decoder's
Owners(b) ==
    Cardinality({i \in DOMAIN mb_img : mb_img[i] = b})
        + Cardinality({x \in {"pbuf", "ptr"} : (x = "pbuf" /\ pbuf = b) \/ (x = "ptr" /\ ptr = b)})

(***************************************************************************)
(* An image buffer marked used has exactly one owner, a free one none: no  *)
(* frame is overwritten before it is decoded, and no buffer is lost to     *)
(* the pool although image_frame_send ignores what rt_mb_send returns,     *)
(* but those that are claimed while their bufferptr is NULL.               *)
(***************************************************************************)
FrameOwnedOnce ==
    \A b \in Buffers : Owners(b) = IF b \in lost THEN 0 ELSE flag[b]

(* Once image_queue_init has set a buffer up, the camera can use it again  *)
(* and again (xgdzbar.c:415 "imge queue full": only for now).              *)
NoFrameLost == ready \cap lost = {}

(* No wild pointer is freed.                                               *)
NoWildFree == at["sender"] # "wild"

(***************************************************************************)
(* A text mailed or in the sender's hands is allocated and in one place,   *)
(* and the host gets the texts in the order they were decoded, none twice. *)
(***************************************************************************)
TextOwnedOnce ==
    /\ Range(mb_sender) \union ({str} \ {Null}) \subseteq heap
    /\ str \notin Range(mb_sender)
    /\ Range(reported) \intersect heap = {}
    /\ \A i, j \in DOMAIN reported : i < j => reported[i] < reported[j]

(***************************************************************************)
(* The scanner is never switched off while a text waits for the sender:    *)
(* between the timeout of rt_mb_recv and the stop no text can arrive,      *)
(* because the sender's priority is above the decoder's.                   *)
(***************************************************************************)
StopsOnlyIdle == [][scan_status' < scan_status => mb_sender = <<>>]_scannerVars
=============================================================================
