------------------------------ MODULE Provision ------------------------------
(***************************************************************************)
(* The serial number and the proof that the device is genuine.  The host   *)
(* of the factory sends frames over USB; a frame PTE_DOWNLOAD_POSSN is a   *)
(* serial number, which is written to the security sector of the flash.    *)
(* Then random keys are burnt into one-time fuses, a text made from the    *)
(* serial number is encrypted with them and written to the same sector.    *)
(* At the next start the device is genuine if the ciphertext decrypts to   *)
(* the text; a device with a serial number no longer listens to the host.  *)
(*                                                                         *)
(* The flash, the fuses and the cipher are external.  A sector is erased   *)
(* as a whole and programmed from its first byte on, so a loss of power    *)
(* leaves it erased, or with its first record only; a record cut short     *)
(* fails its sum.  A zone of fuses that is burnt keeps its key.  A text is *)
(* decrypted by the key that encrypted it and by no other.                 *)
(*                                                                         *)
(* A text longer than w_buff is copied over what lies behind it on the     *)
(* stack.  What the program does then is undefined: the model ends, and    *)
(* says nothing of it, where down is "overrun".                            *)
(***************************************************************************)
EXTENDS Integers, Sequences

CONSTANTS Serials,           \* the serial numbers the host sends, in bytes
          Noise,             \* what else the host may send: other frames, parts of frames
          MaxMessages,       \* bound: messages sent between two starts
          FRAME_O1_DATA_MAX, \* the longest body
          POSSN_MAX_SIZE,    \* the longest serial number
          W_BUFF,            \* bytes of w_buff, the copy of it on the stack: 32
          TextChars,         \* characters of it the text is made from: 6
          IdChars,           \* characters of it the device id is made from: 8
          RandomKeys,        \* what generate_random may return
          None               \* no key, no id

ASSUME ProvisionAssumption ==
    /\ FRAME_O1_DATA_MAX \in Nat /\ POSSN_MAX_SIZE \in Nat /\ W_BUFF \in Nat
    /\ POSSN_MAX_SIZE <= W_BUFF /\ W_BUFF < FRAME_O1_DATA_MAX

SOH == 1                     \* SOH
PTE_LTEXT == 69              \* 0x45
ETX == 3
PTE_DOWNLOAD_POSSN == 170    \* 0xAA

Zones == 0 .. 2

\* a sector holds at most one record of a kind
Absent == <<>>
Record(content) == <<content>>
Content(record) == record[1]

Erased == [sn |-> Absent, cipher |-> Absent]

VARIABLES wire,             \* bytes sent and not read
          messages,         \* messages sent since the start
          parser,           \* ParaseFrameCtrl and Frame01
          sector,           \* the records of the security sector
          sector_buf,       \* pSectorBuf: the sector as it is to be
          secret_key,       \* the keys to be burnt
          otp, device_id,   \* the fuses
          down,             \* where sn_down is: off, idle, open, read, ..., or overrun
          security_status

provisionVars == <<wire, messages, parser, sector, sector_buf, secret_key, otp, device_id,
                   down, security_status>>

Body == 1 .. FRAME_O1_DATA_MAX
Zeros == [i \in Body |-> 0]

\* frame_01_open, and the static initialisation of the rest
NewParser == [Step |-> 0, SohCnt |-> 0, Bcc |-> 0, Cnt |-> 0,
              Valid |-> FALSE, cmd |-> 0, len |-> 0, buf |-> Zeros]

ProvisionInit ==
    /\ wire = <<>> /\ messages = 0
    /\ parser = NewParser
    /\ sector = Erased /\ sector_buf = Erased
    /\ secret_key = None
    /\ otp = [z \in Zones |-> None] /\ device_id = None
    /\ down = "off"
    /\ security_status = 0
-----------------------------------------------------------------------------
(* The frames: three SOH, the type, the command, two bytes of length, the  *)
(* body, ETX and the sum.                                                  *)

FrameData(cmd, body) ==
    <<PTE_LTEXT, cmd, Len(body) \div 256, Len(body) % 256>> \o body \o <<ETX>>

\* the sum of an SOH and the first i bytes of data
Sum(data) ==
    LET bcc[i \in 0 .. Len(data)] == IF i = 0 THEN SOH ELSE (bcc[i - 1] + data[i]) % 256
    IN  bcc

\* a frame whose last byte is sum
Framed(cmd, body, sum) == <<SOH, SOH, SOH>> \o FrameData(cmd, body) \o <<sum>>

\* the host's frame of a command
Frame(cmd, body) ==
    LET data == FrameData(cmd, body)
    IN  Framed(cmd, body, Sum(data)[Len(data)])

Messages == {Frame(PTE_DOWNLOAD_POSSN, sn) : sn \in Serials} \cup Noise

\* Mutant: the sum is not compared.
BugSums(p, data) == [p EXCEPT !.Step = 0, !.Valid = TRUE]

\* the last byte of a frame
Sums(p, data) == [p EXCEPT !.Step = 0, !.Valid = (p.Bcc = data)]

(***************************************************************************)
(* What a byte does to the parser.                                         *)
(***************************************************************************)
Takes(p, data) ==
    LET q == [p EXCEPT !.Bcc = (@ + data) % 256]
    IN  CASE p.Step = 0 ->
               IF data # SOH THEN [p EXCEPT !.SohCnt = 0]
               ELSE IF p.SohCnt + 1 < 3 THEN [p EXCEPT !.SohCnt = @ + 1]
               ELSE [p EXCEPT !.SohCnt = 0, !.Step = 1]
          [] p.Step = 1 ->
               IF data = PTE_LTEXT THEN [p EXCEPT !.Bcc = SOH + data, !.Step = 7]
               ELSE IF data = SOH THEN p
               ELSE [p EXCEPT !.Step = 0]
          [] p.Step = 7 -> [q EXCEPT !.Step = 8, !.cmd = data]
          [] p.Step = 8 -> [q EXCEPT !.Step = 9, !.len = data * 256]
          [] p.Step = 9 ->
               [q EXCEPT !.len = @ + data, !.Cnt = 0,
                         !.Step = IF p.len + data > FRAME_O1_DATA_MAX THEN 0
                                  ELSE IF p.len + data = 0 THEN 11 ELSE 10]
          [] p.Step = 10 ->
               [q EXCEPT !.buf[p.Cnt + 1] = data, !.Cnt = @ + 1,
                         !.Step = IF p.Cnt + 1 = p.len THEN 11 ELSE 10]
          [] p.Step = 11 ->
               IF data = ETX THEN [q EXCEPT !.Step = 12, !.Cnt = @ + data]
                             ELSE [p EXCEPT !.Step = 0]
          [] p.Step = 12 -> Sums(p, data)

(***************************************************************************)
(* The bytes of one read: the buffer is cleared, whatever it holds of a    *)
(* frame, and the bytes after a valid frame are dropped.                   *)
(***************************************************************************)
frame_01_parse(p, src) ==
    LET after[i \in 0 .. Len(src)] ==
            IF i = 0 THEN [p EXCEPT !.buf = Zeros]
            ELSE LET before == after[i - 1]
                 IN  IF before.Valid THEN before ELSE Takes(before, src[i])
    IN  after[Len(src)]

\* the string in the buffer, of at most Len characters; of a full buffer strlen runs on
\* behind its end, but that is longer than w_buff as it stands
Text01(p) ==
    LET ends == {i \in Body : p.buf[i] = 0}
        strlen == IF ends = {} THEN FRAME_O1_DATA_MAX
                  ELSE (CHOOSE i \in ends : \A j \in ends : i <= j) - 1
        w_len == IF strlen > p.len THEN p.len ELSE strlen
    IN  [i \in 1 .. w_len |-> p.buf[i]]
-----------------------------------------------------------------------------
(* The text, the cipher and the verdict.                                   *)

(***************************************************************************)
(* get_text runs i over the last TextChars places of the serial number and *)
(* seeds the generator with sn_buff[ret - i - 1]: the first ones, reversed.*)
(***************************************************************************)
get_text(sn) ==
    LET n == IF Len(sn) > TextChars THEN TextChars ELSE Len(sn)
    IN  [i \in 1 .. n |-> sn[n - i + 1]]

\* AES maps 16 bytes of the first two zones to its key
AesKey(fuses) == <<fuses[0], fuses[1]>>

efuse_aes_enc(fuses, text) == [key |-> AesKey(fuses), text |-> text]

Decrypts(fuses, cipher, text) ==
    cipher.text = <<>> \/ (cipher.key = AesKey(fuses) /\ cipher.text = text)

Genuine(s, fuses) ==
    /\ s.cipher # Absent
    /\ \/ Content(s.cipher).text = <<>>
       \/ s.sn # Absent /\ Decrypts(fuses, Content(s.cipher), get_text(Content(s.sn)))
-----------------------------------------------------------------------------
(* Start: security_init and xgd_sn_init.                                   *)

Boots ==
    /\ down = "off"
    /\ security_status' = IF Genuine(sector, otp) THEN 1 ELSE 0
    /\ down' = IF sector.sn = Absent THEN "open" ELSE "idle"
    /\ UNCHANGED <<wire, messages, parser, sector, sector_buf, secret_key, otp, device_id>>
-----------------------------------------------------------------------------
(* The host, and xgd_sn_thread.                                            *)

HostSends(m) ==
    /\ down # "off"
    /\ messages < MaxMessages
    /\ wire' = wire \o m
    /\ messages' = messages + 1
    /\ UNCHANGED <<parser, sector, sector_buf, secret_key, otp, device_id, down,
                   security_status>>

Downloads(p) == p.Valid /\ p.cmd = PTE_DOWNLOAD_POSSN

(***************************************************************************)
(* dev_usb_read returns the first n bytes.  The text of a download is      *)
(* copied into w_buff before its length is compared with POSSN_MAX_SIZE:   *)
(* one that is too long is refused if w_buff could hold it.                *)
(***************************************************************************)
Reads(n) ==
    LET p == frame_01_parse(parser, SubSeq(wire, 1, n))
        w_len == Len(Text01(p))
    IN  /\ down = "read"
        /\ wire' = SubSeq(wire, n + 1, Len(wire))
        /\ parser' = [p EXCEPT !.Valid = FALSE]
        /\ \/ /\ Downloads(p) => w_len \in POSSN_MAX_SIZE + 1 .. W_BUFF
              /\ UNCHANGED <<sector_buf, down>>
           \/ /\ Downloads(p) /\ w_len <= POSSN_MAX_SIZE
              /\ sector_buf' = [sector EXCEPT !.sn = Record(Text01(p))]
              /\ down' = "erase sn"
           \/ /\ Downloads(p) /\ w_len > W_BUFF
              /\ down' = "overrun"
              /\ UNCHANGED sector_buf
        /\ UNCHANGED <<messages, sector, secret_key, otp, device_id, security_status>>

(***************************************************************************)
(* Flash_Base_Write: the sector was read and changed in memory; it is      *)
(* erased and programmed.                                                  *)
(***************************************************************************)
Erases(from, to) ==
    /\ down = from
    /\ sector' = Erased
    /\ down' = to
    /\ UNCHANGED <<wire, messages, parser, sector_buf, secret_key, otp, device_id,
                   security_status>>

ProgramsSn(from, to) ==
    /\ down = from
    /\ sector' = [sector EXCEPT !.sn = sector_buf.sn]
    /\ down' = to
    /\ UNCHANGED <<wire, messages, parser, sector_buf, secret_key, otp, device_id,
                   security_status>>

ProgramsCipher(from, to) ==
    /\ down = from
    /\ sector' = [sector EXCEPT !.cipher = sector_buf.cipher]
    /\ down' = to
    /\ UNCHANGED <<wire, messages, parser, sector_buf, secret_key, otp, device_id,
                   security_status>>

Flash_Base_Write ==
    \/ Erases("erase sn", "program sn")
    \/ ProgramsSn("program sn", "program sn 2")
    \/ ProgramsCipher("program sn 2", "keys")
    \/ Erases("erase cipher", "program cipher")
    \/ ProgramsSn("program cipher", "program cipher 2")
    \/ ProgramsCipher("program cipher 2", "compare")
-----------------------------------------------------------------------------
(* injection_key.                                                          *)

generate_random ==
    /\ down = "keys"
    /\ \E r \in RandomKeys : secret_key' = r
    /\ down' = "key 0"
    /\ UNCHANGED <<wire, messages, parser, sector, sector_buf, otp, device_id, security_status>>

\* of a zone already burnt FH_CRYPTO_WriteOTPKey fails, which nobody asks for
efuse_write_key(zone, from, to) ==
    /\ down = from
    /\ otp' = IF otp[zone] = None THEN [otp EXCEPT ![zone] = secret_key] ELSE otp
    /\ down' = to
    /\ UNCHANGED <<wire, messages, parser, sector, sector_buf, secret_key, device_id,
                   security_status>>

\* Mutant: the text is encrypted with the keys just made.
BugEncrypts ==
    /\ down = "encrypt"
    /\ sector_buf' = [sector EXCEPT
           !.cipher = Record(efuse_aes_enc([z \in Zones |-> secret_key],
                                           get_text(Content(sector.sn))))]
    /\ down' = "erase cipher"
    /\ UNCHANGED <<wire, messages, parser, sector, secret_key, otp, device_id, security_status>>

Encrypts ==
    /\ down = "encrypt"
    /\ sector_buf' = [sector EXCEPT
           !.cipher = Record(efuse_aes_enc(otp, get_text(Content(sector.sn))))]
    /\ down' = "erase cipher"
    /\ UNCHANGED <<wire, messages, parser, sector, secret_key, otp, device_id, security_status>>

\* the ciphertext is read back; efuse_write_id burns the id once
Compares ==
    LET sn == Content(sector.sn)
        id == SubSeq(sn, IF Len(sn) > IdChars THEN Len(sn) - IdChars + 1 ELSE 1, Len(sn))
    IN  /\ down = "compare"
        /\ device_id' = IF Decrypts(otp, Content(sector.cipher), get_text(sn)) /\ device_id = None
                        THEN id ELSE device_id
        /\ down' = "reply"
        /\ UNCHANGED <<wire, messages, parser, sector, sector_buf, secret_key, otp,
                       security_status>>

\* frame_01_send tells the host the serial number was taken
Replies ==
    /\ down = "reply"
    /\ down' = "read"
    /\ UNCHANGED <<wire, messages, parser, sector, sector_buf, secret_key, otp, device_id,
                   security_status>>

PowerLost ==
    /\ down' = "off"
    /\ wire' = <<>> /\ messages' = 0
    /\ parser' = NewParser
    /\ sector_buf' = Erased /\ secret_key' = None
    /\ security_status' = 0
    /\ UNCHANGED <<sector, otp, device_id>>
-----------------------------------------------------------------------------
(* Properties.                                                             *)

(***************************************************************************)
(* When the host is told that its serial number was taken, a restart finds *)
(* the device genuine, whatever keys earlier attempts have burnt and       *)
(* wherever power was lost in them (injection_key encrypts with the fuses, *)
(* not with the keys it made).                                             *)
(***************************************************************************)
GenuineWhenTold == down = "reply" => Genuine(sector, otp)

(***************************************************************************)
(* The serial number in the flash is one the host sent, however its bytes  *)
(* were split into reads and mixed with parts of other frames, or an empty *)
(* one: of a frame split within its body frame_01_parse clears the part it *)
(* has, and the sum, taken byte by byte, still fits.                       *)
(***************************************************************************)
SerialWholeOrEmpty ==
    sector.sn # Absent => Content(sector.sn) \in Serials \cup {<<>>}

(***************************************************************************)
(* A device that no longer listens for a serial number is genuine.  Not    *)
(* so: power may be lost between the write of the serial number and that   *)
(* of the ciphertext (xgd_sn_init starts sn_down only without the former). *)
(***************************************************************************)
DeafIsGenuine == down = "idle" => Genuine(sector, otp)

(***************************************************************************)
(* A serial number that is too long is refused with status 1.  Not so: one *)
(* longer than w_buff has overrun it before the test.                      *)
(***************************************************************************)
TooLongIsRefused == down # "overrun"

\* The host's serial number is never stored empty.  Not so: see SerialWholeOrEmpty.
SerialAsSent == sector.sn # Absent => Content(sector.sn) \in Serials
=============================================================================
