---------------------------- MODULE MCNonVolatile ----------------------------
(***************************************************************************)
(* Four settings, two of them scanned, two serial numbers, two random      *)
(* keys; a serial number too long, one too long for w_buff, one with a     *)
(* character garbled on the wire, and a frame cut short with a whole one   *)
(* behind it.                                                              *)
(***************************************************************************)
EXTENDS NonVolatile

MCDefault == << <<"SET_COM_MODE", 0>>, <<"SET_CODE_TYPE", 7>>, <<"SET_SCAN_DELAY", 3>>,
               <<"SET_VOICE", 0>> >>

MCSets == {[key |-> "SET_COM_MODE", op |-> "write", param |-> 1],
           [key |-> "SET_SCAN_DELAY", op |-> "write", param |-> 5]}

MCSerials == {<<65>>, <<67, 66>>}

MCNoise == {Frame(170, <<65, 65, 65>>),
            Frame(170, <<65, 65, 65, 65>>),
            [Frame(170, <<65>>) EXCEPT ![8] = 66],
            <<1, 1, 1, 69, 170, 0, 2, 67>> \o Frame(170, <<65>>)}
=============================================================================
