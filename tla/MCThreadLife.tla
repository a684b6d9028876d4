----------------------------- MODULE MCThreadLife -----------------------------
(* Instances of ThreadLife for TLC. *)
EXTENDS ThreadLife

MCSizes == {1, 2}
MCThread == {Idle} \cup {ChunkAt(z, Tcb, c) : z \in 1 .. Pages - zone_page_cnt + 1,
                                              c \in 0 .. 1}
MCMaxMade == [s \in MCSizes |-> IF s = Tcb THEN 2 ELSE 1]
MCz_nmax == [s \in MCSizes |-> 2]
MCStackPages == [p \in 0 .. 3 |-> p]
MCApi == [p \in 0 .. 3 |-> CASE p = 0 -> {"sleep", "exit"}
                             [] p = 1 -> {"create", "delete", "sleep", "text"}
                             [] p = 2 -> {"wait"}
                             [] OTHER -> {}]

ASSUME MCOthersWait == OthersWait
=============================================================================
