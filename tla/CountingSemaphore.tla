------------------------- MODULE CountingSemaphore --------------------------
(***************************************************************************)
(* What a semaphore promises its users, without threads that run or wait   *)
(* in lists: a token is available, or held by a client, or is given        *)
(* directly to one that waits; nobody waits while one is available.        *)
(***************************************************************************)
EXTENDS Integers, FiniteSets

CONSTANTS Client,
          Rank    \* a token goes to a waiting client of the least rank

VARIABLES tokens, state    \* state[c] \in {"out", "waiting", "holding"}

vars == <<tokens, state>>

Waiting == { c \in Client : state[c] = "waiting" }

(* The waiting clients one of whom a token must go to. *)
FirstServed == { c \in Waiting : \A d \in Waiting : Rank[c] <= Rank[d] }

Init == tokens \in Nat /\ state = [c \in Client |-> "out"]

Take(c) ==
    /\ state[c] = "out" /\ tokens > 0
    /\ tokens' = tokens - 1
    /\ state' = [state EXCEPT ![c] = "holding"]

Wait(c) ==
    /\ state[c] = "out" /\ tokens = 0
    /\ state' = [state EXCEPT ![c] = "waiting"]
    /\ UNCHANGED tokens

GiveUp(c) ==
    /\ state[c] = "waiting"
    /\ state' = [state EXCEPT ![c] = "out"]
    /\ UNCHANGED tokens

(* A token comes from a client that holds one or from outside.  It becomes *)
(* available if nobody waits, else it goes straight to a waiting client.   *)
Release(c) ==
    /\ state[c] = "holding" /\ Waiting = {}
    /\ tokens' = tokens + 1
    /\ state' = [state EXCEPT ![c] = "out"]

Pass(c, w) ==
    /\ state[c] = "holding" /\ w \in FirstServed
    /\ state' = [state EXCEPT ![c] = "out", ![w] = "holding"]
    /\ UNCHANGED tokens

Produce ==
    /\ Waiting = {}
    /\ tokens' = tokens + 1
    /\ UNCHANGED state

ProduceFor(w) ==
    /\ w \in FirstServed
    /\ state' = [state EXCEPT ![w] = "holding"]
    /\ UNCHANGED tokens

(* Everyone who waits is sent away and the number of tokens set afresh. *)
Reset ==
    /\ tokens' \in Nat
    /\ state' = [c \in Client |-> IF state[c] = "waiting" THEN "out" ELSE state[c]]

Next ==
    \/ \E c \in Client : Take(c) \/ Wait(c) \/ GiveUp(c) \/ Release(c)
    \/ \E c, w \in Client : Pass(c, w)
    \/ Produce
    \/ \E w \in Client : ProduceFor(w)
    \/ Reset

Spec == Init /\ [][Next]_vars
=============================================================================
