-------------------------- MODULE MCTurnExecution --------------------------
(* Small instances of TurnExecution for TLC. *)
EXTENDS TurnExecution, TLC

CONSTANT SecondCard

Symmetry == Permutations(Procs) \cup Permutations(KeyedOps)

Tried == UNION {{run[a].op} \cup {run[a].told[i] : i \in DOMAIN run[a].told} : a \in Attempts}
          \cup {journal[k].op : k \in Keys}
Draining == \E p \in Procs : proc[p].mode = "draining"

(* Everything at once would be too large.  A turn with keyed effects meets no  *)
(* second card, no "stop" and no restart of a version; one with two cards does *)
(* not meet a restart, and none meets "stop" and a restart at a time.          *)
Apart ==
    /\ Tried \cap KeyedOps # {} =>
         SecondCard \notin Tried /\ ~row.cancel /\ ~Draining
    /\ SecondCard \in Tried \/ row.cancel => ~Draining

(* With the money, a deadline is met in the first call of the first attempt.   *)
EarlyDeadline ==
    clock # "open" => row.attempt <= 1 /\ \A a \in Attempts : run[a].calls <= 1
=============================================================================
