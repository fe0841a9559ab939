----------------------------- MODULE ValueTurns -----------------------------
(***************************************************************************)
(* What ValueBlocker promises its callers: for every value they get their  *)
(* turn one at a time and in the order in which they came.  Who has waited *)
(* too long goes away without having had a turn; he does not take the turn *)
(* of anybody else.  ValueBlocker is the detailed specification that is    *)
(* compared with this one.                                                 *)
(***************************************************************************)
EXTENDS Naturals

CONSTANT Values

VARIABLES
    last,       \* the callers are numbered as they come
    waiting,    \* waiting[v]: those who wait for their turn at v
    turn        \* turn[v]: whose turn it is; 0 if nobody's

vars == <<last, waiting, turn>>

Init ==
    /\ last = 0
    /\ waiting = [v \in Values |-> {}]
    /\ turn = [v \in Values |-> 0]

Join(v) ==
    /\ last' = last + 1
    /\ waiting' = [waiting EXCEPT ![v] = @ \cup {last + 1}]
    /\ UNCHANGED turn

TakeTurn(v, k) ==
    /\ turn[v] = 0
    /\ k \in waiting[v] /\ \A j \in waiting[v] : k <= j
    /\ turn' = [turn EXCEPT ![v] = k]
    /\ waiting' = [waiting EXCEPT ![v] = @ \ {k}]
    /\ UNCHANGED last

GiveUp(v, k) ==
    /\ k \in waiting[v]
    /\ waiting' = [waiting EXCEPT ![v] = @ \ {k}]
    /\ UNCHANGED <<last, turn>>

EndTurn(v) ==
    /\ turn[v] # 0
    /\ turn' = [turn EXCEPT ![v] = 0]
    /\ UNCHANGED <<last, waiting>>

Next ==
    \E v \in Values :
        \/ Join(v)
        \/ \E k \in waiting[v] : TakeTurn(v, k) \/ GiveUp(v, k)
        \/ EndTurn(v)

Spec == Init /\ [][Next]_vars
=============================================================================
