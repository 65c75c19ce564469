---------------------------- MODULE DelayedCalls ----------------------------
(***************************************************************************)
(* What the users of CommandSystem rely on: a delayed command runs at most *)
(* once, never on a receiver that has died, and never after it has been    *)
(* cancelled.  When it runs, and which thread pushed it, is left open.     *)
(***************************************************************************)
CONSTANTS
    Calls,          \* the commands that can ever be pushed
    Receivers       \* the objects they may be pushed to

VARIABLES
    pending,        \* the calls that wait, each with its receiver
    over,           \* the calls that have run, were cancelled or lost their receiver
    alive           \* the receivers that exist

vars == <<pending, over, alive>>

CallsOf(S) == {p.call : p \in S}

Init ==
    /\ pending = {}
    /\ over = {}
    /\ alive \subseteq Receivers

Settle(S) ==
    /\ S \subseteq pending
    /\ pending' = pending \ S
    /\ over' = over \cup CallsOf(S)

Push(c, r) ==
    /\ c \notin over \cup CallsOf(pending)
    /\ r \in alive
    /\ pending' = pending \cup {[call |-> c, recv |-> r]}
    /\ UNCHANGED <<over, alive>>

Run(p) == p.recv \in alive /\ Settle({p}) /\ UNCHANGED alive

Cancel(S) == Settle(S) /\ UNCHANGED alive

\* A receiver takes all its calls with it.
Die(r) ==
    /\ r \in alive
    /\ alive' = alive \ {r}
    /\ Settle({p \in pending : p.recv = r})

Appear(r) ==
    /\ r \in Receivers \ alive
    /\ alive' = alive \cup {r}
    /\ UNCHANGED <<pending, over>>

Next ==
    \/ \E c \in Calls, r \in Receivers : Push(c, r)
    \/ \E p \in pending : Run(p)
    \/ \E S \in SUBSET pending : Cancel(S)
    \/ \E r \in Receivers : Die(r) \/ Appear(r)

Spec == Init /\ [][Next]_vars
=============================================================================
