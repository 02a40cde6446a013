----------------------------- MODULE RoundRobin -----------------------------
(***************************************************************************)
(* pick_round_robin of services/state-actix/src/store.rs: the sticky       *)
(* rotation over the accounts that select_connection found available.      *)
(* It remembers nothing but two fields of each account, when it was last   *)
(* used (an ISO timestamp in whole milliseconds) and how often in a row.   *)
(* One pick runs under the snapshot's write lock; which accounts are       *)
(* available differs from pick to pick (locks, exclusions, edits).         *)
(***************************************************************************)
EXTENDS Integers, FiniteSets

CONSTANTS N,            \* accounts 1..N, in the order of the connection list
          Priority,     \* their priority numbers
          StickyLimit,  \* settings.sticky_round_robin_limit
          Ticks,        \* milliseconds between two picks: a subset of {0, 1}
          MaxPicks      \* bound on picks

ASSUME RotationAssumption ==
    /\ N \in Nat \ {0}
    /\ Priority \in [1..N -> Nat]
    /\ StickyLimit \in Nat \ {0}
    /\ Ticks \in SUBSET {0, 1}
    /\ MaxPicks \in Nat

Pool == 1..N

VARIABLES
    lastUsed,  \* last_used_at of each account, 0 for None
    uses,      \* consecutive_use_count
    millis,    \* the current millisecond
    picks,     \* picks so far
    \* history, for the properties
    last,      \* the account chosen last, 0 before the first pick
    streak,    \* picks in a row that gave it the turn though another was available
    waited     \* picks in a row that passed each available account over

rotationVars == <<lastUsed, uses, millis, picks, last, streak, waited>>

RotationTypeOK ==
    /\ lastUsed \in [Pool -> 0..(MaxPicks + 1)]
    /\ uses \in [Pool -> 0..StickyLimit]
    /\ millis \in 1..(MaxPicks + 1)
    /\ picks \in 0..MaxPicks
    /\ last \in 0..N
    /\ streak \in 0..MaxPicks
    /\ waited \in [Pool -> 0..MaxPicks]

RotationInit ==
    /\ lastUsed = [i \in Pool |-> 0]
    /\ uses = [i \in Pool |-> 0]
    /\ millis = 1
    /\ picks = 0
    /\ last = 0
    /\ streak = 0
    /\ waited = [i \in Pool |-> 0]

-----------------------------------------------------------------------------
\* max_by on the timestamp, which keeps the last of equal elements; {} when
\* no available account was ever used.
MostRecent(available) ==
    LET used == {i \in available : lastUsed[i] # 0}
    IN {i \in used : \A j \in used \ {i} :
           lastUsed[j] < lastUsed[i] \/ (lastUsed[j] = lastUsed[i] /\ j < i)}

\* The most recent account, as long as its uses have not reached the limit.
Stay(available) == {i \in MostRecent(available) : uses[i] < StickyLimit}

\* Mutant: priority before recency.
LeastRecentByPriority(available) ==
    {i \in available : \A j \in available \ {i} :
        \/ Priority[i] < Priority[j]
        \/ Priority[i] = Priority[j] /\ i < j}

\* Mutant: any account but the most recent one, by priority.
LeastRecentAnyOther(available) ==
    LET others == available \ MostRecent(available)
    IN LeastRecentByPriority(IF others = {} THEN available ELSE others)

\* min_by on (ever used, timestamp, priority), which keeps the first of equal
\* elements.
LeastRecent(available) ==
    {i \in available : \A j \in available \ {i} :
        \/ lastUsed[i] < lastUsed[j]
        \/ /\ lastUsed[i] = lastUsed[j]
           /\ \/ Priority[i] < Priority[j]
              \/ Priority[i] = Priority[j] /\ i < j}

Chosen(available) ==
    IF Stay(available) # {} THEN Stay(available) ELSE LeastRecent(available)

\* Bookkeeping of the history variables.
Record(available, i) ==
    /\ last' = i
    /\ streak' = IF available = {i} THEN 0 ELSE IF i = last THEN streak + 1 ELSE 1
    /\ waited' = [j \in Pool |-> IF j \in available \ {i} THEN waited[j] + 1 ELSE 0]

Pick(available, tick) ==
    /\ picks < MaxPicks
    /\ millis' = millis + tick
    /\ \E i \in Chosen(available) :
          /\ uses' = [uses EXCEPT ![i] = IF Stay(available) # {} THEN @ + 1 ELSE 1]
          /\ lastUsed' = [lastUsed EXCEPT ![i] = millis']
          /\ Record(available, i)
    /\ picks' = picks + 1

RotationNext ==
    \E available \in SUBSET Pool \ {{}} : \E tick \in Ticks : Pick(available, tick)

RotationSpec == RotationInit /\ [][RotationNext]_rotationVars

-----------------------------------------------------------------------------
\* "Stay on the most recent account until it has been used sticky_limit times":
\* while another account is available, no account gets more turns in a row.
StickyLimitHonoured == streak <= StickyLimit

\* "Then move to the least recently used": an account that stays available is
\* passed over for one full turn of each other account at most, however the
\* others come and go.
BoundedWait == \A i \in Pool : waited[i] <= (N - 1) * StickyLimit

\* The turns are shared out: no more in a row than the limit, and none missed for
\* longer than a turn of everybody else.
TurnsAreFair == StickyLimitHonoured /\ BoundedWait
=============================================================================
