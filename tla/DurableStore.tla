---------------------------- MODULE DurableStore ----------------------------
(***************************************************************************)
(* What nullrouter-state promises the services that write to it, with the  *)
(* locks, the dirty flag, the temporary file and the background flush      *)
(* hidden.  A write is applied to the view that readers see; the file on   *)
(* disk always holds some earlier view, never an older one than before;    *)
(* a durable write is acknowledged only once the file holds it; and a      *)
(* restart brings back what the file holds, nothing less.                  *)
(***************************************************************************)
CONSTANTS Durable,   \* writes a user initiated: saved before they are acknowledged
          Deferred   \* hot-path writes: acknowledged from memory, saved later

VARIABLES view,      \* the writes a reader of the running service sees
          stable,    \* the writes in the state file
          acked      \* the writes whose caller was told "done"

absVars == <<view, stable, acked>>

AbsInit ==
    /\ view = {}
    /\ stable = {}
    /\ acked = {}

Apply(w) ==
    /\ view' = view \cup {w}
    /\ UNCHANGED <<stable, acked>>

\* The file is replaced by a whole view that holds everything it held before.
Save ==
    \E s \in SUBSET view :
        /\ stable \subseteq s
        /\ stable' = s
        /\ UNCHANGED <<view, acked>>

Acknowledge(w) ==
    /\ w \in view
    /\ w \in Durable => w \in stable
    /\ acked' = acked \cup {w}
    /\ UNCHANGED <<view, stable>>

Restart ==
    /\ view' = stable
    /\ UNCHANGED <<stable, acked>>

AbsNext ==
    \/ \E w \in Durable \cup Deferred : Apply(w) \/ Acknowledge(w)
    \/ Save
    \/ Restart

AbsSpec == AbsInit /\ [][AbsNext]_absVars
=============================================================================
