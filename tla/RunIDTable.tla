---------------------------- MODULE RunIDTable ----------------------------
(***************************************************************************)
(* What frps promises about run ids, without how the handover is done: a   *)
(* run id has at most one owner, a control takes a run id once, keeps it   *)
(* until another one takes it or it leaves itself, and never comes back to *)
(* a run id it has lost.  ControlSession implements this specification.    *)
(***************************************************************************)
CONSTANTS RunID, Ctl, None

VARIABLES owner,  \* the control work and visitor connections are sent to
          seen,   \* the controls that have taken a run id
          left    \* the controls whose login or session is over

tableVars == <<owner, seen, left>>

TableInit == /\ owner = [r \in RunID |-> None]
             /\ seen = {}
             /\ left = {}

Take(c, r) == /\ c \notin seen \cup left
              /\ seen' = seen \cup {c}
              /\ owner' = [owner EXCEPT ![r] = c]
              /\ UNCHANGED left

Leave(c) == /\ c \notin left
            /\ left' = left \cup {c}
            /\ owner' = [r \in RunID |-> IF owner[r] = c THEN None ELSE owner[r]]
            /\ UNCHANGED seen

Shutdown == /\ owner' = [r \in RunID |-> None]
            /\ UNCHANGED <<seen, left>>

TableNext == \/ \E c \in Ctl : Leave(c) \/ \E r \in RunID : Take(c, r)
             \/ Shutdown

TableSpec == TableInit /\ [][TableNext]_tableVars
=============================================================================
