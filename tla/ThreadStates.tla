---------------------------- MODULE ThreadStates ----------------------------
(***************************************************************************)
(* Abstract specification of the Thread lifecycle (spec section 4.1): the  *)
(* only state changes a thread may ever make, whatever core or component   *)
(* causes them.  Several threads may change state in one step (a timer     *)
(* tick wakes sleepers and swaps the running thread at once), but each     *)
(* thread that changes takes one permitted transition.  DEAD and           *)
(* DELAYED_DEAD are terminal: a dead thread is never resumed.              *)
(***************************************************************************)
CONSTANTS Threads

VARIABLES state

States == {"UNDEFINED", "READY", "RUNNING", "BLOCKED", "SLEEPING",
           "DEAD", "DELAYED_DEAD"}

(* The permitted transitions, <<from, to>>.                                 *)
Transitions ==
    { <<"UNDEFINED", "READY">>,                         \* created, admitted
      <<"READY", "RUNNING">>,                           \* activate
      <<"RUNNING", "READY">>,                           \* deactivate
      <<"RUNNING", "SLEEPING">>, <<"RUNNING", "BLOCKED">>,
      <<"SLEEPING", "READY">>, <<"BLOCKED", "READY">> } \* wake, unblock
    \cup { <<s, "DEAD">> : s \in {"READY", "RUNNING", "BLOCKED", "SLEEPING"} }
    \cup { <<"BLOCKED", "DELAYED_DEAD">> }              \* non-cancellable kill

(* One step may take a thread through READY: a timer tick wakes a sleeper  *)
(* and dispatches it at once.                                              *)
Step(from, to) ==
    \/ <<from, to>> \in Transitions
    \/ from = "SLEEPING" /\ to = "RUNNING"

Init == state \in [Threads -> {"UNDEFINED", "RUNNING"}]

Next ==
    /\ state' # state
    /\ \A t \in Threads : state'[t] = state[t]
                          \/ Step(state[t], state'[t])

Spec == Init /\ [][Next]_state

=============================================================================
