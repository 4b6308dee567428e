----------------------------- MODULE WebhookStream -----------------------------
(***************************************************************************)
(* What the webhook stream promises: state.rs calls it best-effort.  An    *)
(* event is dropped or accepted at once; an accepted one is tried on the   *)
(* webhooks of its group, each of them given at most one result, and is    *)
(* then settled; after the service closes, it stops once every accepted    *)
(* event is settled.                                                       *)
(***************************************************************************)
CONSTANTS Events, Hooks

VARIABLES
    fate,    \* of each event: "unsent", "dropped", "accepted", "settled"
    result,  \* of each event on each webhook: "none", "delivered", "failed"
    phase    \* "serving", "closing", "stopped"

stream == <<fate, result, phase>>

Init ==
    /\ fate = [e \in Events |-> "unsent"]
    /\ result = [d \in Events \X Hooks |-> "none"]
    /\ phase = "serving"

Offer(e) ==
    /\ phase = "serving" /\ fate[e] = "unsent"
    /\ \E f \in {"dropped", "accepted"} : fate' = [fate EXCEPT ![e] = f]
    /\ UNCHANGED <<result, phase>>

\* The last result of an event may settle it.
Answer(e, h) ==
    /\ fate[e] = "accepted" /\ result[<<e, h>>] = "none"
    /\ \E r \in {"delivered", "failed"} : result' = [result EXCEPT ![<<e, h>>] = r]
    /\ \E f \in {"accepted", "settled"} : fate' = [fate EXCEPT ![e] = f]
    /\ UNCHANGED phase

\* No webhook wants it, or none that can be tried.
Settle(e) ==
    /\ fate[e] = "accepted"
    /\ fate' = [fate EXCEPT ![e] = "settled"]
    /\ UNCHANGED <<result, phase>>

Close == phase = "serving" /\ phase' = "closing" /\ UNCHANGED <<fate, result>>

Stop ==
    /\ phase = "closing" /\ \A e \in Events : fate[e] # "accepted"
    /\ phase' = "stopped" /\ UNCHANGED <<fate, result>>

Next ==
    \/ \E e \in Events : Offer(e) \/ Settle(e) \/ \E h \in Hooks : Answer(e, h)
    \/ Close \/ Stop

Finish(e) == Settle(e) \/ \E h \in Hooks : Answer(e, h)

Spec ==
    /\ Init /\ [][Next]_stream
    /\ \A e \in Events : WF_stream(Finish(e))
    /\ WF_stream(Stop)

=============================================================================
