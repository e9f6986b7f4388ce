-------------------------- MODULE MCProposalBuffer --------------------------
(***************************************************************************)
(* A small instance of ProposalBuffer.  A run is rough, with all faults,   *)
(* where failed workers call stop(); or calm, nothing raises, no getter is *)
(* cancelled and the user calls stop() once; or without faults, with one   *)
(* getter, started twice, with two calls of stop() that may overlap.       *)
(***************************************************************************)
EXTENDS ProposalBuffer

VARIABLE mode

Rough ==
    \/ \E w \in Workers : TimerRaises(w) \/ FillRaises(w)
    \/ \E p \in Proposals : ExpireRaises(p)
    \/ \E u \in Getters : Cancel(u)

MCInit == Init /\ mode \in {"rough", "calm", "restart"}
MCNext ==
    /\ Next
    /\ mode # "rough" => ~ Rough
    /\ mode # "restart" => starts' <= 1
    /\ stops' # stops => started /\ (stops = 0 \/ mode = "restart") /\ mode # "rough"
    /\ mode = "restart" => \A u \in Cancellable : getter'[u] = "idle"
    /\ UNCHANGED mode
MCSpec == MCInit /\ [][MCNext]_<<vars, mode>> /\ Fairness

\* GetterServed, when nothing raises and the buffer is started once: the end
\* of a stop() forgets what was requested before a start().
CalmServed == mode = "calm" => GetterServed

=============================================================================
