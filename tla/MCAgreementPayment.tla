------------------------- MODULE MCAgreementPayment -------------------------
(***************************************************************************)
(* One agreement with everything that may go wrong, or two when no call    *)
(* raises, except that yagna refuses to terminate what is not approved.    *)
(***************************************************************************)
EXTENDS AgreementPayment

CONSTANT g1

VARIABLE calm

Rough ==
    \/ \E u \in Getters : GetRaises(u) \/ GetCancelled(u)
    \/ \E d \in Documents : DataRaises(d) \/ AcceptRaises(d)
    \/ \E c \in Closers, g \in Agreements :
        \/ CloseRaises(c, g) \/ DestroyAll(c, g, FALSE)
        \/ TerminateGivesUp(c, g) /\ (yagna[g] = "approved" \/ Ended(g))
    \/ PmRaises

MCInit == Init /\ calm \in BOOLEAN
MCNext ==
    /\ Next
    /\ IF calm THEN ~ Rough ELSE \A g \in Agreements \ {g1} : yagna'[g] = "none"
    /\ UNCHANGED calm
MCSpec == MCInit /\ [][MCNext]_<<vars, calm>> /\ Fairness

=============================================================================
