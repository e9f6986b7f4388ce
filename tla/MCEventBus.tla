----------------------------- MODULE MCEventBus -----------------------------
(***************************************************************************)
(* Small instances of EventBus: a base class and a subclass of events, a   *)
(* handler and a once-handler of the subclass, and a handler of the base   *)
(* class whose filter function lets only the subclass through.             *)
(***************************************************************************)
EXTENDS EventBus

CONSTANTS base, sub, h1, h2, o1

MCTypes == {base, sub}
MCSuper == (base :> {base}) @@ (sub :> {base, sub})
MCHandlers == {h1, h2, o1}
MCTypeOf == (h1 :> sub) @@ (h2 :> base) @@ (o1 :> sub)
MCAccepts == [h \in MCHandlers |-> IF h = h2 THEN {sub} ELSE MCTypes]
MCOnce == {o1}

=============================================================================
