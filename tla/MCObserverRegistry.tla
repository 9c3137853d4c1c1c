------------------------- MODULE MCObserverRegistry -------------------------
(***************************************************************************)
(* Plans: every call of the interface on its own, with a shutdown; calls   *)
(* that meet in the mailbox; observers with shutdowns.                     *)
(***************************************************************************)
EXTENDS ObserverRegistry, TLC

CONSTANTS c1, c2, c3, o1, o2, s1, s2

Plan(names, watchers, leavers, closers) ==
  [names |-> names, active |-> TRUE, observers |-> watchers, unsubscribes |-> leavers, shutdowns |-> closers,
   hasty |-> FALSE, drops |-> FALSE]

Hasty(p) == [p EXCEPT !.hasty = TRUE]
Dropping(p) == [p EXCEPT !.drops = TRUE]

NoCalls == [c \in {} |-> c]

Alone == {Hasty(Plan(c1 :> n, {}, {}, {})) : n \in CallNames}
SignedOut == {[Plan(c1 :> n, {}, {}, {}) EXCEPT !.active = FALSE] :
                n \in {"hub_stock", "receive_hub_stock", "refresh_active_profile"}}

Together ==
  {Hasty(Plan(c1 :> "receive_hub_stock" @@ c2 :> n, {}, {}, {})) :
     n \in {"select_identity", "sign_out", "activate_identity", "import_identity"}}
  \cup {Plan(c1 :> "apply_hub_dispatch" @@ c2 :> "confirm_identity_removal" @@ c3 :> "hub_stock", {}, {}, {s1}),
        Dropping(Plan(c1 :> "report_hub_actual" @@ c2 :> "sign_out", {}, {}, {s1})),
        Plan(c1 :> "refresh_active_profile" @@ c2 :> "refresh_active_profile" @@ c3 :> "sign_out",
             {}, {}, {}),
        Hasty(Plan(c1 :> "refresh_active_profile" @@ c2 :> "begin_generated_identity", {}, {}, {s1})),
        Plan(c1 :> "begin_generated_identity" @@ c2 :> "cancel_generated_identity"
               @@ c3 :> "acknowledge_generated_identity", {}, {}, {})}

Watching ==
  {Dropping(Plan(NoCalls, {o1}, {o1}, {s1})), Hasty(Plan(NoCalls, {o1}, {o1}, {})),
   Plan(NoCalls, {o1, o2}, {}, {s1}), Plan(NoCalls, {o1, o2}, {o1}, {}),
   Dropping(Plan(NoCalls, {o1}, {}, {s1, s2})), Hasty(Plan(NoCalls, {}, {}, {s1, s2})),
   Plan(c1 :> "select_identity", {o1}, {}, {s1})}

MCPlans == Alone \cup SignedOut \cup Together \cup Watching

\* A generated key, its acknowledgement and the import of the saved key.
MCRecovery ==
  {Hasty(Plan(c1 :> "begin_generated_identity" @@ c2 :> "acknowledge_generated_identity"
          @@ c3 :> "import_identity", {}, {}, {}))}
=============================================================================
