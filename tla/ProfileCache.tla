---------------------------- MODULE ProfileCache ----------------------------
(***************************************************************************)
(* The cached profile of one account and the profile shown while it is     *)
(* active.  Several refreshes may be under way at once; each hears what    *)
(* some of the relays answer, and they complete in any order.  A deadline  *)
(* may cut a completion between the save and what follows it.  The row of  *)
(* the cache goes with the account (ON DELETE CASCADE).                    *)
(***************************************************************************)
EXTENDS Integers, FiniteSets

CONSTANTS Times, EventIds, Refreshes, Nobody

VARIABLES account,    \* "absent", "registered" or "active"
          cache,      \* the profile_cache row, or Nobody
          shown,      \* the event whose metadata the snapshot shows, or Nobody
          load,       \* ProfileLoadState
          refreshes,  \* outstanding profile tasks and what each has fetched
          saved       \* every event saved since the account was registered

profileVars == <<account, cache, shown, load, refreshes, saved>>

ProfileEvents == [at : Times, id : EventIds]
Waiting == [kind |-> "waiting", event |-> Nobody]
Fetched(e) == [kind |-> "fetched", event |-> e]
FetchFailed(status) == [kind |-> status, event |-> Nobody]

Cached(e, status) == [event |-> e, status |-> status]

\* Timestamps and identifiers are those of fixed-width integers, and no row is
\* not a row.
ASSUME ProfileAssumption ==
  /\ \E b \in Times \cup {0} : Times \subseteq 0 .. b
  /\ EventIds \subseteq Nat
  /\ Nobody \notin ProfileEvents
  /\ Nobody \notin [event : ProfileEvents, status : {"success", "offline", "invalid_data"}]
-----------------------------------------------------------------------------
\* The order of select_latest_kind0, and of the upsert in save_profile.
Newer(e, f) == e.at > f.at \/ (e.at = f.at /\ e.id < f.id)

SelectLatest(S) == IF S = {} THEN Nobody ELSE CHOOSE e \in S : \A f \in S \ {e} : Newer(e, f)

\* Mutant of SaveProfile: the last completion wins.
SaveLast(e) == Cached(e, "success")

SaveProfile(e) == IF cache = Nobody \/ Newer(e, cache.event) THEN Cached(e, "success") ELSE cache

RecordStatus(row, status) == IF row = Nobody THEN Nobody ELSE Cached(row.event, status)
-----------------------------------------------------------------------------
(***************************************************************************)
(* fetch_profile: no relay completed, or one event does not verify, and    *)
(* the whole fetch fails; otherwise the latest of the events heard.        *)
(***************************************************************************)
FetchAnswers ==
  {Fetched(SelectLatest(heard)) : heard \in SUBSET ProfileEvents}
    \cup {FetchFailed("offline"), FetchFailed("invalid_data")}

FetchProfile(t) ==
  /\ t \in DOMAIN refreshes /\ refreshes[t] = Waiting
  /\ \E answer \in FetchAnswers : refreshes' = [refreshes EXCEPT ![t] = answer]
  /\ UNCHANGED <<account, cache, shown, load, saved>>

BeginRefresh(t) ==
  /\ account = "active" /\ t \notin DOMAIN refreshes
  /\ load' = "loading"
  /\ refreshes' = [u \in DOMAIN refreshes \cup {t} |-> IF u = t THEN Waiting ELSE refreshes[u]]
  /\ UNCHANGED <<account, cache, shown, saved>>

Forget(t) == refreshes' = [u \in DOMAIN refreshes \ {t} |-> refreshes[u]]

Answered(t) == t \in DOMAIN refreshes /\ refreshes[t] # Waiting

\* Mutant of CompleteFetched: shows what was fetched, whatever the cache kept.
CompleteShowingFetched(t) ==
  LET e == refreshes[t].event IN
  /\ Answered(t) /\ refreshes[t].kind = "fetched" /\ e # Nobody
  /\ cache' = SaveProfile(e) /\ saved' = saved \cup {e}
  /\ shown' = e /\ load' = "fresh"
  /\ Forget(t) /\ UNCHANGED account

\* complete_successful_profile_fetch with a candidate: save, load the winner, show it.
CompleteFetched(t) ==
  LET e == refreshes[t].event IN
  /\ Answered(t) /\ refreshes[t].kind = "fetched" /\ e # Nobody
  /\ cache' = SaveProfile(e) /\ saved' = saved \cup {e}
  /\ shown' = cache'.event /\ load' = "fresh"
  /\ Forget(t) /\ UNCHANGED account

CompleteEmpty(t) ==
  /\ Answered(t) /\ refreshes[t] = Fetched(Nobody)
  /\ load' = IF shown = Nobody THEN "empty" ELSE "cached"
  /\ Forget(t) /\ UNCHANGED <<account, cache, shown, saved>>

\* A failed fetch: the state is settled first, the audit of it may be cut.
CompleteFailed(t) ==
  /\ Answered(t) /\ refreshes[t].kind # "fetched"
  /\ load' = "error"
  /\ cache' \in {cache, RecordStatus(cache, refreshes[t].kind)}
  /\ Forget(t) /\ UNCHANGED <<account, shown, saved>>

\* A fetched answer whose completion the deadline cuts, or storage refuses.
CompleteCut(t) ==
  LET e == refreshes[t].event IN
  /\ Answered(t) /\ refreshes[t].kind = "fetched" /\ e # Nobody
  /\ load' = IF load = "loading" THEN "error" ELSE load
  /\ \E kept \in BOOLEAN :
       LET row == IF kept THEN SaveProfile(e) ELSE cache IN
       /\ saved' = IF kept THEN saved \cup {e} ELSE saved
       /\ cache' \in (IF load = "loading" THEN {row, RecordStatus(row, "offline")} ELSE {row})
  /\ Forget(t) /\ UNCHANGED <<account, shown>>

Register ==
  /\ account = "absent" /\ account' = "registered"
  /\ UNCHANGED <<cache, shown, load, refreshes, saved>>

\* activate_identity: the session changes, so every profile task is cancelled.
ActivateAccount ==
  /\ account # "absent" /\ account' = "active"
  /\ shown' = IF cache = Nobody THEN Nobody ELSE cache.event
  /\ load' = IF cache = Nobody THEN "empty" ELSE "cached"
  /\ refreshes' = <<>>
  /\ UNCHANGED <<cache, saved>>

LeaveAccount ==
  /\ account = "active" /\ account' = "registered"
  /\ shown' = Nobody /\ load' = "empty" /\ refreshes' = <<>>
  /\ UNCHANGED <<cache, saved>>

RemoveAccount ==
  /\ account # "absent" /\ account' = "absent"
  /\ shown' = Nobody /\ load' = "empty" /\ refreshes' = <<>>
  /\ cache' = Nobody /\ saved' = {}

ProfileInit ==
  /\ account = "absent" /\ cache = Nobody /\ shown = Nobody /\ load = "empty"
  /\ refreshes = <<>> /\ saved = {}

ProfileNext ==
  \/ Register \/ ActivateAccount \/ LeaveAccount \/ RemoveAccount
  \/ \E t \in Refreshes : \/ BeginRefresh(t) \/ FetchProfile(t) \/ CompleteFetched(t)
                          \/ CompleteEmpty(t) \/ CompleteFailed(t) \/ CompleteCut(t)

ProfileSpec == ProfileInit /\ [][ProfileNext]_profileVars
-----------------------------------------------------------------------------
(***************************************************************************)
(* Whatever the order in which refreshes complete, and wherever a deadline *)
(* cuts them, the cache holds the latest of the events saved for the       *)
(* account: the newest, and of one second the one with the lowest          *)
(* identifier (save_profile, select_latest_kind0).                         *)
(***************************************************************************)
CacheKeepsTheLatest ==
  IF saved = {} THEN cache = Nobody ELSE cache # Nobody /\ cache.event = SelectLatest(saved)

(***************************************************************************)
(* While an account stays active the profile shown for it is never         *)
(* replaced by an older one, though a refresh that heard fewer relays      *)
(* completes last (complete_successful_profile_fetch).                     *)
(***************************************************************************)
ProfileNeverRegresses ==
  [][account = "active" /\ account' = "active" /\ shown # Nobody
       => shown' # Nobody /\ ~Newer(shown, shown')]_profileVars
=============================================================================
