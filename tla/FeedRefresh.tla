----------------------------- MODULE FeedRefresh -----------------------------
(***************************************************************************)
(* The fire feed refresh of backend/fire/poller.py in every backend        *)
(* process: fetch and parse both GWIS feeds without a connection, then     *)
(* store them under a session advisory lock, tell the browsers, unlock.    *)
(* The parsers are those of backend/fire/parse.py.                         *)
(*                                                                         *)
(* GWIS publishes edition after edition; a stored row carries the edition  *)
(* it was fetched from.  Faults (an unusable answer, a failed statement, a *)
(* lost connection, a crash) are bounded by Faults.  A feed's count and    *)
(* last_success_at are set with its upstream_state and are left out.       *)
(***************************************************************************)
EXTENDS Naturals, Sequences, FiniteSets

CONSTANTS
    Procs,        \* backend processes
    Ids,          \* effis_id of the features
    Responses,    \* the feature lists GWIS may answer with, by edition
    FeatureLimit, \* FEATURE_LIMIT: a response this long is probably truncated
    MaxEdition,   \* bound: editions GWIS publishes
    MaxFaults     \* bound: faults in a behaviour

Nobody == "nobody"
DeadSession == "dead session"
Feeds == {"hotspots", "burnt_areas"}

\* What a parser finds a feature to be; of the usable ones, whether it was detected under 48 h ago.
Feature == [is : {"malformed", "outside", "future", "old", "recent"}, id : Ids]

ASSUME FeedAssumption ==
    /\ FeatureLimit \in Nat /\ MaxEdition \in Nat \ {0} /\ MaxFaults \in Nat
    /\ Responses \in [1..MaxEdition -> SUBSET Seq(Feature)]
    /\ Nobody \notin Procs /\ DeadSession \notin Procs

VARIABLES
    edition,  \* the edition GWIS serves now
    stored,   \* fire_hotspots and fire_burnt_areas: the edition of every row, 0 where there is none
    feeds,    \* FEEDS of every process: upstream_state and last_error
    proc,     \* where a refresh is and what it fetched
    lock,     \* holder of the advisory lock REFRESH_LOCK_KEY
    overtaken,\* the processes whose fetch is older than another one's store (history)
    faults    \* faults left

vars == <<edition, stored, feeds, proc, lock, overtaken, faults>>

-----------------------------------------------------------------------------
(* Parsing.                                                                *)

\* Whether the parser of a feed can use a feature; burnt areas carry no detection time that could be in the future.
Usable(feed, x) == x.is \in {"old", "recent"} \/ (x.is = "future" /\ feed = "burnt_areas")

\* The loop over the features keeps a usable one unless it has kept its id before; it drops and counts the others.
Keeps(feed, response, n) ==
    /\ Usable(feed, response[n])
    /\ \A m \in 1..(n - 1) : Usable(feed, response[m]) => response[m].id # response[n].id

Parse(feed, response) ==
    LET kept == {n \in 1..Len(response) : Keeps(feed, response, n)}
    IN  [ids |-> {response[n].id : n \in kept},
         recent |-> feed = "hotspots" /\ \E n \in kept : response[n].is = "recent",
         dropped |-> Len(response) - Cardinality(kept)]

\* MAX_DROPPED_SHARE: the format changed.
Unusable(parsed, total) == total > 0 /\ (parsed.ids = {} \/ 2 * parsed.dropped > total)

\* upstream_state(); burnt areas are 'live' whenever they were stored.
UpstreamState(feed, recent) ==
    IF feed = "hotspots" /\ ~recent THEN "no_recent_detections" ELSE "live"

Nothing == [from |-> 0, ids |-> {}, recent |-> FALSE, full |-> FALSE]
Fetched == [from : 1..MaxEdition, ids : SUBSET Ids, recent : BOOLEAN, full : BOOLEAN]

-----------------------------------------------------------------------------
States == {"unknown", "live", "no_recent_detections", "error"}
Errors == {"none", "failed", "truncated"}
Phases == {"idle", "areas", "acquire", "hotspots", "burnt_areas", "notify", "unlock"}
Locked == {"hotspots", "burnt_areas", "notify", "unlock"}

Idle == [at |-> "idle", got |-> [f \in Feeds |-> Nothing], linked |-> TRUE]
Fresh == [f \in Feeds |-> [state |-> "unknown", error |-> "none"]]
Failed == [state |-> "error", error |-> "failed"]

\* Set nothing but where the refresh of a process is.
Goes(p, phase) ==
    proc' = [proc EXCEPT ![p] = [at |-> phase, got |-> @.got, linked |-> @.linked]]

NextPhase(feed) == IF feed = "hotspots" THEN "burnt_areas" ELSE "notify"

\* Done with a feed, on a connection that is linked or not.
Leaves(p, feed, linked) ==
    proc' = [proc EXCEPT ![p] = [at |-> NextPhase(feed), got |-> [@.got EXCEPT ![feed] = Nothing], linked |-> linked]]

\* Mutant of Ends: a cycle that was skipped stores later what it fetched.
EndsLater(p) ==
    /\ proc' = [proc EXCEPT ![p] = [at |-> "acquire", got |-> @.got, linked |-> TRUE]]
    /\ overtaken' = overtaken \ {p}

\* A refresh is over: nothing of it is kept.
Ends(p) == proc' = [proc EXCEPT ![p] = Idle] /\ overtaken' = overtaken \ {p}

\* _fail().
Fails(p, feed) == feeds' = [feeds EXCEPT ![p] = [@ EXCEPT ![feed] = Failed]]

Fault == faults > 0 /\ faults' = faults - 1

Init ==
    /\ edition = 1
    /\ stored = [f \in Feeds |-> [i \in Ids |-> 0]]
    /\ feeds = [p \in Procs |-> Fresh]
    /\ proc = [p \in Procs |-> Idle]
    /\ lock = Nobody
    /\ overtaken = {}
    /\ faults = MaxFaults

\* External: GWIS publishes a new edition.
Publish ==
    /\ edition < MaxEdition
    /\ edition' = edition + 1
    /\ UNCHANGED <<stored, feeds, proc, lock, overtaken, faults>>

-----------------------------------------------------------------------------
(* refresh_once().                                                         *)

Before(feed) == IF feed = "hotspots" THEN "idle" ELSE "areas"
After(feed) == IF feed = "hotspots" THEN "areas" ELSE "acquire"

\* Take what a process fetched of a feed; the first fetch begins a refresh.
Takes(p, feed, fetched) ==
    proc' = [proc EXCEPT ![p] = [at |-> After(feed), got |-> [@.got EXCEPT ![feed] = fetched], linked |-> TRUE]]

\* _fetch_feed(): a usable answer.
FetchFeed(p, feed) ==
    /\ proc[p].at = Before(feed)
    /\ \E response \in Responses[edition] :
        LET parsed == Parse(feed, response) IN
        /\ ~Unusable(parsed, Len(response))
        /\ Takes(p, feed, [from |-> edition, ids |-> parsed.ids, recent |-> parsed.recent,
                           full |-> Len(response) >= FeatureLimit])
    /\ UNCHANGED <<edition, stored, feeds, lock, overtaken, faults>>

\* _fetch_feed(): no answer within the deadline, an HTTP error, too long, not JSON, not a FeatureCollection, or
\* too many features dropped.
FetchFails(p, feed) ==
    /\ Fault
    /\ proc[p].at = Before(feed)
    /\ Takes(p, feed, Nothing)
    /\ Fails(p, feed)
    /\ UNCHANGED <<edition, stored, lock, overtaken>>

\* pg_try_advisory_lock().
AcquireLock(p) ==
    /\ proc[p].at = "acquire"
    /\ lock = Nobody
    /\ lock' = p
    /\ Goes(p, "hotspots")
    /\ UNCHANGED <<edition, stored, feeds, overtaken, faults>>

\* Another process holds it: the cycle is skipped, and what was fetched is dropped.
SkipCycle(p) ==
    /\ proc[p].at = "acquire"
    /\ lock # Nobody
    /\ Ends(p)
    /\ UNCHANGED <<edition, stored, feeds, lock, faults>>

\* A feed that failed in this cycle is not stored.
StoreNothing(p, feed) ==
    /\ proc[p].at = feed
    /\ proc[p].got[feed] = Nothing
    /\ Leaves(p, feed, proc[p].linked)
    /\ UNCHANGED <<edition, stored, feeds, lock, overtaken, faults>>

\* Mutant of Upserted: the feed replaces the table, so a detection GWIS no longer lists disappears.
Replaced(old, got) == [i \in Ids |-> IF i \in got.ids THEN got.from ELSE 0]

\* INSERT ... ON CONFLICT DO UPDATE of every row; the other rows stay.
Upserted(old, got) == [i \in Ids |-> IF i \in got.ids THEN got.from ELSE old[i]]

\* The transaction of a feed commits: its rows change, and any fetch of another process is now older.
Commit(p, feed) ==
    /\ proc[p].at = feed
    /\ proc[p].got[feed] # Nothing
    /\ proc[p].linked
    /\ stored' = [stored EXCEPT ![feed] = Upserted(@, proc[p].got[feed])]
    /\ overtaken' = overtaken \cup {q \in Procs \ {p} : proc[q].at # "idle"}

\* Mutant of Succeeds: an error is shown until the process restarts.
SucceedsQuietly(p, feed) ==
    feeds' = [feeds EXCEPT ![p] = [@ EXCEPT ![feed] = IF @.state = "error" THEN @ ELSE
        [state |-> UpstreamState(feed, proc[p].got[feed].recent), error |-> "none"]]]

\* The end of _store_feed().
Succeeds(p, feed) ==
    feeds' = [feeds EXCEPT ![p] = [@ EXCEPT ![feed] =
        [state |-> UpstreamState(feed, proc[p].got[feed].recent),
         error |-> IF proc[p].got[feed].full THEN "truncated" ELSE "none"]]]

StoreFeed(p, feed) ==
    /\ Commit(p, feed)
    /\ Succeeds(p, feed)
    /\ Leaves(p, feed, proc[p].linked)
    /\ UNCHANGED <<edition, lock, faults>>

\* The transaction fails and is rolled back.
StoreFails(p, feed) ==
    /\ Fault
    /\ proc[p].at = feed /\ proc[p].got[feed] # Nothing /\ proc[p].linked
    /\ Fails(p, feed)
    /\ Leaves(p, feed, proc[p].linked)
    /\ UNCHANGED <<edition, stored, lock, overtaken>>

\* The connection is lost after the server has committed: the process takes a stored feed for a failed one.
StoredUnheard(p, feed) ==
    /\ Fault
    /\ Commit(p, feed)
    /\ Fails(p, feed)
    /\ Leaves(p, feed, FALSE)
    /\ lock' = DeadSession
    /\ UNCHANGED edition

\* Without its connection the process cannot store.
StoreUnlinked(p, feed) ==
    /\ proc[p].at = feed /\ proc[p].got[feed] # Nothing /\ ~proc[p].linked
    /\ Fails(p, feed)
    /\ Leaves(p, feed, proc[p].linked)
    /\ UNCHANGED <<edition, stored, lock, overtaken, faults>>

\* notify_data_changed().
Notify(p) ==
    /\ proc[p].at = "notify" /\ proc[p].linked
    /\ Goes(p, "unlock")
    /\ UNCHANGED <<edition, stored, feeds, lock, overtaken, faults>>

\* Mutant of Released: the lock stays with the pooled connection.
StillHeld == lock

\* pg_advisory_unlock().
Released == Nobody

\* The finally block, the end of the cycle, and after_refresh().
Unlock(p) ==
    /\ proc[p].at = "unlock" /\ proc[p].linked
    /\ lock' = Released
    /\ Ends(p)
    /\ UNCHANGED <<edition, stored, feeds, faults>>

\* Without its connection neither notify nor unlock succeeds: run() logs the exception and waits for the next cycle.
CycleFails(p) ==
    /\ proc[p].at \in {"notify", "unlock"} /\ ~proc[p].linked
    /\ Ends(p)
    /\ UNCHANGED <<edition, stored, feeds, lock, faults>>

-----------------------------------------------------------------------------
(* Faults of the environment.                                              *)

\* The connection that holds the lock breaks.
LoseConnection(p) ==
    /\ Fault
    /\ lock = p
    /\ lock' = DeadSession
    /\ proc' = [proc EXCEPT ![p] = [at |-> @.at, got |-> @.got, linked |-> FALSE]]
    /\ UNCHANGED <<edition, stored, feeds, overtaken>>

\* PostgreSQL notices that the session is gone.
ServerFrees ==
    /\ lock = DeadSession
    /\ lock' = Nobody
    /\ UNCHANGED <<edition, stored, feeds, proc, overtaken, faults>>

\* The process dies and starts again with an empty FEEDS.
Crash(p) ==
    /\ Fault
    /\ Ends(p)
    /\ feeds' = [feeds EXCEPT ![p] = Fresh]
    /\ lock' = IF lock = p THEN DeadSession ELSE lock
    /\ UNCHANGED <<edition, stored>>

-----------------------------------------------------------------------------
Store(p, feed) ==
    \/ StoreNothing(p, feed) \/ StoreFeed(p, feed) \/ StoreFails(p, feed)
    \/ StoredUnheard(p, feed) \/ StoreUnlinked(p, feed)

Fetch(p, feed) == FetchFeed(p, feed) \/ FetchFails(p, feed)

\* What a process does by itself.
Cycle(p) ==
    \/ \E feed \in Feeds : Fetch(p, feed) \/ Store(p, feed)
    \/ AcquireLock(p) \/ SkipCycle(p)
    \/ Notify(p) \/ Unlock(p) \/ CycleFails(p)

Next ==
    \/ Publish \/ ServerFrees
    \/ \E p \in Procs : Cycle(p) \/ LoseConnection(p) \/ Crash(p)

Spec == Init /\ [][Next]_vars

\* run() never ends and a fetch has its deadline; the database calls have none, and it is assumed that they return or
\* fail; the server notices a dead session.
Fairness == WF_vars(ServerFrees) /\ \A p \in Procs : WF_vars(Cycle(p))

LiveSpec == Spec /\ Fairness

-----------------------------------------------------------------------------
(* Properties.                                                             *)

\* Type invariant of the feed tables, the processes' memory and the lock.
TypeOK ==
    /\ edition \in 1..MaxEdition
    /\ stored \in [Feeds -> [Ids -> 0..MaxEdition]]
    /\ feeds \in [Procs -> [Feeds -> [state : States, error : Errors]]]
    /\ proc \in [Procs -> [at : Phases, got : [Feeds -> Fetched \cup {Nothing}], linked : BOOLEAN]]
    /\ lock \in Procs \cup {Nobody, DeadSession}
    /\ overtaken \subseteq Procs
    /\ faults \in Nat

\* "A failing feed never deletes data: the map keeps the last good copy" (poller.py:5).  No refresh, whatever
\* fails in it, makes a stored feature disappear, and a table changes only under the lock, to what its holder
\* fetched of that feed.
LastGoodCopy ==
    [][\A f \in Feeds : stored'[f] # stored[f] =>
        \E p \in Procs :
            /\ lock = p
            /\ \A i \in Ids : stored'[f][i] # stored[f][i] =>
                i \in proc[p].got[f].ids /\ stored'[f][i] = proc[p].got[f].from]_vars

\* A stored row goes back to an older edition only when a refresh was overtaken: another process stored between
\* its fetch, which holds no lock, and its own store.
BackwardsOnlyWhenOvertaken ==
    [][\A f \in Feeds, i \in Ids : stored'[f][i] < stored[f][i] => \E p \in overtaken : proc[p].at = f]_vars

\* Once the faults end, the map shows the newest edition of both feeds for good, whatever failed before: a lock of
\* a dead session, an interrupted cycle or an overtaken refresh holds it up only for a time.
NewestEditionArrives == <>[](\A f \in Feeds : \E i \in Ids : stored[f][i] = edition)

\* "with an honest status": once the faults end, a process stops reporting a feed as failed, unless another process
\* keeps doing the refreshes (a skipped cycle leaves the status of the process that skips as it was).
StatusRecovers ==
    \A p \in Procs :
        <>[](\A f \in Feeds : feeds[p][f].state # "error") \/ []<>(\E q \in Procs \ {p} : proc[q].at = "unlock")

\* A refresh is completed; a step is no fault.
Completed == \E p \in Procs : Unlock(p)
Faultless == faults' = faults

\* "Other processes skip the cycle" (poller.py:4) never comes to nobody refreshing: whatever lock a lost connection or a
\* crash left behind, refreshes go on being completed, and faults, of which there are finitely many, end.
RefreshesGoOn == []<><<Completed>>_vars /\ <>[][Faultless]_vars

-----------------------------------------------------------------------------
(* The inductive invariant behind the safety properties.                   *)

\* The store phase of a refresh: it holds the lock for as long as it has its connection.
LockHeld == \A p \in Procs : lock = p <=> proc[p].at \in Locked /\ proc[p].linked

\* A process is not without a connection before it holds the lock.
LinkedToStore == \A p \in Procs : proc[p].at \notin Locked => proc[p].linked

\* Only the refresh under way has fetched anything.
IdleIsEmpty == \A p \in Procs : proc[p].at = "idle" => proc[p].got = [f \in Feeds |-> Nothing]

\* GWIS has served whatever is stored or fetched.
Served ==
    /\ \A f \in Feeds, i \in Ids : stored[f][i] <= edition
    /\ \A p \in Procs, f \in Feeds : proc[p].got[f].from <= edition

\* What a refresh that was not overtaken has fetched is as new as the table.
NotOlder ==
    \A p \in Procs \ overtaken, f \in Feeds, i \in Ids :
        proc[p].got[f] # Nothing => stored[f][i] <= proc[p].got[f].from

IInv == TypeOK /\ LockHeld /\ LinkedToStore /\ IdleIsEmpty /\ Served /\ NotOlder

=============================================================================
