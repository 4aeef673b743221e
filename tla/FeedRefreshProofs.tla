-------------------------- MODULE FeedRefreshProofs --------------------------
(***************************************************************************)
(* The feed refresh for any number of processes, features and editions:    *)
(* IInv (FeedRefresh) is inductive and implies the safety properties the   *)
(* run checks, and a process's status recovers while refreshes go on.      *)
(***************************************************************************)
EXTENDS FeedRefresh, TLAPS

Refresh == [at : Phases, got : [Feeds -> Fetched \cup {Nothing}], linked : BOOLEAN]

\* A parser returns ids of features and whether one of them is recent.
LEMMA ParseTypes ==
    ASSUME NEW feed \in Feeds, NEW response \in Seq(Feature)
    PROVE  Parse(feed, response).ids \subseteq Ids /\ Parse(feed, response).recent \in BOOLEAN
<1>. DEFINE kept == {n \in 1..Len(response) : Keeps(feed, response, n)}
<1>1. \A n \in kept : response[n].id \in Ids
  <2>. SUFFICES ASSUME NEW n \in 1..Len(response) PROVE response[n].id \in Ids
    OBVIOUS
  <2>1. response[n] \in Feature
    OBVIOUS
  <2>. QED
    BY <2>1 DEF Feature
<1>2. {response[n].id : n \in kept} \subseteq Ids
  BY <1>1
<1>3. (feed = "hotspots" /\ \E n \in kept : response[n].is = "recent") \in BOOLEAN
  OBVIOUS
<1>. QED
  BY <1>2, <1>3, Zenon DEF Parse

\* Nothing was fetched from no edition.
LEMMA NothingIsOld == Nothing.from = 0 /\ Nothing \notin Fetched
BY FeedAssumption DEF Nothing, Fetched

LEMMA IdleIsRefresh == Idle \in Refresh
BY DEF Idle, Refresh, Phases

LEMMA InitIInv == Init => IInv
<1>. SUFFICES ASSUME Init PROVE IInv
  OBVIOUS
<1>. USE FeedAssumption DEF Init
<1>1. TypeOK
  <2>1. feeds \in [Procs -> [Feeds -> [state : States, error : Errors]]]
    BY DEF Fresh, States, Errors
  <2>2. proc \in [Procs -> Refresh]
    BY IdleIsRefresh
  <2>. QED
    BY <2>1, <2>2 DEF TypeOK, Refresh
<1>2. LockHeld /\ LinkedToStore
  BY DEF LockHeld, LinkedToStore, Idle, Locked
<1>3. IdleIsEmpty /\ NotOlder
  BY DEF IdleIsEmpty, NotOlder, Idle
<1>4. Served
  BY NothingIsOld DEF Served, Idle
<1>. QED
  BY <1>1, <1>2, <1>3, <1>4 DEF IInv

-----------------------------------------------------------------------------
(* What the actions do to the record of a process.                         *)

\* A process goes on with what it fetched.
LEMMA GoesEffect ==
    ASSUME TypeOK, NEW p \in Procs, NEW phase \in Phases, Goes(p, phase)
    PROVE  /\ proc' \in [Procs -> Refresh]
           /\ proc'[p].at = phase /\ proc'[p].got = proc[p].got /\ proc'[p].linked = proc[p].linked
           /\ \A q \in Procs \ {p} : proc'[q] = proc[q]
BY DEF TypeOK, Goes, Refresh

\* A process is done with a feed.
LEMMA LeavesEffect ==
    ASSUME TypeOK, NEW p \in Procs, NEW feed \in Feeds, NEW linked \in BOOLEAN, Leaves(p, feed, linked)
    PROVE  /\ proc' \in [Procs -> Refresh]
           /\ proc'[p].at = NextPhase(feed) /\ proc'[p].linked = linked
           /\ proc'[p].got[feed] = Nothing
           /\ \A f \in Feeds \ {feed} : proc'[p].got[f] = proc[p].got[f]
           /\ \A q \in Procs \ {p} : proc'[q] = proc[q]
<1>1. NextPhase(feed) \in Phases
  BY DEF NextPhase, Phases
<1>2. proc[p].got \in [Feeds -> Fetched \cup {Nothing}] /\ proc \in [Procs -> Refresh]
  BY DEF TypeOK, Refresh
<1>3. proc' = [proc EXCEPT ![p] = [at |-> NextPhase(feed), got |-> [proc[p].got EXCEPT ![feed] = Nothing], linked |-> linked]]
  BY <1>2 DEF Leaves
<1>. QED
  BY <1>1, <1>2, <1>3 DEF Refresh

\* A refresh ends.
LEMMA EndsEffect ==
    ASSUME TypeOK, NEW p \in Procs, Ends(p)
    PROVE  /\ proc' \in [Procs -> Refresh]
           /\ proc'[p] = Idle
           /\ \A q \in Procs \ {p} : proc'[q] = proc[q]
           /\ overtaken' = overtaken \ {p}
BY IdleIsRefresh DEF TypeOK, Ends, Refresh

\* A process takes what it fetched.
LEMMA TakesEffect ==
    ASSUME TypeOK, NEW p \in Procs, NEW feed \in Feeds, NEW fetched \in Fetched \cup {Nothing}, Takes(p, feed, fetched)
    PROVE  /\ proc' \in [Procs -> Refresh]
           /\ proc'[p].at = After(feed) /\ proc'[p].linked
           /\ proc'[p].got[feed] = fetched
           /\ \A f \in Feeds \ {feed} : proc'[p].got[f] = proc[p].got[f]
           /\ \A q \in Procs \ {p} : proc'[q] = proc[q]
<1>1. After(feed) \in Phases
  BY DEF After, Phases
<1>2. proc[p].got \in [Feeds -> Fetched \cup {Nothing}] /\ proc \in [Procs -> Refresh]
  BY DEF TypeOK, Refresh
<1>3. proc' = [proc EXCEPT ![p] = [at |-> After(feed), got |-> [proc[p].got EXCEPT ![feed] = fetched], linked |-> TRUE]]
  BY <1>2 DEF Takes
<1>. QED
  BY <1>1, <1>2, <1>3 DEF Refresh

\* A feed is marked as failed.
LEMMA FailsTypes ==
    ASSUME TypeOK, NEW p \in Procs, NEW feed \in Feeds, Fails(p, feed)
    PROVE  feeds' \in [Procs -> [Feeds -> [state : States, error : Errors]]]
<1>1. Failed \in [state : States, error : Errors]
  BY DEF Failed, States, Errors
<1>2. feeds[p] \in [Feeds -> [state : States, error : Errors]]
  BY DEF TypeOK
<1>3. feeds' = [feeds EXCEPT ![p] = [feeds[p] EXCEPT ![feed] = Failed]]
  BY <1>2 DEF TypeOK, Fails
<1>. QED
  BY <1>1, <1>2, <1>3 DEF TypeOK

-----------------------------------------------------------------------------
(* Each group of actions preserves the invariant.                          *)

\* A fetch takes nothing, or an answer of the edition GWIS serves.
LEMMA TakeKeeps ==
    ASSUME IInv, NEW p \in Procs, NEW feed \in Feeds, NEW fetched \in Fetched \cup {Nothing},
           proc[p].at = Before(feed), fetched # Nothing => fetched.from = edition,
           Takes(p, feed, fetched), UNCHANGED <<edition, stored, lock, overtaken>>,
           feeds' \in [Procs -> [Feeds -> [state : States, error : Errors]]], faults' \in Nat
    PROVE  IInv'
<1>. USE DEF IInv
<1>1. /\ proc' \in [Procs -> Refresh]
      /\ proc'[p].at = After(feed) /\ proc'[p].linked
      /\ proc'[p].got[feed] = fetched
      /\ \A f \in Feeds \ {feed} : proc'[p].got[f] = proc[p].got[f]
      /\ \A q \in Procs \ {p} : proc'[q] = proc[q]
  BY TakesEffect
<1>2. TypeOK'
  BY <1>1 DEF TypeOK, Refresh
<1>3. LockHeld' /\ LinkedToStore'
  BY <1>1 DEF LockHeld, LinkedToStore, After, Before, Locked
<1>4. IdleIsEmpty'
  BY <1>1 DEF IdleIsEmpty, After
<1>5. fetched.from <= edition
  BY NothingIsOld DEF TypeOK
<1>6. Served'
  BY <1>1, <1>5 DEF Served
<1>7. NotOlder'
  <2>. SUFFICES ASSUME NEW q \in Procs \ overtaken, NEW f \in Feeds, NEW i \in Ids, proc'[q].got[f] # Nothing
                PROVE  stored[f][i] <= proc'[q].got[f].from
    BY DEF NotOlder
  <2>1. CASE q = p /\ f = feed
    BY <1>1, <2>1 DEF Served
  <2>2. CASE ~(q = p /\ f = feed)
    <3>1. proc'[q].got[f] = proc[q].got[f]
      BY <1>1, <2>2
    <3>. QED
      BY <3>1 DEF NotOlder
  <2>. QED
    BY <2>1, <2>2
<1>. QED
  BY <1>2, <1>3, <1>4, <1>6, <1>7

\* The end of a refresh that gives the lock up, or had lost it.
LEMMA EndKeeps ==
    ASSUME IInv, NEW p \in Procs, Ends(p), UNCHANGED <<edition, stored>>,
           lock' \in {lock, Nobody, DeadSession}, lock' = lock => lock # p, lock \in Procs \ {p} => lock' = lock,
           feeds' \in [Procs -> [Feeds -> [state : States, error : Errors]]], faults' \in Nat
    PROVE  IInv'
<1>. USE DEF IInv
<1>1. /\ proc' \in [Procs -> Refresh]
      /\ proc'[p] = Idle
      /\ \A q \in Procs \ {p} : proc'[q] = proc[q]
      /\ overtaken' = overtaken \ {p}
  BY EndsEffect
<1>2. TypeOK'
  BY <1>1 DEF TypeOK, Refresh
<1>3. LockHeld' /\ LinkedToStore'
  <2>1. lock' # p
    BY FeedAssumption
  <2>2. \A q \in Procs \ {p} : lock' = q <=> lock = q
    BY FeedAssumption
  <2>3. proc'[p].at = "idle" /\ proc'[p].linked
    BY <1>1 DEF Idle
  <2>4. LockHeld'
    BY <1>1, <2>1, <2>2, <2>3 DEF LockHeld, Locked
  <2>5. LinkedToStore'
    BY <1>1, <2>3 DEF LinkedToStore
  <2>. QED
    BY <2>4, <2>5
<1>4. IdleIsEmpty'
  BY <1>1 DEF IdleIsEmpty, Idle
<1>5. \A f \in Feeds : proc'[p].got[f] = Nothing
  BY <1>1 DEF Idle
<1>6. Served'
  <2>1. 0 <= edition
    BY FeedAssumption DEF TypeOK
  <2>2. \A q \in Procs, f \in Feeds : proc'[q].got[f] = proc[q].got[f] \/ proc'[q].got[f] = Nothing
    BY <1>1, <1>5
  <2>. QED
    BY <2>1, <2>2, NothingIsOld DEF Served
<1>7. NotOlder'
  BY <1>1, <1>5 DEF NotOlder
<1>. QED
  BY <1>2, <1>3, <1>4, <1>6, <1>7

\* A step of the store phase that writes nothing and keeps the lock as it is.
LEMMA LeaveKeeps ==
    ASSUME IInv, NEW p \in Procs, NEW feed \in Feeds, proc[p].at = feed,
           Leaves(p, feed, proc[p].linked), UNCHANGED <<edition, stored, lock, overtaken>>,
           feeds' \in [Procs -> [Feeds -> [state : States, error : Errors]]], faults' \in Nat
    PROVE  IInv'
<1>. USE DEF IInv
<1>0. proc[p].linked \in BOOLEAN
  BY DEF TypeOK
<1>1. /\ proc' \in [Procs -> Refresh]
      /\ proc'[p].at = NextPhase(feed) /\ proc'[p].linked = proc[p].linked
      /\ proc'[p].got[feed] = Nothing
      /\ \A f \in Feeds \ {feed} : proc'[p].got[f] = proc[p].got[f]
      /\ \A q \in Procs \ {p} : proc'[q] = proc[q]
  BY <1>0, LeavesEffect
<1>2. TypeOK'
  BY <1>1 DEF TypeOK, Refresh
<1>3. LockHeld' /\ LinkedToStore'
  BY <1>1 DEF LockHeld, LinkedToStore, NextPhase, Locked, Feeds
<1>4. IdleIsEmpty'
  BY <1>1 DEF IdleIsEmpty, NextPhase
<1>5. \A q \in Procs, f \in Feeds : proc'[q].got[f] = proc[q].got[f] \/ proc'[q].got[f] = Nothing
  BY <1>1
<1>6. Served'
  <2>1. 0 <= edition
    BY FeedAssumption DEF TypeOK
  <2>. QED
    BY <1>5, <2>1, NothingIsOld DEF Served
<1>7. NotOlder'
  BY <1>5 DEF NotOlder
<1>. QED
  BY <1>2, <1>3, <1>4, <1>6, <1>7

\* What a commit writes: rows of the answer, and nothing older unless the refresh was overtaken.
LEMMA CommitEffect ==
    ASSUME IInv, NEW p \in Procs, NEW feed \in Feeds, Commit(p, feed)
    PROVE  /\ stored' \in [Feeds -> [Ids -> 0..MaxEdition]]
           /\ \A f \in Feeds \ {feed} : stored'[f] = stored[f]
           /\ \A i \in Ids : stored'[feed][i] =
                IF i \in proc[p].got[feed].ids THEN proc[p].got[feed].from ELSE stored[feed][i]
           /\ proc[p].got[feed] \in Fetched
           /\ lock = p
<1>. USE DEF IInv
<1>1. proc[p].got[feed] \in Fetched
  BY DEF TypeOK, Commit
<1>2. proc[p].got[feed].from \in 0..MaxEdition
  BY <1>1, FeedAssumption DEF Fetched
<1>3. stored' = [stored EXCEPT ![feed] = Upserted(stored[feed], proc[p].got[feed])]
  BY DEF Commit, TypeOK
<1>4. stored[feed] \in [Ids -> 0..MaxEdition]
  BY DEF TypeOK
<1>5. Upserted(stored[feed], proc[p].got[feed]) \in [Ids -> 0..MaxEdition]
  BY <1>2, <1>4 DEF Upserted
<1>6. stored' \in [Feeds -> [Ids -> 0..MaxEdition]]
  BY <1>3, <1>5 DEF TypeOK
<1>7. stored'[feed] = Upserted(stored[feed], proc[p].got[feed])
  BY <1>3 DEF TypeOK
<1>8. lock = p
  BY DEF Commit, LockHeld, Locked, Feeds
<1>. QED
  BY <1>1, <1>3, <1>6, <1>7, <1>8 DEF TypeOK, Upserted

\* A commit, heard or not.
LEMMA CommitKeeps ==
    ASSUME IInv, NEW p \in Procs, NEW feed \in Feeds, NEW linked \in BOOLEAN,
           Commit(p, feed), Leaves(p, feed, linked), UNCHANGED edition,
           lock' = IF linked THEN lock ELSE DeadSession,
           feeds' \in [Procs -> [Feeds -> [state : States, error : Errors]]], faults' \in Nat
    PROVE  IInv'
<1>. USE DEF IInv
<1>1. /\ proc' \in [Procs -> Refresh]
      /\ proc'[p].at = NextPhase(feed) /\ proc'[p].linked = linked
      /\ proc'[p].got[feed] = Nothing
      /\ \A f \in Feeds \ {feed} : proc'[p].got[f] = proc[p].got[f]
      /\ \A q \in Procs \ {p} : proc'[q] = proc[q]
  BY LeavesEffect
<1>2. /\ stored' \in [Feeds -> [Ids -> 0..MaxEdition]]
      /\ \A f \in Feeds \ {feed} : stored'[f] = stored[f]
      /\ \A i \in Ids : stored'[feed][i] =
            IF i \in proc[p].got[feed].ids THEN proc[p].got[feed].from ELSE stored[feed][i]
      /\ lock = p
  BY CommitEffect
<1>3. overtaken' = overtaken \cup {q \in Procs \ {p} : proc[q].at # "idle"}
  BY DEF Commit
<1>4. TypeOK'
  BY <1>1, <1>2, <1>3 DEF TypeOK, Refresh
<1>5. LockHeld' /\ LinkedToStore'
  <2>1. \A q \in Procs \ {p} : lock # q /\ lock' # q
    BY <1>2, FeedAssumption
  <2>2. lock' = p <=> linked
    BY <1>2, FeedAssumption
  <2>3. NextPhase(feed) \in Locked
    BY DEF NextPhase, Locked
  <2>. QED
    BY <1>1, <2>1, <2>2, <2>3 DEF LockHeld, LinkedToStore
<1>6. IdleIsEmpty'
  BY <1>1 DEF IdleIsEmpty, NextPhase
<1>7. \A q \in Procs, f \in Feeds : proc'[q].got[f] = proc[q].got[f] \/ proc'[q].got[f] = Nothing
  BY <1>1
<1>8. Served'
  <2>1. \A f \in Feeds, i \in Ids : stored'[f][i] <= edition
    BY <1>2 DEF Served
  <2>2. 0 <= edition
    BY FeedAssumption DEF TypeOK
  <2>. QED
    BY <1>7, <2>1, <2>2, NothingIsOld DEF Served
<1>9. NotOlder'
  <2>. SUFFICES ASSUME NEW q \in Procs \ overtaken', NEW f \in Feeds, NEW i \in Ids, proc'[q].got[f] # Nothing
                PROVE  stored'[f][i] <= proc'[q].got[f].from
    BY DEF NotOlder
  <2>1. CASE q = p
    <3>1. f # feed /\ proc'[q].got[f] = proc[q].got[f] /\ q \notin overtaken
      BY <1>1, <1>3, <2>1
    <3>. QED
      BY <1>2, <3>1 DEF NotOlder
  <2>2. CASE q # p
    <3>1. proc[q].at = "idle" /\ proc'[q] = proc[q]
      BY <1>1, <1>3, <2>2
    <3>. QED
      BY <3>1 DEF IdleIsEmpty
  <2>. QED
    BY <2>1, <2>2
<1>. QED
  BY <1>4, <1>5, <1>6, <1>8, <1>9

-----------------------------------------------------------------------------
LEMMA NextIInv == IInv /\ [Next]_vars => IInv'
<1>. SUFFICES ASSUME IInv, [Next]_vars PROVE IInv'
  OBVIOUS
<1>. USE DEF IInv
<1>0. feeds \in [Procs -> [Feeds -> [state : States, error : Errors]]] /\ faults \in Nat
  BY DEF TypeOK
<1>F. Fault => faults' \in Nat
  BY <1>0 DEF Fault
<1>1. CASE Publish
  <2>1. edition' = edition + 1 /\ edition' \in 1..MaxEdition /\ edition \in Nat
    BY <1>1, FeedAssumption DEF Publish, TypeOK
  <2>2. TypeOK'
    BY <1>1, <2>1 DEF Publish, TypeOK
  <2>3. Served'
    <3>1. /\ \A f \in Feeds, i \in Ids : stored[f][i] \in Nat
          /\ \A p \in Procs, f \in Feeds : proc[p].got[f].from \in Nat
      BY NothingIsOld DEF TypeOK, Fetched
    <3>. QED
      BY <1>1, <2>1, <3>1 DEF Publish, Served
  <2>. QED
    BY <1>1, <2>2, <2>3 DEF Publish, LockHeld, LinkedToStore, IdleIsEmpty, NotOlder
<1>2. CASE ServerFrees
  BY <1>2, FeedAssumption DEF ServerFrees, TypeOK, LockHeld, LinkedToStore, IdleIsEmpty, Served, NotOlder
<1>3. ASSUME NEW p \in Procs, NEW feed \in Feeds, FetchFeed(p, feed) PROVE IInv'
  <2>1. PICK response \in Responses[edition] :
            Takes(p, feed, [from |-> edition, ids |-> Parse(feed, response).ids,
                            recent |-> Parse(feed, response).recent, full |-> Len(response) >= FeatureLimit])
    BY <1>3 DEF FetchFeed
  <2>. DEFINE fetched == [from |-> edition, ids |-> Parse(feed, response).ids,
                          recent |-> Parse(feed, response).recent, full |-> Len(response) >= FeatureLimit]
  <2>2. response \in Seq(Feature)
    BY FeedAssumption DEF TypeOK
  <2>3. fetched \in Fetched /\ fetched.from = edition
    BY <2>2, ParseTypes DEF Fetched, TypeOK
  <2>. HIDE DEF fetched
  <2>. QED
    BY <1>0, <1>3, <2>1, <2>3, TakeKeeps DEF FetchFeed, fetched
<1>4. ASSUME NEW p \in Procs, NEW feed \in Feeds, FetchFails(p, feed) PROVE IInv'
  BY <1>F, <1>4, TakeKeeps, FailsTypes DEF FetchFails
<1>5. ASSUME NEW p \in Procs, AcquireLock(p) PROVE IInv'
  <2>1. /\ proc' \in [Procs -> Refresh]
        /\ proc'[p].at = "hotspots" /\ proc'[p].got = proc[p].got /\ proc'[p].linked = proc[p].linked
        /\ \A q \in Procs \ {p} : proc'[q] = proc[q]
    BY <1>5, GoesEffect DEF AcquireLock, Phases
  <2>2. proc[p].linked
    BY <1>5 DEF AcquireLock, LinkedToStore, Locked
  <2>3. LockHeld' /\ LinkedToStore'
    BY <1>5, <2>1, <2>2, FeedAssumption DEF AcquireLock, LockHeld, LinkedToStore, Locked
  <2>4. TypeOK'
    BY <1>5, <2>1 DEF AcquireLock, TypeOK, Refresh
  <2>. QED
    BY <1>5, <2>1, <2>3, <2>4 DEF AcquireLock, IdleIsEmpty, Served, NotOlder
<1>6. ASSUME NEW p \in Procs, SkipCycle(p) \/ CycleFails(p) PROVE IInv'
  <2>1. lock # p
    BY <1>6 DEF SkipCycle, CycleFails, LockHeld, Locked
  <2>. QED
    BY <1>0, <1>6, <2>1, EndKeeps DEF SkipCycle, CycleFails
<1>7. ASSUME NEW p \in Procs, Unlock(p) PROVE IInv'
  <2>1. lock = p /\ lock' = Nobody
    BY <1>7 DEF Unlock, Released, LockHeld, Locked
  <2>. QED
    BY <1>0, <1>7, <2>1, EndKeeps, FeedAssumption DEF Unlock
<1>8. ASSUME NEW p \in Procs, Crash(p) PROVE IInv'
  <2>1. feeds' \in [Procs -> [Feeds -> [state : States, error : Errors]]]
    BY <1>0, <1>8 DEF Crash, Fresh, States, Errors
  <2>2. lock' = IF lock = p THEN DeadSession ELSE lock
    BY <1>8 DEF Crash
  <2>. QED
    BY <1>F, <1>8, <2>1, <2>2, EndKeeps, FeedAssumption DEF Crash
<1>9. ASSUME NEW p \in Procs, NEW feed \in Feeds, StoreNothing(p, feed) PROVE IInv'
  BY <1>0, <1>9, LeaveKeeps DEF StoreNothing
<1>10. ASSUME NEW p \in Procs, NEW feed \in Feeds, StoreFails(p, feed) PROVE IInv'
  BY <1>F, <1>10, LeaveKeeps, FailsTypes DEF StoreFails
<1>11. ASSUME NEW p \in Procs, NEW feed \in Feeds, StoreUnlinked(p, feed) PROVE IInv'
  BY <1>0, <1>11, LeaveKeeps, FailsTypes DEF StoreUnlinked
<1>12. ASSUME NEW p \in Procs, NEW feed \in Feeds, StoreFeed(p, feed) PROVE IInv'
  <2>1. UpstreamState(feed, proc[p].got[feed].recent) \in States
    BY DEF UpstreamState, States
  <2>2. (IF proc[p].got[feed].full THEN "truncated" ELSE "none") \in Errors
    BY DEF Errors
  <2>3. feeds' \in [Procs -> [Feeds -> [state : States, error : Errors]]]
    BY <1>0, <1>12, <2>1, <2>2 DEF StoreFeed, Succeeds
  <2>4. proc[p].linked = TRUE
    BY <1>12 DEF StoreFeed, Commit, TypeOK
  <2>. QED
    BY <1>0, <1>12, <2>3, <2>4, CommitKeeps DEF StoreFeed
<1>13. ASSUME NEW p \in Procs, NEW feed \in Feeds, StoredUnheard(p, feed) PROVE IInv'
  BY <1>F, <1>13, CommitKeeps, FailsTypes DEF StoredUnheard
<1>14. ASSUME NEW p \in Procs, Notify(p) PROVE IInv'
  <2>1. /\ proc' \in [Procs -> Refresh]
        /\ proc'[p].at = "unlock" /\ proc'[p].got = proc[p].got /\ proc'[p].linked = proc[p].linked
        /\ \A q \in Procs \ {p} : proc'[q] = proc[q]
    BY <1>14, GoesEffect DEF Notify, Phases
  <2>2. LockHeld' /\ LinkedToStore'
    BY <1>14, <2>1 DEF Notify, LockHeld, LinkedToStore, Locked
  <2>3. TypeOK'
    BY <1>14, <2>1 DEF Notify, TypeOK, Refresh
  <2>. QED
    BY <1>14, <2>1, <2>2, <2>3 DEF Notify, IdleIsEmpty, Served, NotOlder
<1>15. ASSUME NEW p \in Procs, LoseConnection(p) PROVE IInv'
  <2>1. /\ proc' \in [Procs -> Refresh]
        /\ proc'[p].at = proc[p].at /\ proc'[p].got = proc[p].got /\ proc'[p].linked = FALSE
        /\ \A q \in Procs \ {p} : proc'[q] = proc[q]
    BY <1>15 DEF LoseConnection, TypeOK, Refresh
  <2>2. LockHeld' /\ LinkedToStore'
    BY <1>15, <2>1, FeedAssumption DEF LoseConnection, LockHeld, LinkedToStore
  <2>. QED
    BY <1>F, <1>15, <2>1, <2>2 DEF LoseConnection, TypeOK, Refresh, IdleIsEmpty, Served, NotOlder
<1>16. CASE UNCHANGED vars
  BY <1>16 DEF vars, TypeOK, LockHeld, LinkedToStore, IdleIsEmpty, Served, NotOlder
<1>. QED
  BY <1>1, <1>2, <1>3, <1>4, <1>5, <1>6, <1>7, <1>8, <1>9, <1>10, <1>11, <1>12, <1>13, <1>14, <1>15, <1>16
  DEF Next, Cycle, Fetch, Store

\* The invariant holds in every reachable state.
THEOREM FeedInvariance == Spec => []IInv
<1>. QED
  BY InitIInv, NextIInv, PTL DEF Spec

\* Type correctness of the feed tables, the processes' memory and the lock.
THEOREM FeedTypes == Spec => []TypeOK
BY FeedInvariance, PTL DEF IInv

-----------------------------------------------------------------------------
(* The action properties.                                                  *)

\* Only a commit changes the tables.
LEMMA OnlyCommits ==
    ASSUME [Next]_vars, stored' # stored
    PROVE  \E p \in Procs, feed \in Feeds : Commit(p, feed)
BY DEF Next, vars, Publish, ServerFrees, Cycle, Fetch, FetchFeed, FetchFails, Store, StoreNothing, StoreFeed, StoreFails,
       StoredUnheard, StoreUnlinked, AcquireLock, SkipCycle, Notify, Unlock, CycleFails, LoseConnection, Crash

\* A failing feed never deletes data, and a table changes only under the lock to what its holder fetched
\* (poller.py:5).
THEOREM FeedKeepsData == Spec => LastGoodCopy
<1>1. ASSUME IInv, [Next]_vars, NEW f \in Feeds, stored'[f] # stored[f]
      PROVE  \E p \in Procs : lock = p /\ \A i \in Ids : stored'[f][i] # stored[f][i] =>
                i \in proc[p].got[f].ids /\ stored'[f][i] = proc[p].got[f].from
  <2>1. PICK p \in Procs, feed \in Feeds : Commit(p, feed)
    BY <1>1, OnlyCommits
  <2>2. /\ \A g \in Feeds \ {feed} : stored'[g] = stored[g]
        /\ \A i \in Ids : stored'[feed][i] =
             IF i \in proc[p].got[feed].ids THEN proc[p].got[feed].from ELSE stored[feed][i]
        /\ lock = p
    BY <1>1, <2>1, CommitEffect
  <2>. QED
    BY <1>1, <2>2
<1>2. IInv /\ [Next]_vars => [\A f \in Feeds : stored'[f] # stored[f] =>
        \E p \in Procs :
            /\ lock = p
            /\ \A i \in Ids : stored'[f][i] # stored[f][i] =>
                i \in proc[p].got[f].ids /\ stored'[f][i] = proc[p].got[f].from]_vars
  BY <1>1
<1>. QED
  BY <1>2, FeedInvariance, PTL DEF Spec, LastGoodCopy

\* A row goes back to an older edition only in a refresh that another process overtook between fetch and store.
THEOREM FeedMovesOn == Spec => BackwardsOnlyWhenOvertaken
<1>1. ASSUME IInv, [Next]_vars, NEW f \in Feeds, NEW i \in Ids, stored'[f][i] < stored[f][i]
      PROVE  \E p \in overtaken : proc[p].at = f
  <2>0. stored[f][i] \in Nat
    BY <1>1 DEF IInv, TypeOK
  <2>1. PICK p \in Procs, feed \in Feeds : Commit(p, feed)
    BY <1>1, <2>0, OnlyCommits
  <2>2. /\ \A g \in Feeds \ {feed} : stored'[g] = stored[g]
        /\ \A j \in Ids : stored'[feed][j] =
             IF j \in proc[p].got[feed].ids THEN proc[p].got[feed].from ELSE stored[feed][j]
        /\ proc[p].got[feed] \in Fetched
    BY <1>1, <2>1, CommitEffect
  <2>3. f = feed /\ stored'[f][i] = proc[p].got[f].from /\ proc[p].got[f].from \in Nat
    BY <1>1, <2>0, <2>2 DEF Fetched
  <2>4. p \in overtaken
    BY <1>1, <2>0, <2>1, <2>3 DEF IInv, NotOlder, Commit
  <2>. QED
    BY <2>1, <2>3, <2>4 DEF Commit
<1>2. IInv /\ [Next]_vars => [\A f \in Feeds, i \in Ids : stored'[f][i] < stored[f][i] =>
        \E p \in overtaken : proc[p].at = f]_vars
  BY <1>1
<1>. QED
  BY <1>2, FeedInvariance, PTL DEF Spec, BackwardsOnlyWhenOvertaken

-----------------------------------------------------------------------------
(* The status a process reports, while refreshes go on.                    *)

\* A process reports no feed as failed.
Honest(p) == \A f \in Feeds : feeds[p][f].state # "error"

\* What a refresh that no fault has hit since it began has made so far: it has its connection and every answer it is past
\* the fetch of, until it has stored that answer and reported it.
OnItsWay(p) ==
    /\ proc[p].at # "idle" => proc[p].linked
    /\ proc[p].at \in {"areas", "acquire", "hotspots"} => proc[p].got["hotspots"] # Nothing
    /\ proc[p].at \in {"acquire", "hotspots", "burnt_areas"} => proc[p].got["burnt_areas"] # Nothing
    /\ proc[p].at \in {"burnt_areas", "notify", "unlock"} => feeds[p]["hotspots"].state # "error"
    /\ proc[p].at \in {"notify", "unlock"} => feeds[p]["burnt_areas"].state # "error"

\* A fault uses one up.
LEMMA NoFault == TypeOK /\ UNCHANGED faults => ~Fault
BY DEF TypeOK, Fault

\* Storing an answer reports an upstream state, and leaves the other feed's as it was.
LEMMA SucceedsEffect ==
    ASSUME TypeOK, NEW p \in Procs, NEW feed \in Feeds, Succeeds(p, feed)
    PROVE  /\ feeds'[p][feed].state # "error"
           /\ \A f \in Feeds \ {feed} : feeds'[p][f] = feeds[p][f]
           /\ \A q \in Procs \ {p} : feeds'[q] = feeds[q]
<1>1. UpstreamState(feed, proc[p].got[feed].recent) # "error"
  BY DEF UpstreamState
<1>2. feeds[p] \in [Feeds -> [state : States, error : Errors]]
  BY DEF TypeOK
<1>3. feeds' = [feeds EXCEPT ![p] = [feeds[p] EXCEPT ![feed] =
        [state |-> UpstreamState(feed, proc[p].got[feed].recent),
         error |-> IF proc[p].got[feed].full THEN "truncated" ELSE "none"]]]
  BY DEF Succeeds
<1>. QED
  BY <1>1, <1>2, <1>3 DEF TypeOK

\* Without a fault, another process leaves the record and the status of a process alone.
LEMMA OthersLeave ==
    ASSUME IInv, NEW p \in Procs, NEW q \in Procs \ {p}, Cycle(q), ~Fault
    PROVE  proc'[p] = proc[p] /\ feeds'[p] = feeds[p]
BY DEF IInv, TypeOK, Cycle, Fetch, FetchFeed, FetchFails, Takes, Store, StoreNothing, StoreFeed, StoreFails,
       StoredUnheard, StoreUnlinked, Leaves, Succeeds, Fails, AcquireLock, Goes, SkipCycle, Ends, Notify, Unlock, CycleFails

\* Without a fault, the refresh of a process stays on its way, and nothing makes an honest status dishonest.
LEMMA WayStep ==
    ASSUME IInv, [Next]_vars, UNCHANGED faults, NEW p \in Procs, OnItsWay(p)
    PROVE  OnItsWay(p)' /\ (Honest(p) => Honest(p)')
<1>. USE DEF IInv
<1>0. ~Fault
  BY NoFault
<1>1. ASSUME proc'[p] = proc[p], feeds'[p] = feeds[p]
      PROVE  OnItsWay(p)' /\ (Honest(p) => Honest(p)')
  BY <1>1 DEF OnItsWay, Honest
<1>2. CASE Publish \/ ServerFrees \/ UNCHANGED vars
  BY <1>1, <1>2 DEF Publish, ServerFrees, vars
<1>3. ASSUME NEW q \in Procs, LoseConnection(q) \/ Crash(q)
      PROVE  OnItsWay(p)' /\ (Honest(p) => Honest(p)')
  BY <1>0, <1>3 DEF LoseConnection, Crash
<1>4. ASSUME NEW q \in Procs \ {p}, Cycle(q)
      PROVE  OnItsWay(p)' /\ (Honest(p) => Honest(p)')
  BY <1>0, <1>1, <1>4, OthersLeave
<1>5. ASSUME NEW feed \in Feeds, FetchFeed(p, feed)
      PROVE  OnItsWay(p)' /\ (Honest(p) => Honest(p)')
  <2>1. PICK response \in Responses[edition] :
            Takes(p, feed, [from |-> edition, ids |-> Parse(feed, response).ids,
                            recent |-> Parse(feed, response).recent, full |-> Len(response) >= FeatureLimit])
    BY <1>5 DEF FetchFeed
  <2>. DEFINE fetched == [from |-> edition, ids |-> Parse(feed, response).ids,
                          recent |-> Parse(feed, response).recent, full |-> Len(response) >= FeatureLimit]
  <2>2. response \in Seq(Feature)
    BY FeedAssumption DEF TypeOK
  <2>3. fetched \in Fetched
    BY <2>2, ParseTypes DEF Fetched, TypeOK
  <2>4. fetched # Nothing
    BY <2>3, NothingIsOld
  <2>. HIDE DEF fetched
  <2>5. /\ proc'[p].at = After(feed) /\ proc'[p].linked
        /\ proc'[p].got[feed] = fetched
        /\ \A f \in Feeds \ {feed} : proc'[p].got[f] = proc[p].got[f]
    BY <2>1, <2>3, TakesEffect DEF fetched
  <2>6. feeds' = feeds /\ proc[p].at = Before(feed)
    BY <1>5 DEF FetchFeed
  <2>7. feed \in {"hotspots", "burnt_areas"}
    BY DEF Feeds
  <2>. QED
    BY <2>4, <2>5, <2>6, <2>7 DEF OnItsWay, Honest, After, Before, Feeds
<1>6. ASSUME NEW feed \in Feeds, Store(p, feed)
      PROVE  OnItsWay(p)' /\ (Honest(p) => Honest(p)')
  <2>1. proc[p].at = feed /\ feed \in {"hotspots", "burnt_areas"}
    BY <1>6 DEF Store, StoreNothing, StoreFeed, StoreFails, StoredUnheard, StoreUnlinked, Commit, Feeds
  <2>2. proc[p].got[feed] # Nothing /\ proc[p].linked
    BY <2>1 DEF OnItsWay
  <2>3. StoreFeed(p, feed)
    BY <1>0, <1>6, <2>2 DEF Store, StoreNothing, StoreFails, StoredUnheard, StoreUnlinked
  <2>4. /\ feeds'[p][feed].state # "error"
        /\ \A f \in Feeds \ {feed} : feeds'[p][f] = feeds[p][f]
    BY <2>3, SucceedsEffect DEF StoreFeed
  <2>5. proc[p].linked \in BOOLEAN
    BY DEF TypeOK
  <2>6. /\ proc'[p].at = NextPhase(feed) /\ proc'[p].linked = proc[p].linked
        /\ \A f \in Feeds \ {feed} : proc'[p].got[f] = proc[p].got[f]
    BY <2>3, <2>5, LeavesEffect DEF StoreFeed
  <2>. QED
    BY <2>1, <2>2, <2>4, <2>6 DEF OnItsWay, Honest, NextPhase, Feeds
<1>7. CASE AcquireLock(p) \/ Notify(p)
  <2>1. PICK phase \in Phases : Goes(p, phase) /\ phase = IF proc[p].at = "acquire" THEN "hotspots" ELSE "unlock"
    BY <1>7 DEF AcquireLock, Notify, Phases
  <2>2. proc'[p].at = phase /\ proc'[p].got = proc[p].got /\ proc'[p].linked = proc[p].linked
    BY <2>1, GoesEffect
  <2>. QED
    BY <1>7, <2>1, <2>2 DEF AcquireLock, Notify, OnItsWay, Honest
<1>8. CASE SkipCycle(p) \/ Unlock(p) \/ CycleFails(p)
  <2>1. proc'[p] = Idle /\ feeds' = feeds
    BY <1>8, EndsEffect DEF SkipCycle, Unlock, CycleFails
  <2>. QED
    BY <2>1 DEF OnItsWay, Honest, Idle
<1>9. CASE \E feed \in Feeds : FetchFails(p, feed)
  BY <1>0, <1>9 DEF FetchFails
<1>. QED
  BY <1>2, <1>3, <1>4, <1>5, <1>6, <1>7, <1>8, <1>9 DEF Next, Cycle, Fetch

\* "With an honest status" (poller.py): when refreshes go on, a process that reported a failed feed takes it back after
\* its first refresh without a fault, unless others do the refreshing for good.
THEOREM StatusIsHonest == Spec /\ RefreshesGoOn => StatusRecovers
<1>. SUFFICES ASSUME NEW p \in Procs
              PROVE  Spec /\ RefreshesGoOn => (<>[]Honest(p) \/ []<>(\E q \in Procs \ {p} : proc[q].at = "unlock"))
  BY DEF StatusRecovers, Honest
<1>. DEFINE J == OnItsWay(p)
            H == Honest(p)
            O == \E q \in Procs \ {p} : proc[q].at = "unlock"
<1>1. IInv /\ J /\ [Next]_vars /\ [Faultless]_vars => J' /\ (H => H')
  BY WayStep DEF vars, Faultless
<1>2. J /\ <<Unlock(p)>>_vars => H'
  BY DEF OnItsWay, Honest, Unlock, Feeds
<1>3. IInv /\ <<Unlock(p)>>_vars => J'
  <2>. SUFFICES ASSUME IInv, Unlock(p) PROVE J'
    OBVIOUS
  <2>1. proc'[p] = Idle
    BY EndsEffect DEF IInv, Unlock
  <2>. QED
    BY <2>1 DEF OnItsWay, Idle
<1>4. <<Completed>>_vars => O \/ <<Unlock(p)>>_vars
  BY DEF Completed, Unlock
<1>5. Spec => [][Next]_vars
  BY PTL DEF Spec
<1>. HIDE DEF J, H, O
<1>6. Spec /\ RefreshesGoOn => (<>[]H \/ []<>O)
  BY <1>1, <1>2, <1>3, <1>4, <1>5, FeedInvariance, PTL DEF RefreshesGoOn
<1>. QED
  BY <1>6 DEF H, O
=============================================================================
