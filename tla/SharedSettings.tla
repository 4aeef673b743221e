--------------------------- MODULE SharedSettings ---------------------------
(***************************************************************************)
(* The operation-wide settings row and the admins who edit it: the         *)
(* handlers of backend/routers/settings.py, the settings store and the     *)
(* form of the Settings page in each admin's browser, and the deletion of  *)
(* the admin who saved last.                                               *)
(*                                                                         *)
(* The row is its log: updated_at, which the trigger of 0003_settings.sql  *)
(* renews on every UPDATE, is the position in it, and a page that holds a  *)
(* copy of the row holds a position.  Two of the form's fields stand for   *)
(* all: an alarm switch, which asks before it is turned off, and a radius. *)
(***************************************************************************)
EXTENDS Naturals, Sequences

CONSTANTS
    Admins,     \* accounts of admins
    Pages,      \* those with a Settings page open; the others write from elsewhere
    Legacy,     \* those whose browser still has an HQ of its own (localStorage bwm.hq)
    MaxVersion  \* bound: saves and HQ writes only while the row has fewer versions

Nobody == "nobody"

ASSUME SettingsAssumption == 
    MaxVersion \in Nat \ {0} /\ Pages \subseteq Admins /\ Legacy \subseteq Pages /\ Nobody \notin Admins

VARIABLES
    log,      \* the successive contents of the settings row; the last one is the row
    page,     \* per page: the store's copy, the form, the answers on their way
    legacy,   \* browsers with a local HQ
    deleted   \* admins whose account was deleted

vars == <<log, page, legacy, deleted>>

Fields == {"alarm", "radius"}
Values == [Fields -> BOOLEAN]   \* alarm: is_hq_alarm_enabled; radius: one of two

\* How a version came about.
Ways == {"start", "save", "hq", "initial", "deleted"}

Version == Len(log)
Row == log[Version]

\* The form; "confirm": it asks whether to turn the alarm off.
Phases == {"editing", "checking", "confirm", "saved", "stale"}

Init ==
    /\ log = <<[values |-> [f \in Fields |-> TRUE], hq |-> FALSE, by |-> Nobody, how |-> "start"]>>
    /\ page = [a \in Pages |->
                [at |-> "editing", store |-> 1, base |-> log[1].values, draft |-> log[1].values,
                 form |-> 0, side |-> 0, unadopted |-> FALSE]]
    /\ legacy = Legacy
    /\ deleted = {}

\* Of the pages, one changes.
Becomes(a, sheet) == page' = [page EXCEPT ![a] = sheet]

-----------------------------------------------------------------------------
(* The handlers.  Each UPDATE adds a version.                              *)

Writes(values, hq, by, how) == log' = Append(log, [values |-> values, hq |-> hq, by |-> by, how |-> how])

\* Mutant of IsCurrent: the version the client saw is not checked.
IsAnything(version) == TRUE

\* WHERE updated_at = expected_updated_at.
IsCurrent(version) == version = Version

\* Mutant of MayInitialise: only the position is looked at.
MayInitialiseAgain == ~Row.hq

\* WHERE hq_latitude IS NULL AND updated_by IS NULL.
MayInitialise == ~Row.hq /\ Row.by = Nobody

-----------------------------------------------------------------------------
(* The form of the Settings page.                                          *)

\* Mutant of Adopted: the whole form is filled from the server.
AdoptedWhole(a, version) == log[version].values

\* adoptFresh(): a field still as the form last got it takes the server's value.
Adopted(a, version) ==
    [f \in Fields |-> IF page[a].draft[f] = page[a].base[f] THEN log[version].values[f] ELSE page[a].draft[f]]

\* alarmsTurnedOff().
TurnsAlarmOff(version, draft) == log[version].values["alarm"] /\ ~draft["alarm"]

\* The operator changes a field; the question goes away when the alarm is not turned off any more.
Edit(a, f) ==
    /\ LET draft == [page[a].draft EXCEPT ![f] = ~@] IN
        Becomes(a, [page[a] EXCEPT !.draft = draft,
                                   !.at = IF @ = "confirm" /\ ~TurnsAlarmOff(page[a].store, draft) THEN "editing" ELSE @])
    /\ UNCHANGED <<log, legacy, deleted>>

\* onSave(): read the row first.
Check(a) ==
    /\ page[a].at \in {"editing", "confirm"}
    /\ page[a].draft # log[page[a].store].values
    /\ Becomes(a, [page[a] EXCEPT !.at = "checking", !.form = Version])
    /\ UNCHANGED <<log, legacy, deleted>>

\* The page with a fresh copy of the row, merged into the form.
Merged(a, version, phase) ==
    [page[a] EXCEPT !.at = phase, !.store = version, !.base = log[version].values, !.draft = Adopted(a, version),
                    !.form = 0, !.unadopted = FALSE]

\* PUT /settings from a page (as merged): accepted, or 409 settings_stale and the store reads the row again.
Put(a, sheet) ==
    IF IsCurrent(sheet.store)
    THEN /\ Writes(sheet.draft, log[sheet.store].hq, a, "save")
         /\ Becomes(a, [sheet EXCEPT !.at = "saved", !.form = Version + 1])
    ELSE /\ log' = log
         /\ Becomes(a, [sheet EXCEPT !.at = "stale", !.form = Version])

\* The row arrives: nothing to save, a question to ask, or the save itself.
Checked(a) ==
    /\ page[a].at = "checking"
    /\ LET version == page[a].form
           draft == Adopted(a, version)
       IN  \/ /\ draft = log[version].values
              /\ Becomes(a, Merged(a, version, "editing"))
              /\ UNCHANGED log
           \/ /\ TurnsAlarmOff(version, draft)
              /\ Becomes(a, Merged(a, version, "confirm"))
              /\ UNCHANGED log
           \/ /\ draft # log[version].values /\ ~TurnsAlarmOff(version, draft)
              /\ Version < MaxVersion
              /\ Put(a, Merged(a, version, "editing"))
    /\ UNCHANGED <<legacy, deleted>>

\* The operator confirms: what the form shows is saved with the version the store holds.
Confirm(a) ==
    /\ page[a].at = "confirm"
    /\ Version < MaxVersion
    /\ Put(a, page[a])
    /\ UNCHANGED <<legacy, deleted>>

\* The operator lets the question go.
Cancel(a) ==
    /\ page[a].at = "confirm"
    /\ Becomes(a, [page[a] EXCEPT !.at = "editing"])
    /\ UNCHANGED <<log, legacy, deleted>>

\* The answer to an accepted save: reset() fills the whole form from it.
Saved(a) ==
    /\ page[a].at = "saved"
    /\ LET version == page[a].form IN
        Becomes(a, [page[a] EXCEPT !.at = "editing", !.store = version, !.base = log[version].values,
                                   !.draft = log[version].values, !.form = 0, !.unadopted = FALSE])
    /\ UNCHANGED <<log, legacy, deleted>>

\* The row read again after a refusal: the operator's edits are kept.
Stale(a) ==
    /\ page[a].at = "stale"
    /\ Becomes(a, Merged(a, page[a].form, "editing"))
    /\ UNCHANGED <<log, legacy, deleted>>

-----------------------------------------------------------------------------
(* HQ, which is not part of the form.                                      *)

\* PUT /settings/hq: sets or clears HQ whatever the version.
PutHq(a, hq) ==
    /\ page[a].side = 0
    /\ Version < MaxVersion
    /\ Writes(Row.values, hq, a, "hq")
    /\ Becomes(a, [page[a] EXCEPT !.side = Version + 1])
    /\ UNCHANGED <<legacy, deleted>>

\* migrateLocalHQ() and PUT /settings/hq-initial: the local HQ is uploaded, or refused (409) and dropped.
PutHqInitial(a) ==
    /\ a \in legacy
    /\ page[a].side = 0
    /\ legacy' = legacy \ {a}
    /\ \/ /\ MayInitialise
          /\ Writes(Row.values, TRUE, a, "initial")
          /\ Becomes(a, [page[a] EXCEPT !.side = Version + 1])
       \/ /\ ~MayInitialise
          /\ UNCHANGED <<log, page>>
    /\ UNCHANGED deleted

\* An admin saves the settings, or sets or clears HQ, from elsewhere: a client whose copy is current, or one that
\* is refused and leaves nothing.
Elsewhere(a) ==
    /\ Version < MaxVersion
    /\ \/ \E values \in Values : Writes(values, Row.hq, a, "save")
       \/ \E hq \in BOOLEAN : Writes(Row.values, hq, a, "hq")
    /\ UNCHANGED <<page, legacy, deleted>>

\* The map page reads the settings (loadSettings); its answer may come when the Settings page is open.
FetchAside(a) ==
    /\ page[a].side = 0
    /\ Becomes(a, [page[a] EXCEPT !.side = Version])
    /\ UNCHANGED <<log, legacy, deleted>>

\* The store takes the row; the form is not told.
AsideArrives(a) ==
    /\ page[a].side # 0
    /\ Becomes(a, [page[a] EXCEPT !.store = page[a].side, !.side = 0, !.unadopted = @ \/ page[a].at = "confirm"])
    /\ UNCHANGED <<log, legacy, deleted>>

-----------------------------------------------------------------------------
\* Another admin deletes the account: updated_by ON DELETE SET NULL is an UPDATE as well.
DeleteUser(a) ==
    /\ Admins \ (deleted \cup {a}) # {}
    /\ deleted' = deleted \cup {a}
    /\ \/ /\ Row.by = a
          /\ Writes(Row.values, Row.hq, Nobody, "deleted")
       \/ /\ Row.by # a
          /\ log' = log
    /\ UNCHANGED <<page, legacy>>

OnPage(a) ==
    \/ \E f \in Fields : Edit(a, f)
    \/ Check(a) \/ Checked(a) \/ Confirm(a) \/ Cancel(a) \/ Saved(a) \/ Stale(a)
    \/ \E hq \in BOOLEAN : PutHq(a, hq)
    \/ PutHqInitial(a) \/ FetchAside(a) \/ AsideArrives(a)

Next ==
    \/ \E a \in Pages \ deleted : OnPage(a)
    \/ \E a \in (Admins \ Pages) \ deleted : Elsewhere(a)
    \/ \E a \in Admins \ deleted : DeleteUser(a)

Spec == Init /\ [][Next]_vars

-----------------------------------------------------------------------------
(* Properties.                                                             *)

TypeOK ==
    /\ log \in Seq([values : Values, hq : BOOLEAN, by : Admins \cup {Nobody}, how : Ways])
    /\ Version > 0
    /\ page \in [Pages -> [at : Phases, store : 1..Version, base : Values, draft : Values,
                            form : 0..Version, side : 0..Version, unadopted : BOOLEAN]]
    /\ legacy \subseteq Legacy
    /\ deleted \subseteq Admins

\* The admin saves, in this step, a field the form shows as untouched with a value the row no longer has.
Overwrites(a) ==
    /\ log' # log /\ log'[Len(log')].how = "save" /\ log'[Len(log')].by = a
    /\ \E f \in Fields : log'[Len(log')].values[f] # Row.values[f]
                         /\ page'[a].draft[f] = page'[a].base[f]

\* "a stale page can never overwrite an alarm switch or a radius another admin changed since" (settings.js:52).
StalePageNeverOverwrites == [][\A a \in Pages : ~Overwrites(a)]_vars

\* It does so in one case only: an answer to an HQ write (or a read for the map) put a newer row into the store
\* while the form asked its question, and the form did not adopt it.
OverwritesOnlyUnadopted == [][\A a \in Pages : Overwrites(a) => page[a].at = "confirm" /\ page[a].unadopted]_vars

\* "an edited field is never overwritten" (SettingsView.vue:265): an answer changes only fields the operator has not
\* edited.  The answer to the page's own save is the exception: reset() also drops what was typed meanwhile.
TypedStays ==
    [][\A a \in Pages, f \in Fields :
        page'[a].form # page[a].form /\ page'[a].draft[f] # page[a].draft[f]
        => page[a].draft[f] = page[a].base[f] \/ page[a].at = "saved"]_vars

\* The admin saves, in this step, with the alarm off where the row has it on.
SwitchesAlarmOff(a) ==
    /\ log' # log /\ log'[Len(log')].how = "save" /\ log'[Len(log')].by = a
    /\ Row.values["alarm"] /\ ~log'[Len(log')].values["alarm"]

\* "a stale page cannot switch an alarm off without the confirmation" (SettingsView.vue:423-424): whatever was saved
\* since the form was filled, or since it read the row again, the alarm is switched off only by answering the question.
\* (Of two alarms, one answer may switch off both: OverwritesOnlyUnadopted names the case.)
AlarmOffOnlyAsked == [][\A a \in Pages : SwitchesAlarmOff(a) => page[a].at = "confirm"]_vars

\* Version m is the last before n that an admin wrote: the deletion of an account writes too.
LastSaved(m, n) == log[m].by # Nobody /\ \A k \in (m + 1)..(n - 1) : log[k].by = Nobody

\* "a cleared HQ is not resurrected by a legacy browser copy" (routers/settings.py:156), nor by a page that saves the
\* HQ it read (saveSettings sends it along): where there was no HQ there is one again when an admin sets it, or when
\* a browser uploads its copy and nobody has saved yet, or the account of whoever saved last was deleted.
\* That is not the account of the admin who cleared it: their own may still be there.
ClearedHqStaysCleared ==
    \A n \in 2..Version : log[n].hq /\ ~log[n - 1].hq =>
        \/ log[n].how = "hq"
        \/ log[n].how = "initial" /\ \A m \in 1..(n - 1) : LastSaved(m, n) => log[m].by \in deleted

-----------------------------------------------------------------------------
(* The inductive invariant behind the safety properties.                   *)

\* updated_by is NULL from the start, until someone writes, and after the deletion of whoever wrote last.
WrittenBy ==
    \A n \in 1..Version :
        /\ log[n].by = Nobody <=> log[n].how \in {"start", "deleted"}
        /\ log[n].how = "start" <=> n = 1
        /\ log[n].how = "deleted" => log[n - 1].by \in deleted

\* A form that asks its question, and whose store nothing replaced since, is as its store.
AsksAsStored == \A a \in Pages : page[a].at = "confirm" /\ ~page[a].unadopted => page[a].base = log[page[a].store].values

\* A form that waits has an answer on its way.
Answered == \A a \in Pages : page[a].at \in {"checking", "saved", "stale"} => page[a].form # 0

IInv == TypeOK /\ WrittenBy /\ ClearedHqStaysCleared /\ AsksAsStored /\ Answered

=============================================================================
