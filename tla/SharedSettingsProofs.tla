------------------------ MODULE SharedSettingsProofs ------------------------
(***************************************************************************)
(* Safety of the shared settings for any number of admins, pages and       *)
(* versions: IInv (SharedSettings) is inductive and implies the safety     *)
(* properties the run checks.                                              *)
(***************************************************************************)
EXTENDS SharedSettings, TLAPS

Entry == [values : Values, hq : BOOLEAN, by : Admins \cup {Nobody}, how : Ways]

\* A page while the row has n versions.
Sheet(n) == [at : Phases, store : 1..n, base : Values, draft : Values, form : 0..n, side : 0..n, unadopted : BOOLEAN]

LogOK == /\ log \in Seq(Entry) /\ Version > 0
         /\ WrittenBy /\ ClearedHqStaysCleared

LEMMA LogAndPages == IInv <=> /\ LogOK /\ page \in [Pages -> Sheet(Version)] /\ AsksAsStored /\ Answered
                              /\ legacy \subseteq Legacy /\ deleted \subseteq Admins
BY DEF IInv, TypeOK, LogOK, Entry, Sheet

LEMMA LogAndPagesNext == IInv' <=> /\ LogOK' /\ page' \in [Pages -> Sheet(Version')] /\ AsksAsStored' /\ Answered'
                                   /\ legacy' \subseteq Legacy /\ deleted' \subseteq Admins
BY DEF IInv, TypeOK, LogOK, Entry, Sheet

-----------------------------------------------------------------------------
\* A write adds an entry and leaves the earlier ones.
LEMMA WritesEffect ==
    ASSUME log \in Seq(Entry), NEW values \in Values, NEW hq \in BOOLEAN, NEW by \in Admins \cup {Nobody},
           NEW how \in Ways, Writes(values, hq, by, how)
    PROVE  /\ log' \in Seq(Entry)
           /\ Version' = Version + 1
           /\ \A n \in 1..Version : log'[n] = log[n]
           /\ log'[Version + 1] = [values |-> values, hq |-> hq, by |-> by, how |-> how]
<1>1. [values |-> values, hq |-> hq, by |-> by, how |-> how] \in Entry
  BY DEF Entry
<1>. QED
  BY <1>1 DEF Writes, Version

\* Every write the handlers make keeps the log in order: a deletion's follows the version of whoever it deletes, HQ
\* comes from PUT /hq or a local copy, and a local HQ is taken only while nobody is on record.
LEMMA WritesKeeps ==
    ASSUME LogOK, NEW values \in Values, NEW hq \in BOOLEAN, NEW by \in Admins \cup {Nobody}, NEW how \in Ways \ {"start"},
           Writes(values, hq, by, how), by = Nobody <=> how = "deleted", how = "initial" => MayInitialise,
           how \in {"save", "deleted"} => hq = Row.hq, how = "deleted" => Row.by \in deleted',
           deleted \subseteq deleted', deleted' \subseteq Admins
    PROVE  LogOK'
<1>. USE DEF LogOK
<1>1. /\ log' \in Seq(Entry)
      /\ Version' = Version + 1
      /\ \A n \in 1..Version : log'[n] = log[n]
      /\ log'[Version + 1] = [values |-> values, hq |-> hq, by |-> by, how |-> how]
  BY WritesEffect
<1>2. Version \in Nat /\ Version >= 1 /\ Version \in 1..Version
  BY DEF Version
<1>3. WrittenBy'
  <2>. SUFFICES ASSUME NEW n \in 1..(Version + 1)
                PROVE  /\ log'[n].by = Nobody <=> log'[n].how \in {"start", "deleted"}
                       /\ log'[n].how = "start" <=> n = 1
                       /\ log'[n].how = "deleted" => log'[n - 1].by \in deleted'
    BY <1>1 DEF WrittenBy
  <2>1. CASE n \in 1..Version
    <3>1. log'[n] = log[n]
      BY <1>1, <2>1
    <3>2. log[n].how = "deleted" => n - 1 \in 1..Version
      BY <1>2, <2>1 DEF WrittenBy
    <3>. QED
      BY <1>1, <2>1, <3>1, <3>2 DEF WrittenBy
  <2>2. CASE n = Version + 1
    <3>1. log'[n - 1] = Row
      BY <1>1, <1>2, <2>2 DEF Row
    <3>. QED
      BY <1>1, <1>2, <2>2, <3>1
  <2>. QED
    BY <1>2, <2>1, <2>2
<1>4. ClearedHqStaysCleared'
  <2>. SUFFICES ASSUME NEW n \in 2..(Version + 1), log'[n].hq, ~log'[n - 1].hq
                PROVE  \/ log'[n].how = "hq"
                       \/ log'[n].how = "initial" /\ \A m \in 1..(n - 1) : LastSaved(m, n)' => log'[m].by \in deleted'
    BY <1>1 DEF ClearedHqStaysCleared
  <2>0. \A m \in 1..(n - 1) : m \in 1..Version /\ log'[m] = log[m]
    BY <1>1, <1>2
  <2>3. \A m \in 1..(n - 1) : LastSaved(m, n)' => LastSaved(m, n)
    <3>. SUFFICES ASSUME NEW m \in 1..(n - 1), LastSaved(m, n)' PROVE LastSaved(m, n)
      OBVIOUS
    <3>1. \A k \in (m + 1)..(n - 1) : k \in 1..(n - 1)
      OBVIOUS
    <3>. QED
      BY <2>0, <3>1 DEF LastSaved
  <2>1. CASE n \in 1..Version
    <3>1. log[n].hq /\ ~log[n - 1].hq /\ n \in 2..Version /\ log'[n] = log[n]
      BY <1>1, <2>0, <2>1
    <3>2. \/ log[n].how = "hq"
          \/ log[n].how = "initial" /\ \A m \in 1..(n - 1) : LastSaved(m, n) => log[m].by \in deleted
      BY <3>1 DEF ClearedHqStaysCleared
    <3>. QED
      BY <2>0, <2>3, <3>1, <3>2
  <2>2. CASE n = Version + 1
    <3>0. ~Row.hq /\ hq /\ log'[n].how = how
      BY <1>1, <1>2, <2>0, <2>2 DEF Row
    <3>. SUFFICES ASSUME how # "hq"
                  PROVE  how = "initial" /\ \A m \in 1..(n - 1) : LastSaved(m, n) => log[m].by \in deleted'
      BY <2>0, <2>3, <3>0
    <3>1. how = "initial" /\ log[Version].by = Nobody
      BY <3>0 DEF MayInitialise, Row, Ways
    <3>. SUFFICES ASSUME NEW m \in 1..(n - 1), LastSaved(m, n) PROVE log[m].by \in deleted'
      BY <3>1
    <3>2. m \in 1..Version /\ n - 1 = Version
      BY <1>2, <2>2
    <3>3. m # Version /\ Version # 1
      BY <3>1, <3>2 DEF LastSaved
    <3>4. log[Version].how = "deleted"
      BY <1>2, <3>1, <3>3 DEF WrittenBy
    <3>5. log[Version - 1].by \in deleted
      BY <1>2, <3>4 DEF WrittenBy
    <3>6. log[Version - 1].by # Nobody
      BY <3>5, SettingsAssumption
    <3>7. m = Version - 1
      BY <1>2, <3>2, <3>3, <3>6 DEF LastSaved
    <3>. QED
      BY <3>5, <3>7
  <2>. QED
    BY <1>2, <2>1, <2>2
<1>. QED
  BY <1>1, <1>2, <1>3, <1>4

\* Where no entry is lost, pages whose copies are known stay pages.
LEMMA BecomesKeeps ==
    ASSUME NEW m \in Nat, NEW n \in Nat, m <= n, page \in [Pages -> Sheet(m)],
           NEW a \in Pages, NEW sheet \in Sheet(n), Becomes(a, sheet)
    PROVE  /\ page' \in [Pages -> Sheet(n)]
           /\ page'[a] = sheet
           /\ \A b \in Pages \ {a} : page'[b] = page[b]
<1>1. 1..m \subseteq 1..n /\ 0..m \subseteq 0..n
  OBVIOUS
<1>2. Sheet(m) \subseteq Sheet(n)
  BY <1>1 DEF Sheet
<1>. QED
  BY <1>2 DEF Becomes

LEMMA InitIInv == Init => IInv
<1>. SUFFICES ASSUME Init PROVE IInv
  OBVIOUS
<1>. DEFINE first == [values |-> [f \in Fields |-> TRUE], hq |-> FALSE, by |-> Nobody, how |-> "start"]
<1>1. first \in Entry
  BY DEF Entry, Values, Ways
<1>2. log = <<first>>
  BY DEF Init
<1>3. log \in Seq(Entry) /\ Version = 1 /\ log[1] = first
  BY <1>1, <1>2 DEF Version
<1>. HIDE DEF first
<1>4. LogOK
  <2>1. first.by = Nobody /\ first.how = "start"
    BY DEF first
  <2>2. \A n \in 1..Version : n = 1
    BY <1>3
  <2>. QED
    BY <1>3, <2>1, <2>2, SettingsAssumption DEF LogOK, WrittenBy, ClearedHqStaysCleared
<1>5. page \in [Pages -> Sheet(Version)]
  <2>1. log[1].values \in Values
    BY <1>1, <1>3 DEF Entry
  <2>. QED
    BY <1>3, <2>1 DEF Init, Sheet, Phases
<1>6. AsksAsStored /\ Answered
  BY DEF Init, AsksAsStored, Answered
<1>7. legacy \subseteq Legacy /\ deleted \subseteq Admins
  BY DEF Init
<1>. QED
  BY <1>4, <1>5, <1>6, <1>7, LogAndPages

-----------------------------------------------------------------------------
(* Steps.                                                                  *)

\* A page that is sound on its own terms: what the invariant asks of it.
Sound(sheet, values) ==
    /\ sheet.at = "confirm" /\ ~sheet.unadopted => sheet.base = values
    /\ sheet.at \in {"checking", "saved", "stale"} => sheet.form # 0

\* A step of a page that leaves the row alone.
LEMMA PageStep ==
    ASSUME IInv, NEW a \in Pages, NEW sheet \in Sheet(Version), Becomes(a, sheet), Sound(sheet, log[sheet.store].values),
           UNCHANGED <<log, deleted>>, legacy' \subseteq Legacy
    PROVE  IInv'
<1>. USE LogAndPages, LogAndPagesNext
<1>1. Version \in Nat /\ Version' = Version
  BY DEF LogOK, Version
<1>2. page' \in [Pages -> Sheet(Version)] /\ page'[a] = sheet /\ \A b \in Pages \ {a} : page'[b] = page[b]
  BY <1>1, BecomesKeeps
<1>3. LogOK'
  BY <1>1 DEF LogOK, WrittenBy, ClearedHqStaysCleared, LastSaved
<1>4. AsksAsStored' /\ Answered'
  BY <1>2 DEF AsksAsStored, Answered, Sound
<1>. QED
  BY <1>1, <1>2, <1>3, <1>4

\* A step of a page that writes the row.
LEMMA PageWrite ==
    ASSUME IInv, NEW a \in Pages, NEW sheet \in Sheet(Version + 1), Becomes(a, sheet),
           NEW values \in Values, NEW hq \in BOOLEAN, NEW how \in {"save", "hq", "initial"},
           Writes(values, hq, a, how), how = "initial" => MayInitialise, how = "save" => hq = Row.hq,
           sheet.store \in 1..Version, Sound(sheet, log[sheet.store].values),
           deleted' = deleted, legacy' \subseteq Legacy
    PROVE  IInv'
<1>. USE LogAndPages, LogAndPagesNext
<1>0. a \in Admins \cup {Nobody} /\ a # Nobody /\ how \in Ways \ {"start"} /\ how # "deleted"
  BY SettingsAssumption DEF Ways
<1>1. /\ log \in Seq(Entry) /\ Version \in Nat
      /\ Version' = Version + 1
      /\ \A n \in 1..Version : log'[n] = log[n]
  <2>1. log \in Seq(Entry) /\ Version \in Nat
    BY DEF LogOK, Version
  <2>2. how \in Ways
    BY <1>0
  <2>. QED
    BY ONLY <1>0, <2>1, <2>2, values \in Values, hq \in BOOLEAN, Writes(values, hq, a, how), WritesEffect
<1>2. page' \in [Pages -> Sheet(Version + 1)] /\ page'[a] = sheet /\ \A b \in Pages \ {a} : page'[b] = page[b]
  BY <1>1, BecomesKeeps
<1>3. LogOK'
  BY <1>0, WritesKeeps
<1>4. \A b \in Pages : page'[b].store \in 1..Version /\ log'[page'[b].store] = log[page'[b].store]
  BY <1>1, <1>2 DEF Sheet
<1>5. AsksAsStored' /\ Answered'
  BY <1>2, <1>4 DEF AsksAsStored, Answered, Sound
<1>. QED
  BY <1>1, <1>2, <1>3, <1>5

\* A write that no page makes.
LEMMA OtherWrite ==
    ASSUME IInv, NEW values \in Values, NEW hq \in BOOLEAN, NEW by \in Admins \cup {Nobody},
           NEW how \in {"save", "hq", "deleted"}, by = Nobody <=> how = "deleted",
           Writes(values, hq, by, how), how \in {"save", "deleted"} => hq = Row.hq, UNCHANGED <<page, legacy>>,
           how = "deleted" => Row.by \in deleted', deleted \subseteq deleted', deleted' \subseteq Admins
    PROVE  IInv'
<1>. USE LogAndPages, LogAndPagesNext
<1>1. /\ log \in Seq(Entry) /\ Version \in Nat
      /\ Version' = Version + 1
      /\ \A n \in 1..Version : log'[n] = log[n]
  <2>1. log \in Seq(Entry) /\ Version \in Nat
    BY DEF LogOK, Version
  <2>2. how \in Ways
    BY DEF Ways
  <2>. QED
    BY ONLY <2>1, <2>2, values \in Values, hq \in BOOLEAN, by \in Admins \cup {Nobody},
            Writes(values, hq, by, how), WritesEffect
<1>2. LogOK'
  BY WritesKeeps DEF Ways
<1>3. 1..Version \subseteq 1..(Version + 1) /\ 0..Version \subseteq 0..(Version + 1)
  BY <1>1
<1>4. page' \in [Pages -> Sheet(Version + 1)]
  BY <1>3 DEF Sheet
<1>5. AsksAsStored' /\ Answered'
  BY <1>1 DEF AsksAsStored, Answered, Sheet
<1>. QED
  BY <1>1, <1>2, <1>4, <1>5

\* The row, and a form filled from it, have values.
LEMMA RowTypes ==
    ASSUME IInv
    PROVE  /\ \A n \in 1..Version : log[n].values \in Values /\ log[n].hq \in BOOLEAN
           /\ Version \in 1..Version /\ Version \in Nat /\ Version >= 1
           /\ \A a \in Pages, n \in 1..Version : Adopted(a, n) \in Values
<1>. USE LogAndPages, LogAndPagesNext
<1>1. log \in Seq(Entry) /\ Version \in Nat /\ Version >= 1
  BY DEF LogOK, Version
<1>2. \A n \in 1..Version : log[n] \in Entry
  BY <1>1 DEF Version
<1>3. \A n \in 1..Version : log[n].values \in Values /\ log[n].hq \in BOOLEAN
  BY <1>2 DEF Entry
<1>4. \A a \in Pages, n \in 1..Version : Adopted(a, n) \in Values
  BY <1>3 DEF Adopted, Values, Sheet
<1>. QED
  BY <1>1, <1>3, <1>4

\* The page merged with a version it read.
LEMMA MergedTypes ==
    ASSUME IInv, NEW a \in Pages, NEW n \in 1..Version, NEW phase \in Phases
    PROVE  LET sheet == Merged(a, n, phase) IN
           /\ sheet \in Sheet(Version)
           /\ sheet.at = phase /\ sheet.store = n /\ sheet.base = log[n].values /\ sheet.draft = Adopted(a, n)
           /\ sheet.form = 0 /\ ~sheet.unadopted
<1>1. page[a] \in Sheet(Version)
  BY LogAndPages
<1>2. log[n].values \in Values /\ Adopted(a, n) \in Values /\ 0 \in 0..Version
  BY RowTypes
<1>. QED
  BY <1>1, <1>2 DEF Merged, Sheet

\* PUT /settings of a page.
LEMMA PutStep ==
    ASSUME IInv, NEW a \in Pages, NEW sheet \in Sheet(Version), Put(a, sheet), UNCHANGED <<legacy, deleted>>
    PROVE  IInv'
<1>. USE LogAndPages, RowTypes
<1>1. CASE IsCurrent(sheet.store)
  <2>. DEFINE new == [sheet EXCEPT !.at = "saved", !.form = Version + 1]
  <2>1. Becomes(a, new) /\ Writes(sheet.draft, log[sheet.store].hq, a, "save")
    BY <1>1 DEF Put
  <2>2. 1..Version \subseteq 1..(Version + 1) /\ 0..Version \subseteq 0..(Version + 1) /\ Version + 1 # 0
        /\ Version + 1 \in 0..(Version + 1)
    OBVIOUS
  <2>3. new \in Sheet(Version + 1) /\ new.store = sheet.store /\ new.at = "saved" /\ new.form = Version + 1
    BY <2>2 DEF Sheet, Phases
  <2>4. sheet.store \in 1..Version /\ sheet.draft \in Values
    BY DEF Sheet
  <2>. HIDE DEF new
  <2>5. Sound(new, log[new.store].values)
    BY <2>2, <2>3 DEF Sound
  <2>6. log[sheet.store].hq = Row.hq /\ log[sheet.store].hq \in BOOLEAN
    BY <1>1, <2>4 DEF IsCurrent, Row
  <2>. QED
    BY <2>1, <2>3, <2>4, <2>5, <2>6, PageWrite
<1>2. CASE ~IsCurrent(sheet.store)
  <2>. DEFINE new == [sheet EXCEPT !.at = "stale", !.form = Version]
  <2>1. Becomes(a, new) /\ log' = log
    BY <1>2 DEF Put
  <2>0. Version \in 0..Version /\ Version # 0
    BY RowTypes
  <2>2. new \in Sheet(Version) /\ new.at = "stale" /\ new.form = Version
    BY ONLY <2>0, sheet \in Sheet(Version) DEF new, Sheet, Phases
  <2>. HIDE DEF new
  <2>3. Sound(new, log[new.store].values)
    BY <2>0, <2>2 DEF Sound
  <2>. QED
    BY <2>1, <2>2, <2>3, PageStep
<1>. QED
  BY <1>1, <1>2

\* What the pages do, one step per operation.
LEMMA OnPageKeeps ==
    ASSUME IInv, NEW a \in Pages, OnPage(a)
    PROVE  IInv'
<1>. USE LogAndPages
<1>1. page[a] \in Sheet(Version) /\ Sound(page[a], log[page[a].store].values)
  BY DEF Sound, AsksAsStored, Answered
<1>2. Version \in 1..Version /\ Version \in 0..Version /\ Version \in Nat /\ Version # 0 /\ 0 \in 0..Version
  BY RowTypes
<1>3. ASSUME NEW f \in Fields, Edit(a, f) PROVE IInv'
  <2>. DEFINE draft == [page[a].draft EXCEPT ![f] = ~@]
              at == IF page[a].at = "confirm" /\ ~TurnsAlarmOff(page[a].store, draft) THEN "editing" ELSE page[a].at
              new == [page[a] EXCEPT !.draft = draft, !.at = at]
  <2>1. draft \in Values
    BY <1>1 DEF Sheet, Values
  <2>2. at \in Phases /\ (at # page[a].at => at = "editing")
    BY <1>1 DEF Sheet, Phases
  <2>3. Becomes(a, new) /\ UNCHANGED <<log, legacy, deleted>>
    BY <1>3 DEF Edit
  <2>. HIDE DEF draft, at
  <2>4. /\ new \in Sheet(Version) /\ new.at = at /\ new.store = page[a].store /\ new.base = page[a].base
        /\ new.form = page[a].form /\ new.unadopted = page[a].unadopted
    BY ONLY <1>1, <2>1, <2>2 DEF new, Sheet
  <2>. HIDE DEF new
  <2>5. Sound(new, log[new.store].values)
    BY <1>1, <2>2, <2>4 DEF Sound
  <2>. QED
    BY <2>3, <2>4, <2>5, PageStep
<1>4. CASE Check(a)
  <2>. DEFINE new == [page[a] EXCEPT !.at = "checking", !.form = Version]
  <2>1. Becomes(a, new) /\ UNCHANGED <<log, legacy, deleted>>
    BY <1>4 DEF Check
  <2>2. new \in Sheet(Version) /\ new.at = "checking" /\ new.form = Version
    BY ONLY <1>1, <1>2 DEF new, Sheet, Phases
  <2>. HIDE DEF new
  <2>3. Sound(new, log[new.store].values)
    BY <1>2, <2>2 DEF Sound
  <2>. QED
    BY <2>1, <2>2, <2>3, PageStep
<1>5. CASE Checked(a)
  <2>. DEFINE version == page[a].form
  <2>1. version \in 1..Version
    BY <1>1, <1>5, <1>2 DEF Checked, Sound, Sheet
  <2>. HIDE DEF version
  <2>2. ASSUME NEW phase \in {"editing", "confirm"}
        PROVE  /\ Merged(a, version, phase) \in Sheet(Version)
               /\ Sound(Merged(a, version, phase), log[Merged(a, version, phase).store].values)
    <3>1. phase \in Phases
      BY DEF Phases
    <3>. QED
      BY <2>1, <3>1, MergedTypes DEF Sound
  <2>3. CASE Becomes(a, Merged(a, version, "editing")) /\ UNCHANGED <<log, legacy, deleted>>
    BY <2>2, <2>3, PageStep
  <2>4. CASE Becomes(a, Merged(a, version, "confirm")) /\ UNCHANGED <<log, legacy, deleted>>
    BY <2>2, <2>4, PageStep
  <2>5. CASE Put(a, Merged(a, version, "editing")) /\ UNCHANGED <<legacy, deleted>>
    BY <2>2, <2>5, PutStep
  <2>. QED
    BY <1>5, <2>3, <2>4, <2>5 DEF Checked, version
<1>6. CASE Confirm(a)
  BY <1>1, <1>6, PutStep DEF Confirm
<1>7. CASE Cancel(a)
  <2>. DEFINE new == [page[a] EXCEPT !.at = "editing"]
  <2>1. Becomes(a, new) /\ UNCHANGED <<log, legacy, deleted>>
    BY <1>7 DEF Cancel
  <2>2. new \in Sheet(Version) /\ new.at = "editing"
    BY ONLY <1>1 DEF new, Sheet, Phases
  <2>. HIDE DEF new
  <2>3. Sound(new, log[new.store].values)
    BY <2>2 DEF Sound
  <2>. QED
    BY <2>1, <2>2, <2>3, PageStep
<1>8. CASE Saved(a)
  <2>. DEFINE version == page[a].form
              new == [page[a] EXCEPT !.at = "editing", !.store = version, !.base = log[version].values,
                                     !.draft = log[version].values, !.form = 0, !.unadopted = FALSE]
  <2>1. Becomes(a, new) /\ UNCHANGED <<log, legacy, deleted>>
    BY <1>8 DEF Saved
  <2>2. version \in 1..Version /\ log[version].values \in Values
    <3>1. version \in 1..Version
      BY <1>1, <1>2, <1>8 DEF Saved, Sound, Sheet
    <3>. QED
      BY <3>1, RowTypes
  <2>. HIDE DEF version
  <2>3. new \in Sheet(Version) /\ new.at = "editing"
    BY ONLY <1>1, <1>2, <2>2 DEF new, Sheet, Phases
  <2>. HIDE DEF new
  <2>4. Sound(new, log[new.store].values)
    BY <2>3 DEF Sound
  <2>. QED
    BY <2>1, <2>3, <2>4, PageStep
<1>9. CASE Stale(a)
  <2>. DEFINE version == page[a].form
  <2>1. version \in 1..Version
    BY <1>1, <1>2, <1>9 DEF Stale, Sound, Sheet
  <2>2. Becomes(a, Merged(a, version, "editing")) /\ UNCHANGED <<log, legacy, deleted>>
    BY <1>9 DEF Stale
  <2>. HIDE DEF version
  <2>3. "editing" \in Phases
    BY DEF Phases
  <2>4. Merged(a, version, "editing") \in Sheet(Version) /\ Merged(a, version, "editing").at = "editing"
    BY <2>1, <2>3, MergedTypes
  <2>. QED
    BY <2>2, <2>4, PageStep DEF Sound
<1>10. ASSUME NEW hq \in BOOLEAN, NEW how \in {"hq", "initial"}, how = "initial" => MayInitialise,
              Writes(Row.values, hq, a, how), Becomes(a, [page[a] EXCEPT !.side = Version + 1]),
              deleted' = deleted, legacy' \subseteq Legacy
       PROVE  IInv'
  <2>. DEFINE new == [page[a] EXCEPT !.side = Version + 1]
  <2>1. /\ new \in Sheet(Version + 1) /\ new.store = page[a].store /\ new.at = page[a].at
        /\ new.base = page[a].base /\ new.form = page[a].form /\ new.unadopted = page[a].unadopted
    <3>1. 1..Version \subseteq 1..(Version + 1) /\ 0..Version \subseteq 0..(Version + 1)
          /\ Version + 1 \in 0..(Version + 1)
      BY <1>2
    <3>. QED
      BY ONLY <1>1, <3>1 DEF new, Sheet
  <2>2. Becomes(a, new)
    BY <1>10
  <2>. HIDE DEF new
  <2>3. new.store \in 1..Version /\ Sound(new, log[new.store].values)
    BY <1>1, <2>1 DEF Sheet, Sound
  <2>4. Row.values \in Values /\ how \in {"save", "hq", "initial"}
    BY <1>2, RowTypes DEF Row
  <2>. QED
    BY <1>10, <2>1, <2>2, <2>3, <2>4, PageWrite
<1>11. ASSUME NEW hq \in BOOLEAN, PutHq(a, hq) PROVE IInv'
  BY <1>10, <1>11 DEF PutHq
<1>12. CASE PutHqInitial(a)
  <2>1. legacy' \subseteq Legacy /\ deleted' = deleted
    BY <1>12 DEF PutHqInitial
  <2>2. CASE MayInitialise /\ Writes(Row.values, TRUE, a, "initial")
             /\ Becomes(a, [page[a] EXCEPT !.side = Version + 1])
    BY <1>10, <2>1, <2>2
  <2>3. CASE UNCHANGED <<log, page>>
    <3>1. Becomes(a, page[a])
      BY <2>3 DEF Becomes
    <3>. QED
      BY <1>1, <2>1, <2>3, <3>1, PageStep
  <2>. QED
    BY <1>12, <2>2, <2>3 DEF PutHqInitial
<1>13. CASE FetchAside(a)
  <2>. DEFINE new == [page[a] EXCEPT !.side = Version]
  <2>1. Becomes(a, new) /\ UNCHANGED <<log, legacy, deleted>>
    BY <1>13 DEF FetchAside
  <2>2. /\ new \in Sheet(Version) /\ new.store = page[a].store /\ new.at = page[a].at
        /\ new.base = page[a].base /\ new.form = page[a].form /\ new.unadopted = page[a].unadopted
    BY ONLY <1>1, <1>2 DEF new, Sheet
  <2>. HIDE DEF new
  <2>3. Sound(new, log[new.store].values)
    BY <1>1, <2>2 DEF Sound
  <2>. QED
    BY <2>1, <2>2, <2>3, PageStep
<1>14. CASE AsideArrives(a)
  <2>. DEFINE adopted == page[a].unadopted \/ page[a].at = "confirm"
              new == [page[a] EXCEPT !.store = page[a].side, !.side = 0, !.unadopted = adopted]
  <2>1. Becomes(a, new) /\ UNCHANGED <<log, legacy, deleted>> /\ page[a].side # 0
    BY <1>14 DEF AsideArrives
  <2>2. adopted \in BOOLEAN /\ page[a].side \in 1..Version
    BY <1>1, <1>2, <2>1 DEF Sheet
  <2>3. page[a].at = "confirm" => adopted
    OBVIOUS
  <2>. HIDE DEF adopted
  <2>4. new \in Sheet(Version) /\ new.at = page[a].at /\ new.form = page[a].form /\ new.unadopted = adopted
    BY ONLY <1>1, <1>2, <2>2 DEF new, Sheet
  <2>. HIDE DEF new
  <2>5. Sound(new, log[new.store].values)
    BY <1>1, <2>3, <2>4 DEF Sound
  <2>. QED
    BY <2>1, <2>4, <2>5, PageStep
<1>. QED
  BY <1>3, <1>4, <1>5, <1>6, <1>7, <1>8, <1>9, <1>11, <1>12, <1>13, <1>14 DEF OnPage

LEMMA NextKeeps == IInv /\ [Next]_vars => IInv'
<1>. SUFFICES ASSUME IInv, [Next]_vars PROVE IInv'
  OBVIOUS
<1>. USE LogAndPages, LogAndPagesNext
<1>1. ASSUME NEW a \in Pages \ deleted, OnPage(a) PROVE IInv'
  BY <1>1, OnPageKeeps
<1>2. Row.values \in Values /\ Row.hq \in BOOLEAN
  BY RowTypes DEF Row
<1>3. ASSUME NEW a \in (Admins \ Pages) \ deleted, Elsewhere(a) PROVE IInv'
  <2>1. a \in Admins \cup {Nobody} /\ a # Nobody
    BY SettingsAssumption
  <2>2. deleted' = deleted /\ UNCHANGED <<page, legacy>>
    BY <1>3 DEF Elsewhere
  <2>3. ASSUME NEW values \in Values, Writes(values, Row.hq, a, "save") PROVE IInv'
    BY <1>2, <2>1, <2>2, <2>3, OtherWrite
  <2>4. ASSUME NEW hq \in BOOLEAN, Writes(Row.values, hq, a, "hq") PROVE IInv'
    BY <1>2, <2>1, <2>2, <2>4, OtherWrite
  <2>. QED
    BY <1>3, <2>3, <2>4 DEF Elsewhere
<1>4. ASSUME NEW a \in Admins \ deleted, DeleteUser(a) PROVE IInv'
  <2>1. a \in deleted' /\ deleted \subseteq deleted' /\ deleted' \subseteq Admins /\ UNCHANGED <<page, legacy>>
    BY <1>4 DEF DeleteUser
  <2>2. CASE Row.by = a /\ Writes(Row.values, Row.hq, Nobody, "deleted")
    BY <1>2, <2>1, <2>2, OtherWrite
  <2>3. CASE log' = log
    <3>1. WrittenBy' /\ ClearedHqStaysCleared'
      BY <2>1, <2>3 DEF LogOK, Version, WrittenBy, ClearedHqStaysCleared, LastSaved
    <3>. QED
      BY <2>1, <2>3, <3>1 DEF LogOK, Version, AsksAsStored, Answered
  <2>. QED
    BY <1>4, <2>2, <2>3 DEF DeleteUser
<1>5. CASE UNCHANGED vars
  BY <1>5 DEF vars, LogOK, Version, WrittenBy, ClearedHqStaysCleared, LastSaved, AsksAsStored, Answered
<1>. QED
  BY <1>1, <1>3, <1>4, <1>5 DEF Next

-----------------------------------------------------------------------------
(* Theorems.                                                               *)

\* The strengthened invariant: who is on record agrees with how each version came about, a version without a writer
\* follows one by a deleted account, and a form that asks its
\* question shows the row its save will name, unless another answer replaced it.
THEOREM SettingsInvariance == Spec => []IInv
<1>1. IInv /\ [Next]_vars => IInv'
  BY NextKeeps
<1>. QED
  BY InitIInv, <1>1, PTL DEF Spec

\* Types: every version is complete, and no page holds a version the row never had.
THEOREM SettingsTypes == Spec => []TypeOK
<1>1. IInv => TypeOK
  BY DEF IInv
<1>. QED
  BY SettingsInvariance, <1>1, PTL

\* A cleared HQ comes back when an admin sets it: not with a page's save, and with a browser's old copy
\* (put_hq_initial) only where nobody has saved, or the account of whoever saved last was deleted.
THEOREM ClearedStays == Spec => []ClearedHqStaysCleared
<1>1. IInv => ClearedHqStaysCleared
  BY DEF IInv
<1>. QED
  BY SettingsInvariance, <1>1, PTL

\* An accepted PUT adds a version with the page's draft; a refused one adds none.
LEMMA PutEffect ==
    ASSUME IInv, NEW a \in Pages, NEW sheet \in Sheet(Version), Put(a, sheet), log' # log
    PROVE  /\ sheet.store = Version
           /\ log'[Len(log')] = [values |-> sheet.draft, hq |-> log[sheet.store].hq, by |-> a, how |-> "save"]
           /\ page'[a].draft = sheet.draft /\ page'[a].base = sheet.base
           /\ \A b \in Pages \ {a} : page'[b] = page[b]
<1>. USE LogAndPages, RowTypes
<1>1. IsCurrent(sheet.store) /\ Writes(sheet.draft, log[sheet.store].hq, a, "save")
      /\ Becomes(a, [sheet EXCEPT !.at = "saved", !.form = Version + 1])
  BY DEF Put
<1>2. sheet.draft \in Values /\ sheet.store \in 1..Version /\ log[sheet.store].hq \in BOOLEAN
      /\ "save" \in Ways /\ a \in Admins \cup {Nobody} /\ log \in Seq(Entry)
  BY SettingsAssumption DEF Sheet, Ways, LogOK
<1>3. Version' = Version + 1
      /\ log'[Version + 1] = [values |-> sheet.draft, hq |-> log[sheet.store].hq, by |-> a, how |-> "save"]
  <2>. DEFINE hq == log[sheet.store].hq
  <2>1. Writes(sheet.draft, hq, a, "save") /\ hq \in BOOLEAN
    BY <1>1, <1>2
  <2>. HIDE DEF hq
  <2>2. Version' = Version + 1 /\ log'[Version + 1] = [values |-> sheet.draft, hq |-> hq, by |-> a, how |-> "save"]
    BY ONLY <1>2, <2>1, WritesEffect
  <2>. QED
    BY <2>2 DEF hq
<1>4. Len(log') = Version + 1
  BY <1>3 DEF Version
<1>5. page'[a] = [sheet EXCEPT !.at = "saved", !.form = Version + 1] /\ \A b \in Pages \ {a} : page'[b] = page[b]
  BY <1>1 DEF Becomes
<1>6. page'[a].draft = sheet.draft /\ page'[a].base = sheet.base
  BY ONLY <1>5, sheet \in Sheet(Version) DEF Sheet
<1>. QED
  BY <1>1, <1>3, <1>4, <1>5, <1>6 DEF IsCurrent

\* What a write puts at the end of the log.
LEMMA LastEntry ==
    ASSUME IInv, NEW values \in Values, NEW hq \in BOOLEAN, NEW by \in Admins \cup {Nobody}, NEW how \in Ways,
           Writes(values, hq, by, how)
    PROVE  log'[Len(log')].by = by /\ log'[Len(log')].how = how
<1>1. log \in Seq(Entry)
  BY LogAndPages DEF LogOK
<1>2. Version' = Version + 1 /\ log'[Version + 1] = [values |-> values, hq |-> hq, by |-> by, how |-> how]
  BY <1>1, WritesEffect
<1>. QED
  BY <1>2 DEF Version

\* A version saved by a page comes from an answer to its check, or from its confirmation.
LEMMA StepSaves ==
    ASSUME IInv, [Next]_vars, NEW a \in Pages,
           log' # log, log'[Len(log')].how = "save", log'[Len(log')].by = a
    PROVE  \E b \in Pages : Checked(b) \/ Confirm(b)
<1>. USE LogAndPages, RowTypes
<1>1. Row.values \in Values /\ Row.hq \in BOOLEAN /\ {"save", "hq", "initial", "deleted"} \subseteq Ways
      /\ a # Nobody /\ Pages \subseteq Admins \cup {Nobody}
  BY SettingsAssumption DEF Row, Ways
<1>2. ASSUME NEW b \in Pages, OnPage(b) PROVE Checked(b) \/ Confirm(b)
  <2>1. ~ \E g \in Fields : Edit(b, g)
    BY DEF Edit
  <2>2. ~Check(b) /\ ~Cancel(b) /\ ~Saved(b) /\ ~Stale(b) /\ ~FetchAside(b) /\ ~AsideArrives(b)
    BY DEF Check, Cancel, Saved, Stale, FetchAside, AsideArrives
  <2>3. ~ \E hq \in BOOLEAN : PutHq(b, hq)
    BY <1>1, LastEntry DEF PutHq
  <2>4. ~PutHqInitial(b)
    <3>1. CASE Writes(Row.values, TRUE, b, "initial")
      BY <1>1, <3>1, LastEntry
    <3>. QED
      BY <3>1 DEF PutHqInitial
  <2>. QED
    BY <1>2, <2>1, <2>2, <2>3, <2>4 DEF OnPage
<1>3. ~ \E b \in (Admins \ Pages) \ deleted : Elsewhere(b)
  <2>. SUFFICES ASSUME NEW b \in (Admins \ Pages) \ deleted, Elsewhere(b) PROVE FALSE
    OBVIOUS
  <2>1. b \in Admins \cup {Nobody} /\ b # a
    OBVIOUS
  <2>2. log'[Len(log')].by = b
    BY <1>1, <2>1, LastEntry DEF Elsewhere
  <2>. QED
    BY <2>1, <2>2
<1>4. ~ \E b \in Admins \ deleted : DeleteUser(b)
  <2>. SUFFICES ASSUME NEW b \in Admins \ deleted, DeleteUser(b) PROVE FALSE
    OBVIOUS
  <2>1. Writes(Row.values, Row.hq, Nobody, "deleted")
    BY DEF DeleteUser
  <2>. QED
    BY <1>1, <2>1, LastEntry
<1>5. ~UNCHANGED vars
  BY DEF vars
<1>. QED
  BY <1>2, <1>3, <1>4, <1>5 DEF Next

\* A page saves what it shows as untouched only with the row's own value, or in the unadopted confirmation.
LEMMA StepOverwrites ==
    ASSUME IInv, [Next]_vars, NEW a \in Pages, Overwrites(a)
    PROVE  page[a].at = "confirm" /\ page[a].unadopted
<1>. USE LogAndPages, RowTypes
<1>1. log' # log /\ log'[Len(log')].how = "save" /\ log'[Len(log')].by = a
  BY DEF Overwrites
<1>2. PICK f \in Fields : log'[Len(log')].values[f] # Row.values[f] /\ page'[a].draft[f] = page'[a].base[f]
  BY DEF Overwrites
<1>3. PICK b \in Pages : Checked(b) \/ Confirm(b)
  BY <1>1, StepSaves
<1>4. ASSUME NEW sheet \in Sheet(Version), Put(b, sheet)
      PROVE  b = a /\ sheet.base # Row.values /\ sheet.store = Version
  <2>0. /\ log'[Len(log')] = [values |-> sheet.draft, hq |-> log[sheet.store].hq, by |-> b, how |-> "save"]
        /\ sheet.store = Version
    BY ONLY <1>1, <1>4, IInv, sheet \in Sheet(Version), b \in Pages, PutEffect
  <2>1. log'[Len(log')].by = b /\ log'[Len(log')].values = sheet.draft /\ sheet.store = Version
    BY ONLY <2>0
  <2>2. b = a
    BY <1>1, <2>1
  <2>3. sheet.draft[f] # Row.values[f] /\ sheet.draft[f] = sheet.base[f]
    BY <1>1, <1>2, <1>4, <2>1, <2>2, PutEffect
  <2>. QED
    BY <2>1, <2>2, <2>3
<1>5. ~Checked(b)
  <2>. SUFFICES ASSUME Checked(b) PROVE FALSE
    OBVIOUS
  <2>. DEFINE version == page[b].form
  <2>1. Put(b, Merged(b, version, "editing")) /\ version \in 1..Version
    BY <1>1 DEF Checked, Answered, Sheet
  <2>. HIDE DEF version
  <2>2. "editing" \in Phases
    BY DEF Phases
  <2>3. /\ Merged(b, version, "editing") \in Sheet(Version)
        /\ Merged(b, version, "editing").store = version
        /\ Merged(b, version, "editing").base = log[version].values
    BY <2>1, <2>2, MergedTypes
  <2>. QED
    BY <1>4, <2>1, <2>3 DEF Row
<1>6. page[b].at = "confirm" /\ Put(b, page[b]) /\ page[b] \in Sheet(Version)
  BY <1>3, <1>5 DEF Confirm
<1>7. b = a /\ page[b].base # Row.values /\ page[b].store = Version
  BY <1>4, <1>6
<1>8. page[b].unadopted \in BOOLEAN
  BY <1>6 DEF Sheet
<1>. QED
  BY <1>6, <1>7, <1>8 DEF AsksAsStored, Row

\* The optimistic lock holds what settings.js promises, but for the confirmation it names (put_settings, doSave).
THEOREM OverwritesAreUnadopted == Spec => OverwritesOnlyUnadopted
<1>1. IInv /\ [Next]_vars => [\A a \in Pages : Overwrites(a) => page[a].at = "confirm" /\ page[a].unadopted]_vars
  BY StepOverwrites
<1>. QED
  BY SettingsInvariance, <1>1, PTL DEF Spec, OverwritesOnlyUnadopted

\* What turns the alarm off is the answer to the question: the save that asks none leaves it as the row has it.
LEMMA StepAsks ==
    ASSUME IInv, [Next]_vars, NEW a \in Pages, SwitchesAlarmOff(a)
    PROVE  page[a].at = "confirm"
<1>. USE LogAndPages, RowTypes
<1>1. log' # log /\ log'[Len(log')].how = "save" /\ log'[Len(log')].by = a
      /\ Row.values["alarm"] /\ ~log'[Len(log')].values["alarm"]
  BY DEF SwitchesAlarmOff
<1>2. PICK b \in Pages : Checked(b) \/ Confirm(b)
  BY <1>1, StepSaves
<1>3. ASSUME NEW sheet \in Sheet(Version), Put(b, sheet)
      PROVE  b = a /\ sheet.store = Version /\ ~sheet.draft["alarm"]
  <2>0. /\ log'[Len(log')] = [values |-> sheet.draft, hq |-> log[sheet.store].hq, by |-> b, how |-> "save"]
        /\ sheet.store = Version
    BY ONLY <1>1, <1>3, IInv, sheet \in Sheet(Version), b \in Pages, PutEffect
  <2>1. log'[Len(log')].by = b /\ log'[Len(log')].values = sheet.draft /\ sheet.store = Version
    BY ONLY <2>0
  <2>. QED
    BY <1>1, <2>1
<1>4. CASE Confirm(b)
  <2>1. page[b].at = "confirm" /\ Put(b, page[b]) /\ page[b] \in Sheet(Version)
    BY <1>4 DEF Confirm
  <2>. QED
    BY <1>3, <2>1
<1>5. CASE Checked(b)
  <2>. DEFINE version == page[b].form
  <2>1. /\ Put(b, Merged(b, version, "editing")) /\ version \in 1..Version
        /\ ~TurnsAlarmOff(version, Adopted(b, version))
    BY <1>1, <1>5 DEF Checked, Answered, Sheet
  <2>. HIDE DEF version
  <2>2. "editing" \in Phases
    BY DEF Phases
  <2>3. /\ Merged(b, version, "editing") \in Sheet(Version)
        /\ Merged(b, version, "editing").store = version
        /\ Merged(b, version, "editing").draft = Adopted(b, version)
    BY <2>1, <2>2, MergedTypes
  <2>. QED
    BY <1>1, <1>3, <2>1, <2>3 DEF TurnsAlarmOff, Row
<1>. QED
  BY <1>2, <1>4, <1>5

\* "a stale page cannot switch an alarm off without the confirmation" (onSave, put_settings).
THEOREM AlarmOffIsAsked == Spec => AlarmOffOnlyAsked
<1>1. IInv /\ [Next]_vars => [\A a \in Pages : SwitchesAlarmOff(a) => page[a].at = "confirm"]_vars
  BY StepAsks
<1>. QED
  BY SettingsInvariance, <1>1, PTL DEF Spec, AlarmOffOnlyAsked

-----------------------------------------------------------------------------
(* What the operator has typed.                                            *)

\* Filling the form with a newer row changes a field only where the operator has not edited it.
LEMMA MergeKeepsTyped ==
    ASSUME IInv, NEW a \in Pages, NEW n \in 1..Version, NEW phase \in Phases, NEW f \in Fields,
           Merged(a, n, phase).draft[f] # page[a].draft[f]
    PROVE  page[a].draft[f] = page[a].base[f]
<1>1. Merged(a, n, phase).draft = Adopted(a, n)
  BY MergedTypes
<1>. QED
  BY <1>1 DEF Adopted

\* A save sends the form as it is and leaves it so, whether it is accepted or refused.
LEMMA PutKeepsDraft ==
    ASSUME NEW n \in Nat, NEW a \in Pages, NEW sheet \in Sheet(n), Put(a, sheet)
    PROVE  page'[a].draft = sheet.draft \/ page'[a] = page[a]
<1>1. \/ Becomes(a, [sheet EXCEPT !.at = "saved", !.form = Version + 1])
      \/ Becomes(a, [sheet EXCEPT !.at = "stale", !.form = Version])
  BY DEF Put
<1>2. ASSUME NEW phase, NEW form, Becomes(a, [sheet EXCEPT !.at = phase, !.form = form])
      PROVE  page'[a].draft = sheet.draft \/ page'[a] = page[a]
  <2>1. [sheet EXCEPT !.at = phase, !.form = form].draft = sheet.draft
    BY ONLY sheet \in Sheet(n) DEF Sheet
  <2>2. page'[a] = [sheet EXCEPT !.at = phase, !.form = form] \/ page'[a] = page[a]
    BY <1>2 DEF Becomes
  <2>. QED
    BY <2>1, <2>2
<1>. QED
  BY <1>1, <1>2

\* An answer that reaches the form changes what was typed only when it answers the page's own save.
LEMMA StepKeepsTyped ==
    ASSUME IInv, [Next]_vars, NEW a \in Pages, NEW f \in Fields,
           page'[a].form # page[a].form, page'[a].draft[f] # page[a].draft[f]
    PROVE  page[a].draft[f] = page[a].base[f] \/ page[a].at = "saved"
<1>. USE LogAndPages
<1>1. page[a] \in Sheet(Version) /\ page \in [Pages -> Sheet(Version)] /\ Version \in Nat
  BY RowTypes
<1>2. ASSUME NEW b \in Pages, NEW sheet, Becomes(b, sheet)
      PROVE  b = a /\ page'[a] = sheet
  BY <1>1, <1>2 DEF Becomes
<1>3. PICK b \in Pages : OnPage(b)
  BY DEF Next, Elsewhere, DeleteUser, vars
<1>4. \A phase \in Phases, n \in 1..Version : page'[a] = Merged(a, n, phase) => page[a].draft[f] = page[a].base[f]
  BY MergeKeepsTyped
<1>5. {"editing", "confirm"} \subseteq Phases
  BY DEF Phases
<1>6. page[b].at \in {"checking", "saved", "stale"} => page[b].form \in 1..Version
  BY <1>1 DEF Answered, Sheet
<1>7. CASE \E g \in Fields : Edit(b, g)
  <2>1. PICK g \in Fields : Edit(b, g)
    BY <1>7
  <2>. DEFINE draft == [page[b].draft EXCEPT ![g] = ~@]
              at == IF page[b].at = "confirm" /\ ~TurnsAlarmOff(page[b].store, draft) THEN "editing" ELSE page[b].at
              new == [page[b] EXCEPT !.draft = draft, !.at = at]
  <2>2. Becomes(b, new)
    BY <2>1 DEF Edit
  <2>3. page'[a].form = page[a].form
    <3>. HIDE DEF draft, at
    <3>1. b = a /\ page'[a] = new
      BY <1>2, <2>2
    <3>2. new.form = page[b].form
      BY <1>1 DEF Sheet
    <3>. QED
      BY <3>1, <3>2
  <2>. QED
    BY <2>3
<1>8. CASE Check(b)
  <2>1. b = a /\ page'[a] = [page[b] EXCEPT !.at = "checking", !.form = Version]
    BY <1>2, <1>8 DEF Check
  <2>2. page'[a].draft = page[a].draft
    BY <1>1, <2>1 DEF Sheet
  <2>. QED
    BY <2>2
<1>9. CASE Checked(b)
  <2>. DEFINE n == page[b].form
  <2>1. n \in 1..Version
    BY <1>6, <1>9 DEF Checked
  <2>2. ASSUME NEW phase \in {"editing", "confirm"}, Becomes(b, Merged(b, n, phase))
        PROVE  page[a].draft[f] = page[a].base[f]
    <3>1. b = a /\ page'[a] = Merged(b, n, phase)
      BY <1>2, <2>2
    <3>. QED
      BY <1>4, <1>5, <2>1, <3>1
  <2>3. CASE Put(b, Merged(b, n, "editing"))
    <3>1. Merged(b, n, "editing") \in Sheet(Version)
      BY <1>5, <2>1, MergedTypes
    <3>2. page'[b].draft = Merged(b, n, "editing").draft \/ page'[b] = page[b]
      BY <1>1, <2>3, <3>1, PutKeepsDraft
    <3>3. b = a
      BY <1>2, <2>3 DEF Put
    <3>. QED
      BY <1>5, <2>1, <3>2, <3>3, MergeKeepsTyped
  <2>. QED
    BY <1>9, <2>2, <2>3 DEF Checked
<1>10. CASE Confirm(b)
  <2>1. b = a
    BY <1>2, <1>10 DEF Confirm, Put
  <2>2. page'[a].draft = page[a].draft \/ page'[a] = page[a]
    BY <1>1, <1>10, <2>1, PutKeepsDraft DEF Confirm
  <2>. QED
    BY <2>2
<1>11. CASE Cancel(b)
  <2>1. b = a /\ page'[a] = [page[b] EXCEPT !.at = "editing"]
    BY <1>2, <1>11 DEF Cancel
  <2>. QED
    BY <1>1, <2>1 DEF Sheet
<1>12. CASE Saved(b)
  BY <1>2, <1>12 DEF Saved
<1>13. CASE Stale(b)
  <2>1. b = a /\ page'[a] = Merged(b, page[b].form, "editing") /\ page[b].form \in 1..Version
    BY <1>2, <1>6, <1>13 DEF Stale
  <2>. QED
    BY <1>4, <1>5, <2>1
<1>14. ASSUME NEW side, Becomes(b, [page[b] EXCEPT !.side = side])
       PROVE  FALSE
  <2>1. b = a /\ page'[a] = [page[b] EXCEPT !.side = side]
    BY <1>2, <1>14
  <2>. QED
    BY <1>1, <2>1 DEF Sheet
<1>15. ~ \E hq \in BOOLEAN : PutHq(b, hq)
  BY <1>14 DEF PutHq
<1>16. ~PutHqInitial(b) /\ ~FetchAside(b)
  BY <1>14 DEF PutHqInitial, FetchAside
<1>17. ~AsideArrives(b)
  <2>. DEFINE unadopted == page[b].unadopted \/ page[b].at = "confirm"
              new == [page[b] EXCEPT !.store = page[b].side, !.side = 0, !.unadopted = unadopted]
  <2>. SUFFICES ASSUME Becomes(b, new) PROVE FALSE
    BY DEF AsideArrives
  <2>1. b = a /\ page'[a] = new
    BY <1>2
  <2>2. new.draft = page[b].draft
    <3>. HIDE DEF unadopted
    <3>. QED
      BY <1>1 DEF Sheet
  <2>. QED
    BY <2>1, <2>2
<1>. QED
  BY <1>3, <1>7, <1>8, <1>9, <1>10, <1>11, <1>12, <1>13, <1>15, <1>16, <1>17 DEF OnPage

\* "an edited field is never overwritten" (SettingsView.vue:265), but by the answer to the page's own save.
THEOREM TypedFieldsStay == Spec => TypedStays
<1>1. IInv /\ [Next]_vars =>
        [\A a \in Pages, f \in Fields :
            page'[a].form # page[a].form /\ page'[a].draft[f] # page[a].draft[f]
            => page[a].draft[f] = page[a].base[f] \/ page[a].at = "saved"]_vars
  BY StepKeepsTyped
<1>. QED
  BY SettingsInvariance, <1>1, PTL DEF Spec, TypedStays

=============================================================================
