------------------------------- MODULE Expiry ------------------------------
(***************************************************************************)
(* What runs out: the end-of-life calendar of the pinned components        *)
(* (scripts/check-eol.py) and the accepted findings (check-vex.py), read   *)
(* again every day.                                                        *)
(*                                                                         *)
(* A date is a day number, and Bad where the text is none.                 *)
(***************************************************************************)
EXTENDS Integers, Sequences, FiniteSets, SequencesExt

CONSTANTS Soon, StaleDays,   \* SOON, STALE_SNAPSHOT_DAYS
          MaxDays            \* MAX_DAYS

Bad == -1000
IsDate(d) == d # Bad
Special == {"not-yet", "unsupported", "unknown"}
When(c, S) == IF c THEN S ELSE {}

-----------------------------------------------------------------------------
(* check-eol.py *)

\* read_pin: what the file of a row pins, "" where the file or the pattern is gone.
Pin(row, tree) == IF row.file \in DOMAIN tree THEN tree[row.file].pin ELSE ""
Past(row, today) == row.eol.is = "unsupported" \/ (row.eol.is = "date" /\ row.eol.day <= today)
Waived(row, today) == row.waiver # <<>> /\ IsDate(row.waiver[1].until) /\ row.waiver[1].until >= today
\* A row whose pin or end of life cannot be read is one error, and nothing more is read of it.
RowUnread(row, tree) ==
    IF Pin(row, tree) = "" THEN {<<row.id, "pin not read">>}
    ELSE IF Pin(row, tree) # row.pin THEN {<<row.id, "pin differs">>}
    ELSE When(row.eol.is = "date" /\ ~IsDate(row.eol.day), {<<row.id, "eol">>})
RowErrors(row, tree) ==
    IF RowUnread(row, tree) # {} THEN RowUnread(row, tree)
    ELSE When(~row.cycleNamesVersion, {<<row.id, "cycle">>})
         \cup When(row.waiver # <<>> /\ ~IsDate(row.waiver[1].until), {<<row.id, "waiver date">>})
         \cup When(row.waiver # <<>> /\ ~row.waiver[1].reason, {<<row.id, "waiver reason">>})
         \cup When(~IsDate(row.review), {<<row.id, "review date">>})
\* Mutant: the end of life is a warning from the day after.
RowWarningsLate(row, tree, today) == When(row.eol.is = "date" /\ row.eol.day < today /\ ~Waived(row, today), {<<row.id, "past">>})
RowWarnings(row, tree, today) ==
    IF RowUnread(row, tree) # {} THEN {}
    ELSE When(row.waiver # <<>> /\ ~Waived(row, today), {<<row.id, "waiver expired">>})
         \cup (IF Past(row, today) /\ ~Waived(row, today) THEN {<<row.id, "past">>}
               ELSE When(row.eol.is = "date" /\ ~Past(row, today) /\ row.eol.day - today <= Soon, {<<row.id, "soon">>}))
         \cup When(IsDate(row.review) /\ row.review < today, {<<row.id, "review overdue">>})
\* Every chart of a HelmRelease, every vendored dump, has its row.
Uncovered(rows, tree) ==
    (UNION {{<<f, "chart without a row">> : c \in {x \in tree[f].charts : ~\E r \in ToSet(rows) : r.file = f /\ r.names = x}} : f \in DOMAIN tree})
    \cup {<<f, "dump without a row">> : f \in {x \in DOMAIN tree : tree[x].vendored /\ ~\E r \in ToSet(rows) : r.file = x}}
Duplicates(rows) == {<<rows[i].id, "duplicate">> : i \in {k \in DOMAIN rows : \E j \in DOMAIN rows : j # k /\ rows[j].id = rows[k].id}}
EolErrors(cal, tree) ==
    (UNION {RowErrors(r, tree) : r \in ToSet(cal.rows)}) \cup Uncovered(cal.rows, tree) \cup Duplicates(cal.rows)
    \cup When(~IsDate(cal.snapshot), {<<"calendar", "snapshot date">>})
EolWarnings(cal, tree, today) ==
    (UNION {RowWarnings(r, tree, today) : r \in ToSet(cal.rows)})
    \cup When(IsDate(cal.snapshot) /\ today - cal.snapshot > StaleDays, {<<"calendar", "stale snapshot">>})
\* main: warnings fail a strict run only.
EolPasses(cal, tree, today, strict) == EolErrors(cal, tree) = {} /\ (strict => EolWarnings(cal, tree, today) = {})

-----------------------------------------------------------------------------
(* check-vex.py *)

Statuses == {"not_affected", "affected", "fixed", "under_investigation"}
\* Mutant: a statement is measured from today, not from its own date.
VexDatesRolling(s, today) ==
    IF Len(s.expires) # 1 THEN {"not one date"} ELSE When(s.expires[1] < today \/ s.expires[1] - today > MaxDays, {"expired"})
\* Exactly one date, not past, and not too far from the statement's own.
VexDates(s, today) ==
    IF Len(s.expires) # 1 THEN {"not one date"}
    ELSE IF ~IsDate(s.expires[1]) \/ ~IsDate(s.timestamp) THEN {"not a date"}
    ELSE IF s.expires[1] < today THEN {"expired"}
    ELSE When(s.expires[1] < s.timestamp \/ s.expires[1] - s.timestamp > MaxDays, {"not within its days"})
VexStatement(s, today) ==
    When(~s.named, {"no name"}) \cup When(s.products = {}, {"no product"}) \cup When(s.status \notin Statuses, {"unknown status"})
    \cup When(s.status = "not_affected" /\ ~s.justified, {"no justification"})
    \cup When(s.status = "not_affected" /\ ~s.impact, {"no impact"})
    \cup When(~s.action, {"no action"}) \cup VexDates(s, today)
IgnoreEntry(e, today) ==
    When(~e.statement, {"no statement"})
    \cup (IF ~IsDate(e.expiredAt) THEN {"no date"}
          ELSE IF e.expiredAt < today THEN {"expired"} ELSE When(e.expiredAt - today > MaxDays, {"too far"}))
\* main: 0, 1 for a finding, 2 where a file cannot be read (the ignore file may be absent).
VexExit(doc, ignore, today) ==
    IF ~doc.readable \/ (ignore.there /\ ~ignore.readable) THEN 2
    ELSE IF (\A s \in doc.statements : VexStatement(s, today) = {}) /\ (ignore.there => \A e \in ignore.entries : IgnoreEntry(e, today) = {})
         THEN 0 ELSE 1

-----------------------------------------------------------------------------
(* What the checks stand for: day after day, the files unchanged *)

\* On no day does a component past its end go without a live waiver and unsaid, nor does
\* a component of the tree stay out of the calendar; the errors are about the files and
\* never about the day, and a warning for an end that has come does not go away.
CalendarKeepsFaith(c) ==
    LET tree == c.tree
        rows == ToSet(c.cal.rows)
        clean == EolErrors(c.cal, tree) = {}
    IN \A today \in c.days :
         /\ clean => \A r \in rows : (r.eol.is = "unsupported" \/ (r.eol.is = "date" /\ today >= r.eol.day)) =>
              \/ \E w \in EolWarnings(c.cal, tree, today) : w[1] = r.id
              \/ r.waiver # <<>> /\ r.waiver[1].reason /\ today <= r.waiver[1].until
         /\ clean => \A f \in DOMAIN tree : tree[f].vendored \/ tree[f].charts # {} => \E r \in rows : r.file = f /\ r.pin = tree[f].pin
         /\ \A w \in EolWarnings(c.cal, tree, today) : w[2] # "soon" => \A later \in {d \in c.days : d > today} : w \in EolWarnings(c.cal, tree, later)
         /\ \A r \in rows : <<r.id, "soon">> \in EolWarnings(c.cal, tree, today) =>
              \E q \in rows : q.id = r.id /\ q.eol.day \in (today + 1)..(today + Soon)
         /\ EolPasses(c.cal, tree, today, TRUE) => EolPasses(c.cal, tree, today, FALSE)
\* Nothing is accepted for ever: a file that passes does so on days up to the expiry of its
\* statements, MaxDays after their own date (an ignore entry: after the day it is read),
\* and once it fails for its age no later day passes it.
NothingForEver(c) ==
    LET passes(day) == VexExit(c.doc, c.ignore, day) = 0
    IN \A day \in c.days : passes(day) =>
         /\ \A s \in c.doc.statements : day <= s.timestamp + MaxDays /\ s.action /\ s.named
         /\ c.ignore.there => \A e \in c.ignore.entries : e.statement /\ day \in (e.expiredAt - MaxDays)..e.expiredAt
         /\ \A s \in c.doc.statements : s.status = "not_affected" => s.justified /\ s.impact
         /\ \A later \in c.days : later > day /\ ~passes(later) =>
              \/ \E s \in c.doc.statements : s.expires[1] < later
              \/ c.ignore.there /\ \E e \in c.ignore.entries : e.expiredAt < later

-----------------------------------------------------------------------------
Row(id, pin, eol, waiver, review) == [id |-> id, file |-> "f", names |-> "chart", pin |-> pin, eol |-> eol, waiver |-> waiver, review |-> review,
                                      cycleNamesVersion |-> TRUE]
Eols == {[is |-> s, day |-> 0] : s \in Special} \cup {[is |-> "date", day |-> d] : d \in {Bad, 2, 5}}
Waivers == {<<>>} \cup {<<[until |-> u, reason |-> r]>> : u \in {Bad, 3, 7}, r \in BOOLEAN}
Entry(pin, charts, vendored) == [pin |-> pin, charts |-> charts, vendored |-> vendored]
Trees == {[f |-> Entry("1", {"chart"}, FALSE)], [f |-> Entry("", {}, FALSE)], [f |-> Entry("2", {"chart"}, FALSE)],
          [f |-> Entry("1", {"chart", "new"}, FALSE)], [f |-> Entry("1", {}, TRUE), g |-> Entry("1", {}, TRUE)]}
Alone == {<<Row("a", "1", e, w, r)>> : e \in Eols, w \in Waivers, r \in {Bad, 4}}
Unending(id, is) == Row(id, "1", [is |-> is, day |-> 0], <<>>, 6)
Pairs == {<<Row("a", "1", [is |-> "date", day |-> 5], <<>>, 6), Unending(id, "unknown")>> : id \in {"a", "b"}}
Misnamed == [Unending("a", "not-yet") EXCEPT !.cycleNamesVersion = FALSE]
EolCases ==
    {[cal |-> [rows |-> rows, snapshot |-> snap], tree |-> tree, days |-> 0..8] :
       rows \in Alone \cup Pairs \cup {<<>>, <<Misnamed>>}, snap \in {Bad, 0, 4}, tree \in Trees}
Statement(status, justified, impact, action, expires, timestamp) ==
    [named |-> TRUE, products |-> {"p"}, status |-> status, justified |-> justified, impact |-> impact, action |-> action,
     expires |-> expires, timestamp |-> timestamp]
Dated(expires, timestamp) == Statement("not_affected", TRUE, TRUE, TRUE, expires, timestamp)
Statements ==
    {Dated(e, t) : e \in {<<>>, <<2, 3>>} \cup {<<d>> : d \in {Bad, 0, 2, 4, 5, 7}}, t \in {Bad, 0, 1, 2}}
    \cup {Statement(s, j, i, a, <<3>>, 1) : s \in {"not_affected", "fixed", "maybe"}, j, i, a \in BOOLEAN}
Ignores == {[there |-> TRUE, readable |-> g, entries |-> {[statement |-> s, expiredAt |-> d]}] : g, s \in BOOLEAN, d \in {Bad, 1, 3, 6}}
NoIgnore == [there |-> FALSE, readable |-> FALSE, entries |-> {}]
VexCases ==
    {[doc |-> [readable |-> TRUE, statements |-> {s}], ignore |-> NoIgnore, days |-> 0..8] : s \in Statements}
    \cup {[doc |-> [readable |-> r, statements |-> {Dated(<<3>>, 1)}], ignore |-> i, days |-> 0..8] : r \in BOOLEAN, i \in Ignores}
=============================================================================
