----------------------------- MODULE CronTranslate -----------------------------
(***************************************************************************)
(* Cron.translate of src/libs/cron-parser.js, the description the cron     *)
(* preview (POST /api/cron-next-runs) returns for an expression the        *)
(* dashboard's validator has accepted.                                     *)
(*                                                                         *)
(* Fields and parts are those of CronValidator.  A clause of the           *)
(* description is its form (which template string the code returns) and   *)
(* the sequence of the names and ordinals it interpolates: a day name, a   *)
(* month name, an ordinal, a token passed through as text, or the string   *)
(* "undefined" that JavaScript prints for a lookup past the end of         *)
(* dayNames or monthNames.  Wording and punctuation are left out.          *)
(***************************************************************************)
EXTENDS Integers, CronValidator

NaN == -1    \* what parseInt returns when the text starts with no digit

\* The string operations of the code, on the abstract parts.
ParseInt(p) == IF p.kind \in {"num", "numL", "range", "rangeStep", "hash"}
               THEN p.a ELSE NaN
IsNaN(p)    == p.kind # "num"          \* isNaN(m): Number(m) of the text
HasSlash(p) == p.kind \in {"starStep", "rangeStep"}
HasDash(p)  == p.kind \in {"range", "rangeStep"}
IsStar(field) == field = << Star >>
Includes(field, Has(_)) == \E i \in DOMAIN field : Has(field[i])
IsList(field) == Len(field) > 1

Undefined == [kind |-> "undefined", v |-> 0]
Day(i)    == [kind |-> "day",   v |-> i]      \* dayNames[i]
Month(i)  == [kind |-> "month", v |-> i]      \* monthNames[i - 1]
Text(p)   == [kind |-> "text",  v |-> p]      \* the token itself
Clause(form, items) == [form |-> form, items |-> items]

\* `n % 7' then dayNames[..]: JavaScript's NaN % 7 is NaN, an undefined index.
\* Mutant of DayName: the `% 7' dropped, as for a 1..7 table.
DayNameNoMod(x) == IF x \in 0..6 THEN Day(x) ELSE Undefined

DayName(x) == IF x = NaN THEN Undefined ELSE Day(x % 7)

MonthName(k) == IF k \in 0..11 THEN Month(k + 1) ELSE Undefined

\* Mutant of MonthOf: monthNames indexed by the month number itself.
MonthOfNoOffset(p) == IF IsNaN(p) THEN Text(p) ELSE MonthName(ParseInt(p))

\* `isNaN(m) ? m : monthNames[parseInt(m, 10) - 1]'
MonthOf(p) == IF IsNaN(p) THEN Text(p) ELSE MonthName(ParseInt(p) - 1)

(***************************************************************************)
(* getOrdinal: `s[(v - 20) % 10] || s[v] || s[0]' with v = n % 100.  The   *)
(* JavaScript remainder takes the sign of the dividend, and an index       *)
(* outside 0..3 of s reads undefined, which `||' skips.                    *)
(***************************************************************************)
OrdinalSuffixes == << "th", "st", "nd", "rd" >>
JsRem(x, y) == IF x >= 0 THEN x % y ELSE -((-x) % y)
SuffixAt(i) == IF i \in 0..3 THEN OrdinalSuffixes[i + 1] ELSE "undefined"

\* Mutant of getOrdinal: the `% 100' dropped.
getOrdinalNoHundred(n) ==
    IF n = NaN THEN "th"
    ELSE IF SuffixAt(JsRem(n - 20, 10)) # "undefined" THEN SuffixAt(JsRem(n - 20, 10))
    ELSE IF SuffixAt(n) # "undefined" THEN SuffixAt(n) ELSE "th"

getOrdinal(n) ==
    IF n = NaN THEN "th"
    ELSE LET v == n % 100
             first == SuffixAt(JsRem(v - 20, 10))
         IN  IF first # "undefined" THEN first
             ELSE IF SuffixAt(v) # "undefined" THEN SuffixAt(v) ELSE "th"

Ordinal(p) == [kind |-> "ordinal", v |-> << ParseInt(p), getOrdinal(ParseInt(p)) >>]

\* describeField, for minute and hour: no names, only the form.
describeField(field) ==
    CASE IsStar(field)                          -> Clause("every", << >>)
      [] Includes(field, LAMBDA p : p.kind = "starStep") -> Clause("everyStep", << >>)
      [] IsList(field)                          -> Clause("atList", << >>)
      [] field[1].kind = "rangeStep"             -> Clause("stepFromTo", << >>)
      [] field[1].kind = "range"                 -> Clause("fromTo", << >>)
      [] OTHER                                  -> Clause("at", << >>)

\* secondDesc: "*" or "*/n", otherwise "at second".
SecondDesc(field) ==
    IF IsStar(field) THEN Clause("every", << >>)
    ELSE IF Includes(field, LAMBDA p : p.kind = "starStep")
         THEN Clause("everyStep", << >>) ELSE Clause("at", << >>)

describeDayOfMonthItem(p) ==
    CASE p.kind = "L"                -> [kind |-> "last", v |-> 0]
      [] HasSlash(p) /\ HasDash(p)   -> Text(p)
      [] HasDash(p)                  -> Text(p)
      [] HasSlash(p)                 -> Text(p)
      [] OTHER                       -> Ordinal(p)

describeDayOfMonth(field) ==
    IF IsStar(field) THEN Clause("everyDay", << >>)
    ELSE Clause(IF IsList(field) THEN "onList" ELSE "on",
                [i \in DOMAIN field |-> describeDayOfMonthItem(field[i])])

\* describeMonth: a single range is split on "-"; its end text is "b" or
\* "b/s", and only the first is a number.
describeMonth(field) ==
    LET p == field[1]
    IN  CASE IsStar(field) -> Clause("everyMonth", << >>)
          [] IsList(field) -> Clause("inList", [i \in DOMAIN field |-> MonthOf(field[i])])
          [] HasDash(p)    -> Clause("fromThrough",
                                << MonthOf(Num(p.a)),
                                   IF p.kind = "range" THEN MonthOf(Num(p.b)) ELSE Text(p) >>)
          [] OTHER         -> Clause("in", << MonthOf(p) >>)

\* describeDayOfWeekItem: "…L" and "d#k" read the number before the mark,
\* anything else goes through parseInt.
describeDayOfWeekItem(p) ==
    CASE p.kind \in {"numL", "L"} -> DayName(ParseInt(p))
      [] p.kind = "hash"          -> DayName(p.a)
      [] OTHER                    -> DayName(ParseInt(p))

\* describeDayOfWeek: a single range is split on "-"; parseInt of the end
\* text "b" or "b/s" is b.
describeDayOfWeek(field) ==
    LET p == field[1]
    IN  CASE IsStar(field) -> Clause("everyDayOfWeek", << >>)
          [] IsList(field) -> Clause("onList",
                                [i \in DOMAIN field |-> describeDayOfWeekItem(field[i])])
          [] HasDash(p)    -> Clause("fromTo", << DayName(p.a), DayName(p.b) >>)
          [] OTHER         -> Clause("on", << describeDayOfWeekItem(p) >>)

(***************************************************************************)
(* translate: the clauses in the order of the description, the seconds    *)
(* clause only in the 6-field form.  It is defined for 5 and 6 fields; for *)
(* any other count the code throws.                                        *)
(***************************************************************************)
translate(fields) ==
    LET off == IF Len(fields) = 6 THEN 1 ELSE 0
        f(i) == fields[i + off]
    IN  (IF off = 1 THEN << SecondDesc(fields[1]) >> ELSE << >>)
        \o << describeField(f(1)), describeField(f(2)), describeDayOfMonth(f(3)),
              describeMonth(f(4)), describeDayOfWeek(f(5)) >>

\* The names and ordinals of the clause of field i (1 = minute).
ItemsOf(fields, i) ==
    LET d == translate(fields) IN d[i + Len(d) - 5].items

\* Reference: the English ordinal suffix, with the 11th-13th exception.
EnglishOrdinal(n) ==
    IF n % 100 \in 11..13 THEN "th"
    ELSE CASE n % 10 = 1 -> "st" [] n % 10 = 2 -> "nd" [] n % 10 = 3 -> "rd"
           [] OTHER -> "th"

================================================================================
