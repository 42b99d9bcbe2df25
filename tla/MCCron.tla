------------------------------- MODULE MCCron -------------------------------
(***************************************************************************)
(* Checks the cron validator and translator against their references.     *)
(* The state is one input and Init ranges over all of them, tagged by the  *)
(* check they feed: a single field at a position of the Quartz table, a   *)
(* whole expression for the validator, an integer for getOrdinal, and an   *)
(* expression for the description.  Nums holds, for every bound of the     *)
(* validator tables, the bound and the integer just past it, plus the     *)
(* bounds of `nth' in "n#nth"; the description inputs keep to the month    *)
(* and day bounds so that the number of expressions stays small.           *)
(*                                                                         *)
(* One more kind of input opens a page script with infinite-scroll lists   *)
(* (PagedList): from it the state moves on, through the script's handlers  *)
(* and responses; every other input keeps the lists closed and never       *)
(* moves.                                                                  *)
(***************************************************************************)
EXTENDS CronTranslate, PhoneNumbers, CorsPolicy

VARIABLE input

VARIABLES page, hasMore, isLoading, searchTerm, shown, inflight, overlapped

listVars == <<page, hasMore, isLoading, searchTerm, shown, inflight, overlapped>>

VARIABLES visible, disabled, pending

modalVars == <<visible, disabled, pending>>

MCNums == {0, 1, 5, 6, 7, 8, 12, 13, 23, 24, 31, 32, 59, 60}
TNums  == {0, 1, 2, 5, 6, 7, 8, 12, 13}

\* A handful of parts of every kind, for the fields that are lists.
ListParts == {Star, LastL, Other, StarStep(0), StarStep(7), Num(0), Num(7),
              NumL(7), Span(1, 5), SpanStep(1, 5, 8), Hash(7, 5), Hash(1, 6)}

FieldInputs ==
    {[pos |-> i, parts |-> << p >>] : i \in 1..6, p \in Parts}
    \cup {[pos |-> i, parts |-> << p, q >>] : i \in 1..6, p, q \in ListParts}

\* Expressions of 4 to 7 fields, each field "*", "32" or "L".
ExprFields == {<< Star >>, << Num(32) >>, << LastL >>}
ExprInputs == UNION {[1..n -> ExprFields] : n \in 4..7}

\* Single parts over TNums, and two-part lists of a few parts.
TParts ==
    {Star, LastL, Other}
    \cup {StarStep(n) : n \in TNums} \cup {Num(n) : n \in TNums}
    \cup {NumL(n) : n \in TNums} \cup {Span(x, y) : x, y \in TNums}
    \cup {SpanStep(x, y, n) : x, y, n \in TNums} \cup {Hash(n, k) : n, k \in TNums}
TListParts == {Star, LastL, StarStep(2), Num(0), Num(7), Num(12), NumL(5),
               Span(1, 5), SpanStep(1, 5, 2), Hash(6, 2)}
TFields == {<< p >> : p \in TParts} \cup {<< p, q >> : p, q \in TListParts}

\* The 5-field expression "* * * * *" with field i replaced.
Varying(field, i) == [j \in 1..5 |-> IF j = i THEN field ELSE << Star >>]

DescInputs ==
    {Varying(f, i) : f \in TFields, i \in 1..5}
    \cup {<< fs >> \o Varying(<< Star >>, 1) : fs \in TFields}

\* Stored numbers: "62" and a subscriber part of 8 to 16 digits starting
\* with 8, filled with a digit pattern that includes 0; lengths 10..15 take
\* the grouped display, the others the default case.
Subscriber(k) == [i \in 1..k |-> IF i = 1 THEN "8" ELSE ToString((i * 7) % 10)]
PhoneInputs == {CountryCode \o Subscriber(k) : k \in 8..16}

\* API_CORS_ORIGIN values of up to four tokens, and the requests of one host.
OriginTexts == {"http://a", "https://a", "http://b"}
CorsValues == UNION {[1..n -> {"http://a", "http://b", " ", ","}] : n \in 0..4}
CorsRequests ==
    [cronjob : BOOLEAN, origin : {<< o >> : o \in OriginTexts} \cup {NoOrigin},
     host : {"a"}, production : BOOLEAN]

\* The tables behind the lists, two rows a page: three contacts, of which
\* "a" matches two (a full page) and "b" none; two groups (a full page), of
\* which "a" matches one.  The group picker's table has three groups.
ListTerms == {"", "a", "b"}
ListMatches ==
    LET contacts == ("" :> << "c1", "c2", "c3" >>) @@ ("a" :> << "c1", "c2" >>) @@ ("b" :> << >>)
        groups   == ("" :> << "g1", "g2" >>) @@ ("a" :> << "g1" >>) @@ ("b" :> << >>)
    IN  ("contacts" :> contacts) @@ ("groups" :> groups) @@ ("picker" :> contacts)
        @@ ("groupPicker" :> (("" :> << "g1", "g2", "g3" >>) @@ ("a" :> << >>) @@ ("b" :> << >>)))

ContactPage == INSTANCE PagedList WITH
    Lists <- {"contacts", "groups"}, EndsOnEmpty <- {"contacts", "groups"},
    Scrollable <- {"contacts", "groups"}, Searchable <- {"contacts", "groups"},
    GlobalSearched <- {"contacts", "groups"}, Terms <- ListTerms,
    Matches <- ListMatches, PerPage <- 2, NoneFound <- "none"
Modals == INSTANCE SendModals WITH NoneFound <- "none"
MessagePage == INSTANCE PagedList WITH
    Lists <- {"picker"}, EndsOnEmpty <- {}, Scrollable <- {"picker"},
    Searchable <- {"picker"}, GlobalSearched <- {}, Terms <- ListTerms,
    Matches <- ListMatches, PerPage <- 2, NoneFound <- "none"
GroupPage == INSTANCE PagedList WITH
    Lists <- {"groupPicker"}, EndsOnEmpty <- {}, Scrollable <- {},
    Searchable <- {}, GlobalSearched <- {}, Terms <- ListTerms,
    Matches <- ListMatches, PerPage <- 2, NoneFound <- "none"

\* An input is a one-field record whose key names the check it feeds.
Inputs ==
    {[field |-> x] : x \in FieldInputs} \cup {[expr |-> x] : x \in ExprInputs}
    \cup {[ordinal |-> x] : x \in 0..200} \cup {[desc |-> x] : x \in DescInputs}
    \cup {[phone |-> x] : x \in PhoneInputs}
    \cup {[cors |-> [value |-> v, req |-> r]] : v \in CorsValues, r \in CorsRequests}

Is(check) == check \in DOMAIN input
OnPage(p) == Is("page") /\ input.page = p

ListsClosed ==
    /\ page = << >> /\ hasMore = << >> /\ isLoading = << >> /\ searchTerm = << >>
    /\ shown = << >> /\ inflight = << >> /\ overlapped = << >>

\* Only the contacts page has the send modals.
ModalsAbsent ==
    /\ visible = << >> /\ disabled = << >> /\ pending = << >>

Init ==
    \/ input \in Inputs /\ ListsClosed /\ ModalsAbsent
    \/ input = [page |-> "contact.js"] /\ ContactPage!ListInit /\ Modals!ModalInit
    \/ input = [page |-> "message.js"] /\ MessagePage!ListInit /\ ModalsAbsent
    \/ input = [page |-> "group.js"] /\ GroupPage!ListInit /\ ModalsAbsent

Next ==
    \/ OnPage("contact.js") /\ ContactPage!ListNext /\ UNCHANGED <<input, modalVars>>
    \/ OnPage("contact.js") /\ Modals!ModalNext /\ UNCHANGED <<input, listVars>>
    \/ OnPage("message.js") /\ MessagePage!ListNext /\ UNCHANGED <<input, modalVars>>
    \/ OnPage("group.js") /\ GroupPage!ListNext /\ UNCHANGED <<input, modalVars>>
    \/ UNCHANGED <<input, listVars, modalVars>>

Spec     == Init /\ [][Next]_<<input, listVars, modalVars>>
DescSpec == input \in {[desc |-> x] : x \in DescInputs} /\ ListsClosed /\ ModalsAbsent
            /\ [][Next]_<<input, listVars, modalVars>>

Accepted(e) == validateCronExpression(e).valid
NoUndefined(items) == \A k \in DOMAIN items : items[k].kind # Undefined.kind

(***************************************************************************)
(* isValidCronField accepts a field, at every position of the Quartz       *)
(* table, exactly when every comma-separated part is one the grammar of    *)
(* section 4.1 accepts for that field's bounds and options.                *)
(***************************************************************************)
FieldValidatorMatchesSpec ==
    Is("field") =>
        LET v == QuartzValidators[input.field.pos]
        IN  isValidCronField(input.field.parts, v.min, v.max, v.options)
              = SpecFieldValid(input.field.parts, SpecBounds(6)[input.field.pos])

(***************************************************************************)
(* validateCronExpression accepts exactly the 5- and 6-field expressions   *)
(* whose fields all pass their own bounds, and otherwise names the first   *)
(* failing field (or the field count).                                     *)
(***************************************************************************)
ExpressionValidatorMatchesSpec ==
    Is("expr") => validateCronExpression(input.expr) = SpecValidate(input.expr)

(***************************************************************************)
(* getOrdinal, with JavaScript's remainder and its undefined-skipping      *)
(* `||', gives the English suffix for every n in 0..200: 1st, 2nd, 3rd,    *)
(* 4th, and th for 11, 12, 13, 111, 112, 113.                              *)
(***************************************************************************)
OrdinalMatchesEnglish ==
    Is("ordinal") => getOrdinal(input.ordinal) = EnglishOrdinal(input.ordinal)

(***************************************************************************)
(* describeMonth never prints "undefined" for a month field the validator  *)
(* accepted: monthNames[parseInt(m) - 1] is in range for every month the   *)
(* validator lets through, single, listed or as a range end.               *)
(***************************************************************************)
MonthNamesDefined ==
    Is("desc") => (Accepted(input.desc) => NoUndefined(ItemsOf(input.desc, 4)))

(***************************************************************************)
(* Every day-of-week number the validator accepts (0..7, alone, in lists,  *)
(* ranges, "nL" and "n#k") gets a day name: 7 must name Sunday like 0.     *)
(***************************************************************************)
NumericDaysNamed ==
    Is("desc") =>
        LET dow == input.desc[Len(input.desc)]
        IN  (Accepted(input.desc) /\ \A k \in DOMAIN dow : ParseInt(dow[k]) # NaN)
               => NoUndefined(ItemsOf(input.desc, 5))

(***************************************************************************)
(* Every way a stored contact's number is written (as stored, as the       *)
(* dashboard shows it, with a trunk 0) makes the direct send route address *)
(* that contact and recordMessageHistory find it.                          *)
(***************************************************************************)
PhoneSpellingsReachContact ==
    Is("phone") => SpellingsReachStoredContact(input.phone)

(***************************************************************************)
(* additionalCors admits exactly the scheduler's requests and those whose  *)
(* origin API_CORS_ORIGIN lists, whatever spaces and empty entries the     *)
(* value has.                                                              *)
(***************************************************************************)
CorsAdmitsConfiguredOrigins ==
    Is("cors") => AdmitsExactlyConfiguredOrigins(input.cors.value, input.cors.req)

(***************************************************************************)
(* On every page, the isLoading flag keeps each list to one GET in flight, *)
(* however scrolls, searches and the global search interleave with the     *)
(* responses.                                                              *)
(***************************************************************************)
ListsOneFetchInFlight ==
    /\ OnPage("contact.js") => ContactPage!OneFetchInFlight
    /\ OnPage("message.js") => MessagePage!OneFetchInFlight
    /\ OnPage("group.js") => GroupPage!OneFetchInFlight

(***************************************************************************)
(* On every page, a list at its end shows the rows its term matches, once  *)
(* each and in order, unless its last search overlapped a load.            *)
(***************************************************************************)
ListsSettleComplete ==
    /\ OnPage("contact.js") => ContactPage!SettledListComplete
    /\ OnPage("message.js") => MessagePage!SettledListComplete
    /\ OnPage("group.js") => GroupPage!SettledListComplete

(***************************************************************************)
(* On the contacts page, each send modal's form has at most one POST       *)
(* awaiting an answer, whatever the lists and the modals do meanwhile.     *)
(***************************************************************************)
ModalsOneSendPerForm == OnPage("contact.js") => Modals!OneSendPerForm

(***************************************************************************)
(* The description of any expression the validator accepts names a day    *)
(* for every day-of-week item: describeDayOfWeekItem never prints          *)
(* "undefined".                                                            *)
(***************************************************************************)
DayNamesDefined ==
    Is("desc") => (Accepted(input.desc) => NoUndefined(ItemsOf(input.desc, 5)))

================================================================================
