----------------------------- MODULE CronValidator -----------------------------
(***************************************************************************)
(* The dashboard's cron validator, public/js/cron-validator.js:            *)
(* isValidCronField and validateCronExpression.                            *)
(*                                                                         *)
(* Text is abstracted to what the validator's regular expressions tell     *)
(* apart.  A field is the sequence of its comma-separated parts, and a     *)
(* part is the shape its text matches ("*", "*/s", "n", "nL", "L", "a-b",  *)
(* "a-b/s", "n#k", or none of them) with the integers parseInt reads from  *)
(* its digit groups.  An expression is the sequence of its fields after    *)
(* trim().split(/\s+/).  The messages are reduced to the index of the      *)
(* field they name (0 for the field-count message).                        *)
(***************************************************************************)
EXTENDS Naturals, Sequences, FiniteSetsExt

CONSTANT Nums    \* the integers a digit group of a part may spell

Star           == [kind |-> "star",      a |-> 0, b |-> 0, c |-> 0]
StarStep(s)    == [kind |-> "starStep",  a |-> s, b |-> 0, c |-> 0]
Num(n)         == [kind |-> "num",       a |-> n, b |-> 0, c |-> 0]
NumL(n)        == [kind |-> "numL",      a |-> n, b |-> 0, c |-> 0]
LastL          == [kind |-> "L",         a |-> 0, b |-> 0, c |-> 0]
Span(x, y)     == [kind |-> "range",     a |-> x, b |-> y, c |-> 0]
SpanStep(x, y, s) == [kind |-> "rangeStep", a |-> x, b |-> y, c |-> s]
Hash(n, k)     == [kind |-> "hash",      a |-> n, b |-> k, c |-> 0]
Other          == [kind |-> "other",     a |-> 0, b |-> 0, c |-> 0]

Parts ==
    {Star, LastL, Other}
    \cup {StarStep(s) : s \in Nums} \cup {Num(n) : n \in Nums}
    \cup {NumL(n) : n \in Nums} \cup {Span(x, y) : x, y \in Nums}
    \cup {SpanStep(x, y, s) : x, y, s \in Nums} \cup {Hash(n, k) : n, k \in Nums}

NoOptions == [allowL |-> FALSE, allowHash |-> FALSE]

\* The validators table of validateCronExpression, 6-field (Quartz) form.
QuartzValidators ==
    << [min |-> 0, max |-> 59, options |-> NoOptions],                     \* Second
       [min |-> 0, max |-> 59, options |-> NoOptions],                     \* Minute
       [min |-> 0, max |-> 23, options |-> NoOptions],                     \* Hour
       [min |-> 1, max |-> 31, options |-> [allowL |-> TRUE, allowHash |-> FALSE]],
       [min |-> 1, max |-> 12, options |-> NoOptions],                     \* Month
       [min |-> 0, max |-> 7,  options |-> [allowL |-> TRUE, allowHash |-> TRUE]] >>

\* Mutant of Validators: the 5-field form checked against the 6-field table.
ValidatorsQuartzOnly(n) == QuartzValidators

\* The 5-field (standard) table is the Quartz one without Second.
Validators(n) == IF n = 5 THEN Tail(QuartzValidators) ELSE QuartzValidators

\* Mutant of StepInBounds: the step compared with `>=' max.
StepInBoundsExclusive(step, max) == 1 <= step /\ step < max

\* `if (step < 1 || step > max) return false;'
StepInBounds(step, max) == 1 <= step /\ step <= max

(***************************************************************************)
(* One pass of the loop body of isValidCronField: TRUE where the code      *)
(* `continue's, FALSE where it returns false.  The regular expressions     *)
(* are tried in the code's order; since the shapes are disjoint, the first *)
(* that matches is the part's kind, and a kind whose option is off falls   *)
(* through to the final `return false'.                                    *)
(***************************************************************************)
PartValid(p, min, max, options) ==
    LET inRange(n) == min <= n /\ n <= max
    IN  CASE p.kind = "star"      -> TRUE
          [] p.kind = "starStep"  -> StepInBounds(p.a, max)
          [] p.kind = "num"       -> inRange(p.a)
          [] p.kind = "numL"      -> options.allowL /\ inRange(p.a)
          [] p.kind = "L"         -> options.allowL
          [] p.kind = "range"     -> p.a <= p.b /\ inRange(p.a) /\ p.b <= max
          [] p.kind = "rangeStep" -> /\ p.a <= p.b /\ inRange(p.a) /\ p.b <= max
                                     /\ StepInBounds(p.c, max)
          [] p.kind = "hash"      -> /\ options.allowHash /\ inRange(p.a)
                                     /\ 1 <= p.b /\ p.b <= 5
          [] OTHER                -> FALSE

\* isValidCronField: the loop over field.split(','), stopping at the first
\* part that fails.
RECURSIVE isValidCronField(_, _, _, _)
isValidCronField(parts, min, max, options) ==
    \/ parts = << >>
    \/ /\ PartValid(Head(parts), min, max, options)
       /\ isValidCronField(Tail(parts), min, max, options)

\* The loop of validateCronExpression from field i on: the index of the
\* first field that fails, or 0 when none does.
RECURSIVE FirstInvalidField(_, _, _)
FirstInvalidField(fields, validators, i) ==
    IF i > Len(fields) THEN 0
    ELSE IF ~isValidCronField(fields[i], validators[i].min, validators[i].max,
                              validators[i].options)
         THEN i
         ELSE FirstInvalidField(fields, validators, i + 1)

(***************************************************************************)
(* validateCronExpression: the field-count check, then the fields left to  *)
(* right.  `field' is the index of the field the message names, 0 for the  *)
(* field-count message and for success.                                    *)
(***************************************************************************)
validateCronExpression(fields) ==
    IF Len(fields) \notin {5, 6}
    THEN [valid |-> FALSE, field |-> 0]
    ELSE LET bad == FirstInvalidField(fields, Validators(Len(fields)), 1)
         IN  [valid |-> bad = 0, field |-> bad]

-------------------------------------------------------------------------------
(***************************************************************************)
(* The reference: the token grammar of sections 4.1 and 4.2 of the design, *)
(* written as the set of parts a field accepts rather than as the code's   *)
(* chain of tests.                                                         *)
(***************************************************************************)
SpecBounds5 ==
    << [min |-> 0, max |-> 59, allowL |-> FALSE, allowHash |-> FALSE],     \* Minute
       [min |-> 0, max |-> 23, allowL |-> FALSE, allowHash |-> FALSE],     \* Hour
       [min |-> 1, max |-> 31, allowL |-> TRUE,  allowHash |-> FALSE],     \* Day of month
       [min |-> 1, max |-> 12, allowL |-> FALSE, allowHash |-> FALSE],     \* Month
       [min |-> 0, max |-> 7,  allowL |-> TRUE,  allowHash |-> TRUE] >>    \* Day of week

SpecBounds(n) ==
    IF n = 5 THEN SpecBounds5
    ELSE << [min |-> 0, max |-> 59, allowL |-> FALSE, allowHash |-> FALSE] >>
         \o SpecBounds5

AcceptedParts(bd) ==
    LET vals   == Nums \cap bd.min..bd.max
        steps  == Nums \cap 1..bd.max
        spans  == {r \in vals \X vals : r[1] <= r[2]}
    IN  {Star} \cup {StarStep(s) : s \in steps} \cup {Num(n) : n \in vals}
        \cup (IF bd.allowL THEN {LastL} \cup {NumL(n) : n \in vals} ELSE {})
        \cup {Span(r[1], r[2]) : r \in spans}
        \cup {SpanStep(r[1], r[2], s) : r \in spans, s \in steps}
        \cup (IF bd.allowHash THEN {Hash(n, k) : n \in vals, k \in Nums \cap 1..5}
                              ELSE {})

SpecFieldValid(parts, bd) == \A i \in DOMAIN parts : parts[i] \in AcceptedParts(bd)

SpecValidate(fields) ==
    IF Len(fields) \notin {5, 6}
    THEN [valid |-> FALSE, field |-> 0]
    ELSE LET bad == {i \in DOMAIN fields :
                        ~SpecFieldValid(fields[i], SpecBounds(Len(fields))[i])}
         IN  [valid |-> bad = {}, field |-> IF bad = {} THEN 0 ELSE Min(bad)]

================================================================================
