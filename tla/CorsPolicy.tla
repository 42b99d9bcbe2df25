------------------------------ MODULE CorsPolicy ------------------------------
(***************************************************************************)
(* The origin check in front of every /api route: parseOrigins            *)
(* (src/helper.js) reads API_CORS_ORIGIN, and additionalCors               *)
(* (src/middlewares/cors-options.js) lets a request through or answers 403.*)
(*                                                                         *)
(* The value of the variable is a sequence of tokens: an origin text that  *)
(* holds no comma and no space (e.g. "http://a"), " " or ",".  An Origin   *)
(* header is one origin text, and so is `http://${host}'.  An unset        *)
(* variable and an empty one are both falsy and are read alike, as << >>;  *)
(* so is a missing Origin header and an empty one.                         *)
(***************************************************************************)
EXTENDS Naturals, Sequences, FiniteSetsExt

NoOrigin == << >>

\* What parseOrigins returns: the string "*", or an array of origins.
AnyOrigin == [star |-> TRUE, list |-> << >>]
OriginList(origins) == [star |-> FALSE, list |-> origins]

RECURSIVE SplitComma(_)
\* value.split(","): the pieces between commas, empty ones included.
SplitComma(s) ==
    IF \E k \in 1..Len(s) : s[k] = ","
    THEN LET c == Min({k \in 1..Len(s) : s[k] = ","})
         IN  << SubSeq(s, 1, c - 1) >> \o SplitComma(SubSeq(s, c + 1, Len(s)))
    ELSE << s >>

\* String.prototype.trim on texts whose only white space is " ".
Trim(s) ==
    LET kept == {k \in 1..Len(s) : s[k] # " "}
    IN  IF kept = {} THEN << >> ELSE SubSeq(s, Min(kept), Max(kept))

NonEmpty(o) == o # << >>

\* Mutant of parseOrigins: the pieces are not trimmed.
parseOriginsNoTrim(value) ==
    IF value = << >> THEN AnyOrigin
    ELSE LET origins == SelectSeq(SplitComma(value), NonEmpty)
         IN  IF origins # << >> THEN OriginList(origins) ELSE AnyOrigin

(***************************************************************************)
(* parseOrigins: "*" for an unset or empty value; otherwise the pieces     *)
(* between commas, trimmed, without the empty ones, or "*" if none is left.*)
(***************************************************************************)
parseOrigins(value) ==
    IF value = << >> THEN AnyOrigin
    ELSE LET parts   == SplitComma(value)
             origins == SelectSeq([k \in 1..Len(parts) |-> Trim(parts[k])], NonEmpty)
         IN  IF origins # << >> THEN OriginList(origins) ELSE AnyOrigin

\* allowedOrigins.includes(x): membership for the array; for the string "*"
\* it is String.prototype.includes, a substring test.
AllowedIncludes(allowed, x) ==
    IF allowed.star THEN x \in {<< >>, << "*" >>}
    ELSE \E k \in 1..Len(allowed.list) : allowed.list[k] = x

(***************************************************************************)
(* additionalCors: a request with the header whatsback-source: cronjob     *)
(* passes; without an Origin header, `https://${host}' in production and   *)
(* `http://${host}' otherwise must be allowed; with one, the origin must   *)
(* be.  TRUE is next(), FALSE the 403.                                     *)
(***************************************************************************)
ExpectedHost(req) == << (IF req.production THEN "https://" ELSE "http://") \o req.host >>

additionalCors(value, req) ==
    LET allowed == parseOrigins(value)
    IN  \/ req.cronjob
        \/ /\ req.origin = NoOrigin => AllowedIncludes(allowed, ExpectedHost(req))
           /\ req.origin # NoOrigin => AllowedIncludes(allowed, req.origin)

-----------------------------------------------------------------------------

(***************************************************************************)
(* The origins a value lists, read without parseOrigins: the non-empty     *)
(* stretches that hold no comma, start and end with a non-space, and have  *)
(* only spaces between them and the nearest commas (or the ends).           *)
(***************************************************************************)
ConfiguredOrigins(value) ==
    LET n == Len(value)
        Blank(i, j) == \A k \in i..j : value[k] = " "
        Bounded(i, j) ==
            /\ value[i] # " " /\ value[j] # " "
            /\ \A k \in i..j : value[k] # ","
            /\ \E a \in 0..(i - 1) : (a = 0 \/ value[a] = ",") /\ Blank(a + 1, i - 1)
            /\ \E b \in (j + 1)..(n + 1) : (b = n + 1 \/ value[b] = ",") /\ Blank(j + 1, b - 1)
        Stretches == {<<i, j>> \in (1..n) \X (1..n) : i <= j /\ Bounded(i, j)}
    IN  {SubSeq(value, s[1], s[2]) : s \in Stretches}

(***************************************************************************)
(* With at least one origin configured, additionalCors lets a request      *)
(* through exactly when it comes from the scheduler, or its Origin (its    *)
(* scheme and host when it has none) is one of the origins the variable    *)
(* lists, however commas and spaces are placed around them.                *)
(***************************************************************************)
AdmitsExactlyConfiguredOrigins(value, req) ==
    ConfiguredOrigins(value) # {} =>
        (additionalCors(value, req)
           <=> \/ req.cronjob
               \/ (IF req.origin = NoOrigin THEN ExpectedHost(req) ELSE req.origin)
                     \in ConfiguredOrigins(value))

================================================================================
