----------------------------- MODULE PhoneNumbers -----------------------------
(***************************************************************************)
(* The conversions a phone number goes through between the contacts table  *)
(* and WhatsApp:                                                           *)
(*   - phoneNumberFormatter (src/helper.js), which the direct send route   *)
(*     applies to the number of its body;                                  *)
(*   - formatInternationalPhoneNumber, twice: the dashboard's copy         *)
(*     (public/js/app.js), which the contact picker of the message page     *)
(*     displays, and the server's (src/helper.js), exported and not called; *)
(*   - the key recordMessageHistory looks a contact up by                  *)
(*     (src/models/message_history.js).                                    *)
(*                                                                         *)
(* A JavaScript string is a sequence of one-character strings.  A stored   *)
(* number is what getContacts copied from contact.number: the country code *)
(* followed by the subscriber digits, with nothing else.                   *)
(***************************************************************************)
EXTENDS Naturals, Sequences, SequencesExt, TLC

DigitChars == {"0", "1", "2", "3", "4", "5", "6", "7", "8", "9"}
IsDigitChar(c) == c \in DigitChars

CUs == << "@", "c", ".", "u", "s" >>
CountryCode == << "6", "2" >>

\* Mutant of phoneNumberFormatter: the trunk 0 is kept.
phoneNumberFormatterKeepsZero(number) ==
    LET formatted == SelectSeq(number, IsDigitChar)
    IN  IF IsSuffix(CUs, formatted) THEN formatted ELSE formatted \o CUs

(***************************************************************************)
(* phoneNumberFormatter: replaceAll(/\D/g, "") keeps the digits only, a    *)
(* leading "0" becomes "62", and "@c.us" is appended unless the result      *)
(* already ends with it (it never does: the first step removed the "@").   *)
(***************************************************************************)
phoneNumberFormatter(number) ==
    LET digits    == SelectSeq(number, IsDigitChar)
        formatted == IF IsPrefix(<< "0" >>, digits)
                     THEN CountryCode \o Tail(digits) ELSE digits
    IN  IF IsSuffix(CUs, formatted) THEN formatted ELSE formatted \o CUs

\* recordMessageHistory: messageTarget.replace("@c.us", ""), which removes the
\* first occurrence, is the number contact.find looks for.
HistoryKey(target) == ReplaceFirstSubSeq(<< >>, CUs, target)

\* The switch on localNumber.length: the sizes of $1, $2 and $3.
GroupSizes ==
    (10 :> << 3, 3, 4 >>) @@ (11 :> << 3, 4, 4 >>) @@ (12 :> << 4, 4, 4 >>)
    @@ (13 :> << 4, 4, 5 >>) @@ (14 :> << 4, 5, 5 >>) @@ (15 :> << 4, 5, 6 >>)

(***************************************************************************)
(* localNumber.replace(/(\d{a})(\d{b})(\d{c})/, "$1-$2-$3") where a+b+c is *)
(* the length of localNumber: the pattern matches only when every          *)
(* character is a digit, and then rewrites the whole string.               *)
(***************************************************************************)
Hyphenate(local, g) ==
    IF \A i \in 1..Len(local) : IsDigitChar(local[i])
    THEN SubSeq(local, 1, g[1]) \o << "-" >> \o SubSeq(local, g[1] + 1, g[1] + g[2])
         \o << "-" >> \o SubSeq(local, g[1] + g[2] + 1, Len(local))
    ELSE local

Plus62 == << "+", "6", "2", " " >>

\* "Invalid length for an Indonesian number": a text with no digit in it.
InvalidLength == << "Invalid length for an Indonesian number" >>

\* Both copies: a number not starting with "62" is returned as it is; the
\* rest is "+62 " and the grouped local part, or the copy's default.
IntlFormat(number, default) ==
    IF ~IsPrefix(CountryCode, number) THEN number
    ELSE LET local == SubSeq(number, 3, Len(number))
         IN  IF Len(local) \in DOMAIN GroupSizes
             THEN Plus62 \o Hyphenate(local, GroupSizes[Len(local)])
             ELSE default

\* src/helper.js: the default case returns the error text.
helperFormatInternationalPhoneNumber(number) == IntlFormat(number, InvalidLength)

\* public/js/app.js: the default case returns the number unchanged.
formatInternationalPhoneNumber(number) == IntlFormat(number, number)

(***************************************************************************)
(* The ways the number of a stored Indonesian contact reaches the send     *)
(* route: as stored (picked in the contact list, or the number half of a   *)
(* job's target), as the dashboard displays it, and in the national form   *)
(* with the trunk 0 instead of the country code.                           *)
(***************************************************************************)
Spellings(n) ==
    {n, formatInternationalPhoneNumber(n), << "0" >> \o SubSeq(n, 3, Len(n))}

(***************************************************************************)
(* Whichever way a stored contact's number is written, the direct send     *)
(* route (phoneNumberFormatter) addresses <number>@c.us, and               *)
(* recordMessageHistory's lookup key is the stored number, so the message  *)
(* goes to that contact and its history row names it.                     *)
(***************************************************************************)
SpellingsReachStoredContact(n) ==
    \A s \in Spellings(n) :
        /\ phoneNumberFormatter(s) = n \o CUs
        /\ HistoryKey(phoneNumberFormatter(s)) = n

================================================================================
