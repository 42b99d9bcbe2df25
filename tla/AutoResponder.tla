----------------------------- MODULE AutoResponder -----------------------------
(***************************************************************************)
(* The auto-responder: the `commands' table (src/models/command.js, the    *)
(* handlers of src/controllers/api/command-controller.js) and the          *)
(* "message" listener src/whatsapp-client/listeners/message.js that        *)
(* answers incoming WhatsApp messages starting with "!".                   *)
(*                                                                         *)
(* Texts are model values or short strings; a row is its command text and  *)
(* response.  `lastReply' is what the listener answered to the latest      *)
(* message: a stored response, one of its built-in answers, "notFound",    *)
(* or NoReply when it sent nothing.                                        *)
(***************************************************************************)
EXTENDS Naturals

CONSTANTS
    CommandTexts,   \* message texts that start with "!"
    PlainTexts,     \* message texts that do not
    Responses,      \* values of the response column
    MaxCommands     \* ids 1..MaxCommands (AUTOINCREMENT)

NoRow == [absent |-> TRUE]
NoReply == "none"
NoText == "undefined"   \* a body key the request left out
Replies == Responses \cup {"whois", "whoami", "notFound", NoReply}
CommandIds == 1..MaxCommands

VARIABLES
    commands,   \* id -> [command, response], or NoRow
    seq,        \* sqlite_sequence of `commands'
    lastReply   \* [body, reply] for the latest message, or NoRow before any

vars == <<commands, seq, lastReply>>

TypeOK ==
    /\ commands \in [CommandIds -> [command : CommandTexts, response : Responses]
                                   \cup {NoRow}]
    /\ seq \in 0..MaxCommands
    /\ lastReply \in [body : CommandTexts \cup PlainTexts, reply : Replies] \cup {NoRow}

Init ==
    /\ commands = [id \in CommandIds |-> NoRow]
    /\ seq = 0
    /\ lastReply = NoRow

RowsNamed(text) == {id \in CommandIds : commands[id] # NoRow /\ commands[id].command = text}

\* `command TEXT UNIQUE': no other row may hold this text.
Unique(text, id) == RowsNamed(text) \subseteq {id}

\* validateRequestBody({command: "string", response: "string"}) of the POST
\* and PUT routes: a body without either key is a 400 before the controller
\* (the NOT NULL columns would refuse it too).
BodyValid(text, resp) == text # NoText /\ resp # NoText

\* command.save: INSERT INTO commands (command, response) VALUES (?, ?).
save(id, text, resp) == commands' = [commands EXCEPT ![id] = [command |-> text, response |-> resp]]

\* command.update: UPDATE commands SET command = ?, response = ? WHERE id = ?.
update(id, text, resp) == commands' = [commands EXCEPT ![id] = [command |-> text, response |-> resp]]

\* command.delete: DELETE FROM commands WHERE id = ?.
delete(id) == commands' = [commands EXCEPT ![id] = NoRow]

(***************************************************************************)
(* POST /api/command: after the route's body check, command.save INSERTs *)
(* the command and response; a text already stored violates UNIQUE: the  *)
(* statement throws and the controller answers 500.                       *)
(***************************************************************************)
CreateCommand ==
    \E text \in CommandTexts \cup {NoText}, resp \in Responses \cup {NoText} :
        /\ seq < MaxCommands
        /\ BodyValid(text, resp) /\ Unique(text, seq + 1)
        /\ save(seq + 1, text, resp)
        /\ seq' = seq + 1
        /\ UNCHANGED lastReply

\* PUT /api/command/:id: the body check, then an UPDATE of both columns;
\* 0 changes (no such row) or UNIQUE is a 500 with nothing written.
UpdateCommand ==
    \E id \in CommandIds, text \in CommandTexts \cup {NoText},
       resp \in Responses \cup {NoText} :
        /\ commands[id] # NoRow
        /\ BodyValid(text, resp) /\ Unique(text, id)
        /\ update(id, text, resp)
        /\ UNCHANGED <<seq, lastReply>>

\* DELETE /api/command/:id.
DeleteCommand ==
    \E id \in CommandIds :
        /\ commands[id] # NoRow
        /\ delete(id)
        /\ UNCHANGED <<seq, lastReply>>

(***************************************************************************)
(* The "message" listener.  For a text starting with "!" it reads the row  *)
(* with that command (stmt.get, undefined when there is none), then        *)
(* switches on the text with `case data.command' first: a missing row      *)
(* makes `data.command' throw, the catch only logs, and nothing is sent.   *)
(* With a row, the first case always matches.  Other texts get no answer.  *)
(***************************************************************************)
Reply(body) ==
    IF body \in PlainTexts THEN NoReply
    ELSE IF RowsNamed(body) = {} THEN NoReply
    ELSE commands[CHOOSE id \in RowsNamed(body) : \A o \in RowsNamed(body) : id <= o].response

MessageReceived ==
    \E body \in CommandTexts \cup PlainTexts :
        /\ lastReply' = [body |-> body, reply |-> Reply(body)]
        /\ UNCHANGED <<commands, seq>>

Next == CreateCommand \/ UpdateCommand \/ DeleteCommand \/ MessageReceived

Spec == Init /\ [][Next]_vars

-------------------------------------------------------------------------------

(***************************************************************************)
(* Every message starting with "!" gets an answer: its stored response,    *)
(* the built-in !whois / !whoami answer, or "Command not found!", as the   *)
(* cases of the switch in the listener say.                                *)
(***************************************************************************)
EveryCommandAnswered ==
    lastReply # NoRow /\ lastReply.body \in CommandTexts => lastReply.reply # NoReply

================================================================================
