------------------------------ MODULE SendMail ------------------------------
(***************************************************************************)
(* The tool that sends a mail (`send_message` of `icloud-mail/src/tools.rs` *)
(* with `connection.rs` and `smtp.rs`).  An IMAP connection is open for the *)
(* whole call, the mail goes out over SMTP in between, and a copy is saved  *)
(* afterwards.  Either server may refuse a step, close the connection or    *)
(* keep silent at any point: the agent only has what the tool tells it.     *)
(***************************************************************************)
EXTENDS Naturals, FiniteSets

CONSTANTS Mails,      \* the mails agents want sent, each sent by one call at a time
          max,        \* calls of an MCP that may hold attachments at once
          MaxCalls,   \* bound of the calls for a mail
          None

Names == {"address", "name"}   \* the forms of a user name IMAP may take

VARIABLES call,        \* call[m]: the step of the call, and whether it holds a place
          told,        \* what the agent was told by the last call
          calls,
          taken,       \* places taken (`LimitedPlaces`)
          remembered,  \* the form that worked (`ImapUsernames`)
          delivered    \* how often the server took the mail

vars == << call, told, calls, taken, remembered, delivered >>

NoCall == [at |-> "idle", place |-> FALSE, left |-> {}, ok |-> FALSE]
At(m, step) == call[m].at = step
Goto(m, step) == call' = [call EXCEPT ![m].at = step]

\* `ImapUsernames::candidates`, taken when the sign-in begins.
BeginSignIn(m) ==
  call' = [call EXCEPT ![m].at = "sign_in",
                       ![m].left = IF remembered = None THEN Names ELSE {remembered}]

\* `Place::drop`
Released(m) == IF ~ call[m].place THEN taken ELSE IF taken > 1 THEN taken - 1 ELSE 0

\* The call returns; its connections close and its place comes back.
Tell(m, what) ==
  /\ told' = [told EXCEPT ![m] = what]
  /\ call' = [call EXCEPT ![m] = NoCall]
  /\ taken' = Released(m)

-----------------------------------------------------------------------------

Init ==
  /\ call = [m \in Mails |-> NoCall] /\ told = [m \in Mails |-> "nothing"]
  /\ calls = [m \in Mails |-> 0]
  /\ taken = 0 /\ remembered = None
  /\ delivered = [m \in Mails |-> 0]

\* An agent sends a mail, and again only when it was told that it is not sent.
\* The input is checked first (`composition`).
CallTool(m) ==
  /\ At(m, "idle") /\ calls[m] < MaxCalls
  /\ told[m] = "not_sent" \/ calls[m] = 0
  /\ calls' = [calls EXCEPT ![m] = @ + 1]
  /\ \/ Goto(m, "attach") /\ told' = [told EXCEPT ![m] = "nothing"]
     \/ told' = [told EXCEPT ![m] = "not_sent"] /\ UNCHANGED call
  /\ UNCHANGED << taken, remembered, delivered >>

\* `with_attachments`: none, or a place while they are in memory.
Attach(m) ==
  /\ At(m, "attach")
  /\ \/ BeginSignIn(m) /\ UNCHANGED << told, taken >>
     \/ taken >= max /\ Tell(m, "not_sent")
     \/ /\ taken < max /\ taken' = taken + 1
        /\ call' = [call EXCEPT ![m].at = "files", ![m].place = TRUE]
        /\ UNCHANGED told
  /\ UNCHANGED << calls, remembered, delivered >>

\* `attached_files`: read, too large together, or gone.
ReadFiles(m) ==
  /\ At(m, "files")
  /\ \/ BeginSignIn(m) /\ UNCHANGED << told, taken >>
     \/ Tell(m, "not_sent")
  /\ UNCHANGED << calls, remembered, delivered >>

\* `sign_in_to_imap`: the form that worked before, or each in turn until one is
\* not refused.
SignIn(m) ==
  /\ At(m, "sign_in")
  /\ LET form == IF "address" \in call[m].left THEN "address" ELSE "name"
     IN \/ call[m].left # {} /\ remembered' = form /\ Goto(m, "compose") /\ UNCHANGED << told, taken >>
        \/ /\ call[m].left # {} /\ call' = [call EXCEPT ![m].left = @ \ {form}]
           /\ UNCHANGED << told, taken, remembered >>
        \/ /\ \E what \in {"not_sent", "internal_error"} : Tell(m, what)  \* refused, unreachable
           /\ UNCHANGED remembered
  /\ UNCHANGED << calls, delivered >>

\* `compose_mail` may read the message that is answered; a mail has a recipient.
Compose(m) ==
  /\ At(m, "compose")
  /\ \/ Goto(m, "open") /\ UNCHANGED << told, taken >>
     \/ \E what \in {"not_sent", "internal_error"} : Tell(m, what)
  /\ UNCHANGED << calls, remembered, delivered >>

\* What `smtp_failure` makes of a failure: an answer of the server before the
\* message is one; once there is a connection, its loss may mean anything.
Lost == {"maybe_sent", "internal_error"}

\* `open`: the name resolves, the server greets and is encrypted.
OpenSmtp(m) ==
  /\ At(m, "open")
  /\ \/ Goto(m, "auth") /\ UNCHANGED << told, taken >>
     \/ \E what \in Lost \cup {"not_sent"} : Tell(m, what)
  /\ UNCHANGED << calls, remembered, delivered >>

\* `send`: signed in, then sender, recipients and DATA accepted, or refused.
Envelope(m, step, next) ==
  /\ At(m, step)
  /\ \/ Goto(m, next) /\ UNCHANGED << told, taken >>
     \/ \E what \in Lost \cup {"not_sent"} : Tell(m, what)
  /\ UNCHANGED << calls, remembered, delivered >>

\* The message is written; the server takes it, refuses it, or never has it whole.
WriteMessage(m) ==
  /\ At(m, "data")
  /\ \E ok \in BOOLEAN :
       /\ delivered' = [delivered EXCEPT ![m] = @ + (IF ok THEN 1 ELSE 0)]
       /\ call' = [call EXCEPT ![m].at = "reply", ![m].ok = ok]
  /\ UNCHANGED << told, calls, taken, remembered >>

\* Its answer is read, unless it is lost.
ReadReply(m) ==
  /\ At(m, "reply")
  /\ \/ call[m].ok /\ Goto(m, "save") /\ UNCHANGED << told, taken >>
     \/ ~ call[m].ok /\ Tell(m, "not_sent")
     \/ \E what \in Lost : Tell(m, what)
  /\ UNCHANGED << calls, remembered, delivered >>

\* A mutant of SaveCopy: an error of the copy is an error of the call.
SaveCopyStrictly(m) ==
  /\ At(m, "save")
  /\ \/ Tell(m, "sent")
     \/ Tell(m, "not_sent")   \* "Could not reach iCloud Mail. Try again."
  /\ UNCHANGED << calls, remembered, delivered >>

\* `save_to`, and the flag of the message that was answered: whatever becomes
\* of them, the mail is out.
SaveCopy(m) ==
  /\ At(m, "save")
  /\ Tell(m, "sent")
  /\ UNCHANGED << calls, remembered, delivered >>

\* The call is dropped: its client is gone, or the server stops.
DropCall(m) ==
  /\ ~ At(m, "idle")
  /\ Tell(m, "nothing")
  /\ UNCHANGED << calls, remembered, delivered >>

Step(m) ==
  \/ Attach(m) \/ ReadFiles(m) \/ SignIn(m) \/ Compose(m) \/ OpenSmtp(m)
  \/ Envelope(m, "auth", "envelope") \/ Envelope(m, "envelope", "data")
  \/ WriteMessage(m) \/ ReadReply(m) \/ SaveCopy(m)

Next == \E m \in Mails : CallTool(m) \/ Step(m) \/ DropCall(m)

Spec == Init /\ [][Next]_vars

-----------------------------------------------------------------------------

Steps == {"idle", "attach", "files", "sign_in", "compose", "open", "auth", "envelope", "data",
          "reply", "save"}
CallStates == [at : Steps, place : BOOLEAN, left : SUBSET Names, ok : BOOLEAN]

TypeOK ==
  /\ call \in [Mails -> CallStates]
  /\ told \in [Mails -> {"nothing", "sent", "not_sent"} \cup Lost]
  /\ calls \in [Mails -> 0..MaxCalls]
  /\ taken \in 0..max /\ remembered \in Names \cup {None}
  /\ delivered \in [Mails -> 0..MaxCalls]

\* The calls that hold attachments.
Places == {m \in Mails : call[m].place}

\* What the agent is told is true, so an agent that sends a mail again only
\* when it was told that it is not sent never sends it twice, whatever fails
\* and whenever (`smtp_failure`, the end of `send_message`); and the places of
\* the calls that hold attachments are those that are taken.
MailSentOnce ==
  /\ \A m \in Mails :
       /\ delivered[m] <= 1
       /\ told[m] = "sent" => delivered[m] = 1
       /\ told[m] = "not_sent" => delivered[m] = 0
  /\ taken = Cardinality(Places)

-----------------------------------------------------------------------------
(* The inductive invariant behind MailSentOnce.                            *)

\* Before its message is written a mail is not out, with the answer of the
\* server it is known whether it is; and what the agent was told is true.
MailOK(m) ==
  /\ ~ At(m, "idle") => calls[m] > 0 /\ told[m] = "nothing"
  /\ call[m].at \notin {"idle", "reply", "save"} \/ calls[m] = 0 => delivered[m] = 0
  /\ At(m, "reply") => delivered[m] = IF call[m].ok THEN 1 ELSE 0
  /\ At(m, "save") => delivered[m] = 1
  /\ delivered[m] \in 0..1
  /\ told[m] = "sent" => delivered[m] = 1
  /\ told[m] = "not_sent" => delivered[m] = 0

\* A call takes its place once.
PlaceOK(m) == call[m].at \in {"idle", "attach"} => ~ call[m].place

Inv ==
  /\ TypeOK
  /\ \A m \in Mails : MailOK(m) /\ PlaceOK(m)
  /\ taken = Cardinality(Places)
=============================================================================
