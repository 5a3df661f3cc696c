----------------------------- MODULE HttpClient -----------------------------
(***************************************************************************)
(* One use of an HTTP MCP (`upstream/src/http_client.rs`): connect, ask    *)
(* one thing, close, through the MCP client (`mcp/src/client/mod.rs`) over *)
(* Streamable HTTP (`mcp/src/client/http.rs`).  The answer to a POST is    *)
(* JSON or an event stream that a task reads; a stream that ends early is  *)
(* opened again by a task.  Closing the transport, or dropping its last    *)
(* handle, cancels them.                                                   *)
(***************************************************************************)
EXTENDS Naturals

CONSTANTS max_retries,  \* failed attempts to open a stream again
          MaxReopened,  \* bound of the times a stream is opened again
          None

Streams == {"initialize", "tool", "listen"}

VARIABLES caller,   \* where `list_http_tools` or a call is
          posted,   \* the POST of its request was answered
          answer,   \* what its request got: None, "result", "error", "closed"
          aborted,  \* the token of the transport is cancelled
          stream,   \* stream[s]: the tasks of the stream of an answer, or of the GET
          reopened

vars == << caller, posted, answer, aborted, stream, reopened >>

Asking == {"initialize", "tool"}
NoStream == [at |-> "none", resumable |-> FALSE, received |-> FALSE, retry |-> None]
Over == [NoStream EXCEPT !.at = "over"]
Opened(reconnectable) == [NoStream EXCEPT !.at = "open", !.resumable = reconnectable]
At(s, step) == stream[s].at = step

-----------------------------------------------------------------------------

Init ==
  /\ caller = "idle" /\ posted = FALSE /\ answer = None /\ aborted = FALSE
  /\ stream = [s \in Streams |-> NoStream]
  /\ reopened = 0

Goto(step) == caller' = step /\ posted' = FALSE /\ answer' = None

Connect ==
  /\ caller = "idle"
  /\ Goto("initialize")
  /\ UNCHANGED << aborted, stream, reopened >>

\* `post` of a request: a stream to read, or nothing yet (202).
PostAccepted ==
  /\ caller \in Asking /\ ~ posted
  /\ posted' = TRUE
  /\ stream' \in {stream, [stream EXCEPT ![caller] = Opened(FALSE)]}
  /\ UNCHANGED << caller, answer, aborted, reopened >>

\* `post` of a request: its answer as JSON, or messages without it.
PostAnswered ==
  /\ caller \in Asking /\ ~ posted
  /\ posted' = TRUE
  /\ answer' \in {"result", "error", None}
  /\ UNCHANGED << caller, aborted, stream, reopened >>

\* A POST fails, a request has its answer or is over in time without one, or
\* the caller is dropped: the transport is closed, or its handles are gone, and
\* either way the tasks are cancelled.
CallOver ==
  /\ caller \in Asking \cup {"initialized"}
  /\ Goto("over")
  /\ aborted' = TRUE
  /\ UNCHANGED << stream, reopened >>

\* `initialize` has its result: the notification is posted.
Greeted ==
  /\ caller = "initialize" /\ answer = "result"
  /\ Goto("initialized")
  /\ UNCHANGED << aborted, stream, reopened >>

\* The notification is accepted: with a 202, a task asks for the stream of the
\* server's own messages.
Listen ==
  /\ caller = "initialized"
  /\ Goto("tool")
  /\ stream' \in {stream, [stream EXCEPT !["listen"] = [NoStream EXCEPT !.at = "dial"]]}
  /\ UNCHANGED << aborted, reopened >>

-----------------------------------------------------------------------------
(* The tasks of a stream.                                                  *)

\* An event is read: an answer to the request in flight, something else, and
\* perhaps an id that makes the stream resumable.
Event(s) ==
  /\ At(s, "open") /\ ~ aborted
  /\ \E kind \in {"result", "error", "other"}, id \in BOOLEAN :
       /\ stream' = [stream EXCEPT ![s].resumable = @ \/ id, ![s].received = @ \/ kind = "result"]
       /\ answer' \in {answer} \cup (IF caller \in Asking /\ answer = None THEN {kind} \ {"other"} ELSE {})
  /\ UNCHANGED << caller, posted, aborted, reopened >>

\* `schedule_reconnection`: given up after `max_retries` failures in a row.
schedule(n) == IF n >= max_retries THEN Over ELSE [NoStream EXCEPT !.at = "sleep", !.retry = n]

\* The server ends the stream, or it breaks.
StreamEnds(s) ==
  /\ At(s, "open")
  /\ stream' = [stream EXCEPT ![s] = IF @.resumable /\ ~ @.received /\ ~ aborted THEN schedule(0) ELSE Over]
  /\ UNCHANGED << caller, posted, answer, aborted, reopened >>

\* The transport closed: what is left of the stream is dropped, or read to its
\* end for a short time.
StreamCancelled(s) ==
  /\ aborted /\ (At(s, "open") \/ At(s, "sleep"))
  /\ stream' = [stream EXCEPT ![s] = Over]
  /\ UNCHANGED << caller, posted, answer, aborted, reopened >>

\* The delay is over.
Wake(s) ==
  /\ At(s, "sleep") /\ ~ aborted
  /\ stream' = [stream EXCEPT ![s].at = "dial"]
  /\ UNCHANGED << caller, posted, answer, aborted, reopened >>

\* `open_stream` failed: only a reconnection is tried again.
DialFailed(s) ==
  stream' = [stream EXCEPT ![s] = IF @.retry = None THEN Over ELSE schedule(@.retry + 1)]

\* `fetch_stream`: a closed transport sends nothing.
Dial(s) ==
  /\ At(s, "dial")
  /\ IF aborted THEN DialFailed(s) ELSE stream' = [stream EXCEPT ![s].at = "asking"]
  /\ UNCHANGED << caller, posted, answer, aborted, reopened >>

\* The GET is answered with a stream.
Dialled(s) ==
  /\ At(s, "asking") /\ reopened < MaxReopened
  /\ stream' = [stream EXCEPT ![s] = Opened(TRUE)]
  /\ reopened' = reopened + 1
  /\ UNCHANGED << caller, posted, answer, aborted >>

\* It is refused (with 405 for good), fails, or the transport closed.
Refused(s) ==
  /\ At(s, "asking")
  /\ \/ DialFailed(s)
     \/ ~ aborted /\ stream' = [stream EXCEPT ![s] = Over]
  /\ UNCHANGED << caller, posted, answer, aborted, reopened >>

\* What the task of a stream does without the server.
GoesOn(s) == StreamCancelled(s) \/ Wake(s) \/ Dial(s) \/ Dialled(s) \/ Refused(s)

Read(s) == StreamEnds(s) \/ GoesOn(s)

CallStep == PostAccepted \/ PostAnswered \/ CallOver \/ Greeted \/ Listen

Next ==
  \/ Connect \/ CallStep
  \/ \E s \in Streams : Event(s) \/ Read(s)

\* Requests have deadlines, and so has what is sent for a stream; a stream
\* that is open need not end.
Fairness ==
  /\ WF_vars(CallOver)
  /\ \A s \in Streams : WF_vars(GoesOn(s))

Spec == Init /\ [][Next]_vars /\ Fairness

-----------------------------------------------------------------------------

TypeOK ==
  /\ caller \in {"idle", "initialized", "over"} \cup Asking
  /\ posted \in BOOLEAN /\ answer \in {None, "result", "error"} /\ aborted \in BOOLEAN
  /\ stream \in [Streams -> [at : {"none", "open", "sleep", "dial", "asking", "over"},
                             resumable : BOOLEAN, received : BOOLEAN,
                             retry : 0..max_retries \cup {None}]]
  /\ reopened \in 0..MaxReopened

Quiet(s) == At(s, "none") \/ At(s, "over")

\* A call ends, and after it every task it left: none goes on to read or to
\* open streams of a transport that nobody uses (`aborted`, `DropGuard`).
CallEnds == caller # "idle" ~> caller = "over"
LeavesNothing == \A s \in Streams : caller = "over" ~> Quiet(s)
=============================================================================
