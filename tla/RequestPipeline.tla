---------------------------- MODULE RequestPipeline ----------------------------
(***************************************************************************)
(* One HTTP request on its way through the middleware stack that           *)
(* AppBuilder.setup_middleware composes (src/src/app/app_builder.py), with *)
(* the application behind it and the ASGI server (uvicorn) in front.       *)
(*                                                                         *)
(* A message that a layer sends passes the send_wrappers of all layers     *)
(* around it at once, then awaits the server, which may make it wait for   *)
(* the client to read.  While the application runs, or waits in such a     *)
(* send, the request timeout may cancel it.                                *)
(***************************************************************************)
EXTENDS Integers, Sequences

CONSTANTS
    MaxBody,    \* max_request_body_bytes
    AppStatus   \* the statuses routes and their error handlers answer with

ASSUME BodyAssumption == MaxBody \in Nat
\* Routes answer anything from 200 to 503 (health.py:72), but 413 is answered by
\* BodySizeLimitMiddleware only.
ASSUME StatusAssumption == AppStatus \subseteq (200..599) \ {413}

VARIABLES
    phase,      \* idle, running (the application), sending, done
    req,        \* what the layers ask of the request
    received,   \* total_received of BodySizeLimitMiddleware
    seen,       \* how much of the body the application was given
    started,    \* response_started and response_completed of TimeoutMiddleware
    completed,
    record,     \* what RequestLoggingMiddleware will log
    log,        \* what it has logged
    errStarted, \* response_started of Starlette's ServerErrorMiddleware
    out,        \* the message that awaits the server
    wire,       \* the response as the server wrote it
    failed,     \* history: the application raised after it had started
    garbled     \* history: a message was cut off, or refused by the server

timer == <<started, completed>>
logging == <<record, log>>
history == <<failed, garbled>>
vars == <<phase, req, received, seen, timer, logging, errStarted, out, wire, history>>

\* A bug: the rate limiter is registered after the request ID.
StackQuotaOutside ==
    <<"errors", "cors", "hosts", "security", "logging", "quota", "tracing",
      "size", "timeout", "app">>

\* The layers from the outermost to the innermost: the reverse of the order
\* setup_middleware registers them in, inside ServerErrorMiddleware.
Stack ==
    <<"errors", "cors", "hosts", "security", "logging", "tracing", "quota",
      "size", "timeout", "app">>

Layer == {Stack[i] : i \in 1..Len(Stack)}
Depth(l) == CHOOSE i \in 1..Len(Stack) : Stack[i] = l
Wraps(k, l) == Depth(k) < Depth(l)

Absent == -1   \* no Content-Length
NotInt == -2   \* one that is no integer

\* decodable: the correlation headers, if any, are UTF-8.
Request == [host : BOOLEAN, preflight : {"none", "allowed", "refused"}, decodable : BOOLEAN,
            quota : {"exempt", "granted", "refused"},
            length : {Absent, NotInt} \cup 0..(MaxBody + 1)]

\* A bug: a body of exactly the limit is refused.
TooLongByOne(n) == n >= MaxBody

TooLong(n) == n > MaxBody

\* The layer that answers r by itself or raises, or the application.
Answerer(r) ==
    LET refusing == {l \in Layer :
            \/ l = "cors" /\ r.preflight # "none"
            \/ l = "hosts" /\ ~r.host
            \/ l = "tracing" /\ ~r.decodable
            \/ l = "quota" /\ r.quota = "refused"
            \/ l = "size" /\ (r.length = NotInt \/ TooLong(r.length))
            \/ l = "app"}
    IN CHOOSE l \in refusing : \A k \in refusing : k = l \/ Wraps(l, k)

Refusal(l, r) ==
    CASE l = "cors" -> IF r.preflight = "allowed" THEN 200 ELSE 400
      [] l = "hosts" -> 400
      [] l = "quota" -> 429
      [] l = "size" -> IF r.length = NotInt THEN 400 ELSE 413
      [] OTHER -> 504

Headers(l, r) ==
    {h \in {"security", "tracing"} : Wraps(h, l)}
        \cup {h \in {"quota"} : r.quota # "exempt" /\ (l = "quota" \/ Wraps("quota", l))}

Silence == [by |-> "server", status |-> 0, headers |-> {}, complete |-> FALSE]

NoRecord == [status |-> 500, traced |-> FALSE]
Quiet == [by |-> "server", status |-> 0, last |-> FALSE]

----------------------------------------------------------------------------

\* Layer l sends the message that starts its response.
StartResponse(l, status) ==
    /\ phase' = "sending"
    /\ out' = [by |-> l, status |-> status, last |-> FALSE]
    /\ errStarted' = (errStarted \/ l # "errors")
    /\ started' = (started \/ Wraps("timeout", l))
    /\ record' = IF Wraps("logging", l)
                 THEN [status |-> status,
                       traced |-> Wraps("logging", "tracing") /\ Wraps("tracing", l)]
                 ELSE record
    /\ UNCHANGED completed

\* Layer l sends a part of the body.
SendBody(l, last) ==
    /\ phase' = "sending"
    /\ out' = [by |-> l, status |-> 0, last |-> last]
    /\ completed' = (completed \/ (last /\ Wraps("timeout", l)))
    /\ UNCHANGED <<errStarted, started, record>>

\* A bug: the record is only written when the inner layers return.
LogWhenReturned(l, raised) ==
    log' = IF Wraps("logging", l) /\ ~raised THEN Append(log, record) ELSE log

\* Control leaves layer l for good, by a return or by an exception: the finally
\* clause of RequestLoggingMiddleware.
LogWhenLeft(l, raised) ==
    log' = IF Wraps("logging", l) THEN Append(log, record) ELSE log

\* The server is left with what was written: it answers 500 to nothing at all
\* and closes the connection on a part.
Finish(w) ==
    /\ phase' = "done"
    /\ out' = Quiet
    /\ wire' = IF w.status = 0
               THEN [by |-> "server", status |-> 500, headers |-> {}, complete |-> TRUE]
               ELSE w
    /\ UNCHANGED <<timer, record, errStarted>>

\* Layer l returns, the server having written w.
Return(l, w) ==
    /\ LogWhenLeft(l, FALSE)
    /\ Finish(w)

\* An exception leaves layer l, and no layer but the outermost handles it.
Raise(l) ==
    /\ LogWhenLeft(l, TRUE)
    /\ IF errStarted
       THEN Finish(wire)
       ELSE /\ phase' = "sending"
            /\ out' = [by |-> "errors", status |-> 500, last |-> FALSE]
            /\ UNCHANGED <<timer, record, errStarted, wire>>

\* A bug: a partial response is left open.
TimedOutSilently ==
    IF started THEN Return("timeout", wire)
    ELSE StartResponse("timeout", 504) /\ UNCHANGED <<log, wire>>

\* TimeoutError reaches TimeoutMiddleware.
TimedOut ==
    IF started
    THEN IF completed THEN Return("timeout", wire)
         ELSE SendBody("timeout", TRUE) /\ UNCHANGED <<log, wire>>
    ELSE StartResponse("timeout", 504) /\ UNCHANGED <<log, wire>>

----------------------------------------------------------------------------

Init ==
    /\ phase = "idle"
    /\ req = [host |-> TRUE, preflight |-> "none", decodable |-> TRUE,
               quota |-> "exempt", length |-> Absent]
    /\ received = 0
    /\ seen = 0
    /\ started = FALSE
    /\ completed = FALSE
    /\ record = NoRecord
    /\ log = <<>>
    /\ errStarted = FALSE
    /\ out = Quiet
    /\ wire = Silence
    /\ failed = FALSE
    /\ garbled = FALSE

Arrive(r) ==
    /\ phase = "idle"
    /\ req' = r
    /\ CASE Answerer(r) = "app" ->
             /\ phase' = "running"
             /\ UNCHANGED <<timer, logging, errStarted, out, wire>>
         [] Answerer(r) = "tracing" -> Raise("tracing")
         [] OTHER ->
             /\ StartResponse(Answerer(r), Refusal(Answerer(r), r))
             /\ UNCHANGED <<log, wire>>
    /\ UNCHANGED <<received, seen, history>>

\* The application reads n bytes: of a body whose length was declared the
\* server gives no more than that.
Readable(n) ==
    /\ phase = "running"
    /\ received + n <= IF req.length = Absent THEN MaxBody + 1 ELSE req.length
    /\ received' = received + n
    /\ UNCHANGED req

Read(n) ==
    /\ Readable(n)
    /\ ~TooLong(received + n)
    /\ seen' = received + n
    /\ UNCHANGED <<phase, timer, logging, errStarted, out, wire, history>>

\* The RequestTooLargeError of receive_wrapper is turned into a response by the
\* route that reads (FastAPI answers 400 when a body cannot be parsed).
ReadTooMuch(n) ==
    /\ Readable(n)
    /\ TooLong(received + n)
    /\ UNCHANGED <<phase, seen, timer, logging, errStarted, out, wire, history>>

\* The error reaches BodySizeLimitMiddleware, which answers whether or not the
\* response has started.
Overflow(n) ==
    /\ Readable(n)
    /\ TooLong(received + n)
    /\ failed' = started
    /\ StartResponse("size", 413)
    /\ UNCHANGED <<seen, log, wire, garbled>>

AppStart(status) ==
    /\ phase = "running"
    /\ ~started
    /\ StartResponse("app", status)
    /\ UNCHANGED <<req, received, seen, log, wire, history>>

AppBody(last) ==
    /\ phase = "running"
    /\ started
    /\ ~completed
    /\ SendBody("app", last)
    /\ UNCHANGED <<req, received, seen, log, wire, history>>

\* The response is out and background tasks are done.
AppReturn ==
    /\ phase = "running"
    /\ completed
    /\ Return("app", wire)
    /\ UNCHANGED <<req, received, seen, history>>

\* An exception that is neither a TimeoutError nor one with a handler, or one
\* with a handler after the response has started.
AppRaise ==
    /\ phase = "running"
    /\ Raise("app")
    /\ failed' = started
    /\ UNCHANGED <<req, received, seen, garbled>>

\* The application raises a TimeoutError of its own.
AppTimeout ==
    /\ phase = "running"
    /\ TimedOut
    /\ failed' = started
    /\ UNCHANGED <<req, received, seen, garbled>>

\* A bug: the timer only runs until the response starts.
ExpireUnstarted ==
    /\ phase = "running" \/ (phase = "sending" /\ out.by = "app")
    /\ ~started
    /\ TimedOut
    /\ garbled' = (phase = "sending")
    /\ UNCHANGED <<req, received, seen, failed>>

\* The request timeout cancels the application, also inside a send.
Expire ==
    /\ phase = "running" \/ (phase = "sending" /\ out.by = "app")
    /\ TimedOut
    /\ garbled' = (phase = "sending")
    /\ UNCHANGED <<req, received, seen, failed>>

\* What the ASGI server takes: one start, then the body, nothing after its end.
Acceptable ==
    IF out.status > 0 THEN wire.status = 0
    ELSE wire.status > 0 /\ ~wire.complete

Written ==
    IF out.status > 0
    THEN [by |-> out.by, status |-> out.status,
          headers |-> Headers(out.by, req), complete |-> FALSE]
    ELSE [wire EXCEPT !.complete = out.last]

\* The server writes the message; the application goes on, any other layer
\* sends the body of its response, or is through with it.
Deliver ==
    /\ phase = "sending"
    /\ Acceptable
    /\ IF out.by = "app"
       THEN /\ phase' = "running"
            /\ out' = Quiet
            /\ wire' = Written
            /\ UNCHANGED <<timer, logging, errStarted>>
       ELSE IF out.status > 0
       THEN /\ SendBody(out.by, TRUE)
            /\ wire' = Written
            /\ UNCHANGED log
       ELSE Return(out.by, Written)
    /\ UNCHANGED <<req, received, seen, history>>

\* The server raises a RuntimeError into the send of a message out of turn.
Refuse ==
    /\ phase = "sending"
    /\ ~Acceptable
    /\ Raise(out.by)
    /\ garbled' = TRUE
    /\ UNCHANGED <<req, received, seen, failed>>

\* The next request.
Leave ==
    /\ phase = "done"
    /\ phase' = "idle"
    /\ req' = [host |-> TRUE, preflight |-> "none", decodable |-> TRUE,
               quota |-> "exempt", length |-> Absent]
    /\ received' = 0
    /\ seen' = 0
    /\ started' = FALSE
    /\ completed' = FALSE
    /\ record' = NoRecord
    /\ log' = <<>>
    /\ errStarted' = FALSE
    /\ wire' = Silence
    /\ failed' = FALSE
    /\ garbled' = FALSE
    /\ UNCHANGED out

Next ==
    \/ \E r \in Request : Arrive(r)
    \/ \E n \in 1..(MaxBody + 1) : Read(n) \/ ReadTooMuch(n) \/ Overflow(n)
    \/ \E s \in AppStatus : AppStart(s)
    \/ \E last \in BOOLEAN : AppBody(last)
    \/ AppReturn
    \/ AppRaise
    \/ AppTimeout
    \/ Expire
    \/ Deliver
    \/ Refuse
    \/ Leave

Spec == Init /\ [][Next]_vars

\* The timer fires, and a client that is sent a response reads it; nothing is
\* assumed of the application.
Fairness == WF_vars(Expire) /\ WF_vars(Deliver) /\ WF_vars(Refuse)

FairSpec == Spec /\ Fairness

----------------------------------------------------------------------------

\* Every request that passes host validation is logged exactly once, however it
\* ends: refused, failed, timed out.  The log tells the status the client got, and
\* the request ID it was given if it was given one, unless a message was cut off by
\* the timeout or refused by the server (request_logging.py:40-111).
LogTruthful ==
    phase = "done" =>
        /\ Len(log) = IF Wraps("logging", Answerer(req)) THEN 1 ELSE 0
        /\ log # <<>> /\ ~garbled =>
            /\ log[1].status = wire.status
            /\ log[1].traced <=> "tracing" \in wire.headers

\* What the layers inside the request ID refuse, and the timeouts, carry the
\* same headers as what the application answers (app_builder.py:262-287).
RefusalsAnnotated ==
    wire.by \in {"quota", "size", "timeout", "app"} =>
        /\ {"security", "tracing"} \subseteq wire.headers
        /\ req.quota # "exempt" => "quota" \in wire.headers

\* A client gets a complete response, unless the application failed after it had
\* started, or a message was cut off (timeout.py:65-89).
CompleteUnlessExcused ==
    phase = "done" /\ ~failed /\ ~garbled => wire.complete

\* The application is never given more than MaxBody bytes, and 413 goes only to
\* a client that declared or sent more (body_size.py:33-79).
BodyBounded ==
    /\ seen <= MaxBody
    /\ wire.status = 413 => req.length > MaxBody \/ received > MaxBody

\* Whatever the application does, every request ends.
RequestsEnd == phase # "idle" ~> phase = "done"

\* What api-usage.md:264 says: "Every response includes tracing headers".
EveryResponseTraced == wire.status > 0 => "tracing" \in wire.headers

----------------------------------------------------------------------------
(* The inductive invariant: how flags, record, log and wire agree at every *)
(* point of the way.                                                       *)

Refusers == {"cors", "hosts", "quota", "size", "timeout"}

TypeOK ==
    /\ phase \in {"idle", "running", "sending", "done"}
    /\ req \in Request
    /\ received \in Nat /\ seen \in Nat
    /\ started \in BOOLEAN /\ completed \in BOOLEAN /\ errStarted \in BOOLEAN
    /\ failed \in BOOLEAN /\ garbled \in BOOLEAN
    /\ record \in [status : Nat, traced : BOOLEAN]
    /\ out \in [by : Layer \cup {"server"}, status : Nat, last : BOOLEAN]
    /\ wire \in [by : Layer \cup {"server"}, status : Nat,
                 headers : SUBSET {"security", "tracing", "quota"}, complete : BOOLEAN]

\* The response of layer l, as the server has written it so far.
Begun(l, status, complete) ==
    [by |-> l, status |-> status, headers |-> Headers(l, req), complete |-> complete]

\* What is noted of it for the log.
Noted(l, status) ==
    IF Wraps("logging", l) THEN [status |-> status, traced |-> Wraps("tracing", l)]
    ELSE NoRecord

\* Nothing has been sent.
Untouched == wire = Silence /\ record = NoRecord /\ ~started /\ ~completed /\ ~errStarted

IdleInv == phase = "idle" => Untouched /\ log = <<>> /\ out = Quiet /\ ~failed /\ ~garbled

\* The application is at work, or in a send of its own.
AppAtWork ==
    /\ Answerer(req) = "app" /\ log = <<>> /\ ~failed /\ ~garbled
    /\ IF started THEN errStarted /\ record.traced /\ record.status > 0 ELSE Untouched

RunningInv ==
    phase = "running" =>
        /\ AppAtWork /\ out = Quiet
        /\ started => wire = Begun("app", record.status, completed)

AppSendingInv ==
    phase = "sending" /\ out.by = "app" =>
        /\ AppAtWork /\ started
        /\ IF out.status > 0
           THEN wire = Silence /\ out.status = record.status /\ ~completed
           ELSE wire = Begun("app", record.status, FALSE) /\ out.last = completed

\* A layer answers in the place of the application, or closes its response.
RefusingInv ==
    phase = "sending" /\ out.by \in Refusers =>
        /\ log = <<>> /\ errStarted
        /\ Answerer(req) = (IF out.by = "timeout" THEN "app" ELSE out.by)
            \/ (out.by = "size" /\ Answerer(req) = "app")
        /\ IF out.status > 0
           THEN /\ record = Noted(out.by, out.status)
                /\ \/ wire = Silence /\ ~failed /\ ~garbled
                   \/ out.by = "size" /\ wire.status > 0
           ELSE /\ out.last
                /\ \/ /\ wire = Begun(out.by, wire.status, FALSE) /\ wire.status > 0
                      /\ record = Noted(out.by, wire.status)
                   \/ /\ out.by = "timeout" /\ record.traced /\ record.status > 0
                      /\ wire = Begun("app", record.status, FALSE) \/ (garbled /\ wire = Silence)

\* The outermost layer answers an exception.
ErrorsInv ==
    phase = "sending" /\ out.by = "errors" =>
        /\ ~errStarted /\ ~failed /\ ~garbled /\ Answerer(req) \in {"tracing", "app"}
        /\ log = <<NoRecord>>
        /\ IF out.status > 0 THEN out.status = 500 /\ wire = Silence
           ELSE out.last /\ wire = Begun("errors", 500, FALSE)

SenderInv == phase = "sending" => out.by \in Refusers \cup {"app", "errors"}

DoneInv == phase = "done" => out = Quiet

\* What the server wrote has passed the layers around the one that sent it, and
\* who is told 413 has declared or sent too much.
WireInv ==
    /\ wire.by # "server" => wire.headers = Headers(wire.by, req)
    /\ seen <= MaxBody
    /\ out.status = 413 \/ wire.status = 413 => req.length > MaxBody \/ received > MaxBody

PipelineInv ==
    /\ TypeOK /\ IdleInv /\ RunningInv /\ AppSendingInv /\ RefusingInv /\ ErrorsInv
    /\ SenderInv /\ DoneInv /\ WireInv /\ LogTruthful /\ CompleteUnlessExcused
================================================================================
