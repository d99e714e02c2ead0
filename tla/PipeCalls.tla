------------------------------ MODULE PipeCalls ------------------------------
(***************************************************************************)
(* Calls over the named pipe: ServiceClient::Call and its callers in the   *)
(* plugin and in the maintenance tool on one side, ServiceRuntime::Run and *)
(* ServeClient on the other, the instance of the pipe between them.        *)
(*                                                                         *)
(* The service has one instance of the pipe at a time and none between two *)
(* of them.  Clients are processes: several may call at once, and one that *)
(* ends leaves what it has written.  The service may crash at any step and *)
(* is started again.                                                       *)
(*                                                                         *)
(* Abstractions: what a request does to the machine is ServiceRuntime and  *)
(* WinRoutes, here it returns one of its possible results; a write is one  *)
(* step for the header and one for the payload, a reply is one.            *)
(***************************************************************************)
EXTENDS PipeProtocol, FiniteSets

CONSTANTS
  Clients,       \* processes that call
  Requests,      \* what they may call for
  Asks,          \* what each of them does call for
  RouteResults,  \* what a reconcile may return
  MaxFrame,      \* fields of a frame: kMaxFrameBytes
  NoClient, NoRequest, NoResult, NoFrame,
  MaxCrashes     \* bound: crashes of the service

ASSUME AsksAssumption == Asks \in [Clients -> SUBSET Requests]
ASSUME NobodyAssumption == NoClient \notin Clients /\ NoRequest \notin Requests

IsList(s) == s \in Seq(ToSet(s))

\* What an application can ask for, whatever is in its routes and rules.
ASSUME RequestsAssumption ==
  \A q \in Requests :
    /\ q.op \in {"status", "reconcile", "apply", "cleanup"}
    /\ q.op \in {"status", "cleanup"} => q = [op |-> q.op]
    /\ q.op = "reconcile" => q = [op |-> q.op, routes |-> q.routes] /\ IsList(q.routes)
    /\ q.op = "apply" =>
         /\ q = [op |-> q.op, config |-> [master |-> q.config.master, rules |-> q.config.rules]]
         /\ IsList(q.config.rules)
         /\ \A i \in DOMAIN q.config.rules :
              LET rule == q.config.rules[i]
              IN rule = [rule |-> rule.rule, executables |-> rule.executables] /\ IsList(rule.executables)

\* What a reconcile returns: ReconcileResult.
ASSUME ResultsAssumption ==
  \A r \in RouteResults :
    /\ r = [ok |-> r.ok, errors |-> r.errors, checks |-> r.checks, resets |-> r.resets,
            restarted |-> r.restarted]
    /\ IsList(r.errors) /\ IsList(r.checks) /\ IsList(r.resets) /\ IsList(r.restarted)

VARIABLES
  client,   \* each client: its place in Call, and what Call has returned
  pipe,     \* the instance of the pipe
  server,   \* the service thread
  metrics,  \* rule ids the relay has a metric of: it forgets none
  crashes,  \* crashes so far
  ran,      \* history: the request that was run for the last call of a client
  result,   \* history: what the service has answered
  excused   \* history: the service has crashed during the call

vars == <<client, pipe, server, metrics, crashes, ran, result, excused>>
history == <<ran, result, excused>>

NoPipe == [who |-> NoClient, open |-> FALSE, left |-> FALSE, up |-> NoFrame, down |-> NoFrame]
Listening == [NoPipe EXCEPT !.open = TRUE]

\* A process that makes no call; AuthorizeClient knows its executable or does not.
Idle(known) ==
  [known |-> known, pc |-> "idle", request |-> NoRequest, told |-> "idle", error |-> "none", answer |-> NoResult]

Init ==
  /\ \E K \in SUBSET Clients : client = [c \in Clients |-> Idle(c \in K)]
  /\ pipe = NoPipe
  /\ server = [pc |-> "check", reply |-> NoFrame]
  /\ metrics = 0 /\ crashes = 0
  /\ ran = [c \in Clients |-> NoRequest]
  /\ result = [c \in Clients |-> NoResult]
  /\ excused = [c \in Clients |-> FALSE]

-----------------------------------------------------------------------------
\* Requests and answers.

Payload(q) ==
  CASE q.op = "reconcile" -> EncodeRoutes(q.routes)
    [] q.op = "apply" -> EncodeAppRules(q.config)
    [] q.op \in {"status", "cleanup"} -> <<>>

\* Dispatch decodes the payload of an operation: the request, or Malformed.
Decoded(op, p) ==
  LET value == CASE op = "reconcile" -> DecodeRoutes(p)
                 [] op = "apply" -> DecodeAppRules(p)
                 [] op \in {"status", "cleanup"} -> <<>>
  IN CASE value = Malformed -> Malformed
       [] op = "reconcile" /\ value # Malformed -> [op |-> op, routes |-> value]
       [] op = "apply" /\ value # Malformed -> [op |-> op, config |-> value]
       [] op \in {"status", "cleanup"} -> [op |-> op]

\* Within the limits of the decoders and of a frame.
Acceptable(q) ==
  /\ Len(Payload(q)) <= MaxFrame
  /\ q.op = "reconcile" => Len(q.routes) <= MaxItems
  /\ q.op = "apply" =>
       /\ Len(q.config.rules) <= MaxRules
       /\ \A i \in DOMAIN q.config.rules : Len(q.config.rules[i].executables) <= MaxExecutables

Frame(op, p) == [op |-> op, size |-> Len(p), payload |-> p]
Header(q) == [Frame(q.op, Payload(q)) EXCEPT !.payload = NoFrame]

Status(n) == [flags |-> "ready", metrics |-> [i \in 1..n |-> "metric"]]
Results(q) ==
  IF q.op = "reconcile" THEN RouteResults ELSE {Status(n) : n \in 0..(MaxMetrics + 1)}

\* What Dispatch answers a payload that it cannot decode.
NoReconcile == [ok |-> FALSE, errors |-> <<"invalid">>, checks |-> <<>>, resets |-> <<>>, restarted |-> <<>>]
Refusal(op) == IF op = "reconcile" THEN NoReconcile ELSE Status(metrics)

\* All that it may answer.
AnswersTo(q) == IF q.op = "reconcile" THEN RouteResults \cup {NoReconcile} ELSE Results(q)

EncodeAnswer(op, r) == IF op = "reconcile" THEN EncodeReconcileResult(r) ELSE EncodeStatus(r)
DecodeAnswer(op, p) == IF op = "reconcile" THEN DecodeReconcileResult(p) ELSE DecodeStatus(p)

\* A decoder that fails returns nothing that a request or an answer could be,
ASSUME MalformedAssumption ==
  \A q \in Requests :
    /\ q # Malformed /\ <<>> # Malformed
    /\ q.op = "reconcile" => q.routes # Malformed
    /\ q.op = "apply" => q.config # Malformed
    /\ \A r \in AnswersTo(q) : r # Malformed

\* and no frame is no reply.
ASSUME FramesAssumption ==
  \A q \in Requests : \A r \in AnswersTo(q) : Frame(q.op, EncodeAnswer(q.op, r)) # NoFrame

-----------------------------------------------------------------------------
\* Call.

At(c, place) == client[c].pc = place
Connected(c) == pipe.who = c
Goes(c, place) == client' = [client EXCEPT ![c].pc = place]

\* Call returns; a handle it has opened is closed.
Returns(c, told, error, answer) ==
  /\ client' = [client EXCEPT ![c] =
       [@ EXCEPT !.pc = "idle", !.told = told, !.error = error, !.answer = answer]]
  /\ pipe' = IF Connected(c) THEN [pipe EXCEPT !.left = TRUE, !.down = NoFrame] ELSE pipe
  /\ UNCHANGED <<server, metrics, crashes, history>>

Fails(c, error) == Returns(c, "failed", error, NoResult)

\* The plugin, or RequestCleanup of the maintenance tool, makes a call.
Ask(c, q) ==
  /\ At(c, "idle")
  /\ client' = [client EXCEPT ![c] =
       [@ EXCEPT !.pc = "wait", !.request = q, !.told = "waiting", !.error = "none", !.answer = NoResult]]
  /\ ran' = [ran EXCEPT ![c] = NoRequest]
  /\ result' = [result EXCEPT ![c] = NoResult]
  /\ excused' = [excused EXCEPT ![c] = FALSE]
  /\ UNCHANGED <<pipe, server, metrics, crashes>>

\* WaitNamedPipe: an instance is listening,
Waits(c) ==
  /\ At(c, "wait") /\ pipe.open
  /\ Goes(c, "open")
  /\ UNCHANGED <<pipe, server, metrics, crashes, history>>

\* or there is no instance at all, or none becomes free within 2.5 s.
WaitFails(c) ==
  /\ At(c, "wait") /\ ~pipe.open
  /\ Fails(c, "unavailable")

\* CreateFile: another client may have been faster, or the service have crashed.
Open(c) ==
  /\ At(c, "open") /\ pipe.open
  /\ pipe' = [Listening EXCEPT !.open = FALSE, !.who = c]
  /\ Goes(c, "header")
  /\ UNCHANGED <<server, metrics, crashes, history>>

OpenFails(c) ==
  /\ At(c, "open") /\ ~pipe.open
  /\ Fails(c, "unavailable")

WriteHeader(c) ==
  /\ At(c, "header") /\ Connected(c)
  /\ pipe' = [pipe EXCEPT !.up = Header(client[c].request)]
  /\ Goes(c, "payload")
  /\ UNCHANGED <<server, metrics, crashes, history>>

WritePayload(c) ==
  /\ At(c, "payload") /\ Connected(c)
  /\ pipe' = [pipe EXCEPT !.up = Frame(client[c].request.op, Payload(client[c].request))]
  /\ Goes(c, "read")
  /\ UNCHANGED <<server, metrics, crashes, history>>

\* A read that gives up after a time, and leaves the request with the service.
BugBreaksOff(c) ==
  /\ client[c].pc \in {"header", "payload", "read"}
  /\ Fails(c, "broken")

\* The pipe was disconnected.
BreaksOff(c) ==
  /\ client[c].pc \in {"header", "payload", "read"} /\ ~Connected(c)
  /\ Fails(c, "broken")

\* The reply is there: its header echoes the operation, and its payload decodes.
ReadReply(c) ==
  /\ At(c, "read") /\ Connected(c) /\ pipe.down # NoFrame
  /\ \E value \in {DecodeAnswer(client[c].request.op, pipe.down.payload)} :
       IF pipe.down.op # client[c].request.op \/ pipe.down.size > MaxFrame THEN Fails(c, "frame")
       ELSE IF value = Malformed THEN Fails(c, "data")
       ELSE Returns(c, "returned", "none", value)

\* The process of the caller ends: the application is closed, or the tool.
Die(c) ==
  /\ client[c].told = "waiting"
  /\ client' = [client EXCEPT ![c] = [@ EXCEPT !.pc = "gone", !.told = "gone"]]
  /\ pipe' = IF Connected(c) THEN [pipe EXCEPT !.left = TRUE, !.down = NoFrame] ELSE pipe
  /\ UNCHANGED <<server, metrics, crashes, history>>

-----------------------------------------------------------------------------
\* Run and ServeClient.

Serves(from, to) == server.pc = from /\ server' = [server EXCEPT !.pc = to]

CreatePipe ==
  /\ Serves("check", "listen")
  /\ pipe' = Listening
  /\ UNCHANGED <<client, metrics, crashes, history>>

\* A client has connected; AuthorizeClient looks at the path of its process.
Accept ==
  /\ pipe.who # NoClient
  /\ Serves("listen", IF client[pipe.who].known THEN "read" ELSE "close")
  /\ UNCHANGED <<client, pipe, metrics, crashes, history>>

\* All of the frame has arrived.
Complete == pipe.up # NoFrame /\ pipe.up.size <= MaxFrame /\ pipe.up.payload # NoFrame

ReadFrame ==
  /\ Complete
  /\ Serves("read", "dispatch")
  /\ UNCHANGED <<client, pipe, metrics, crashes, history>>

\* The frame is too large, or the client has left within it.
BugRejectFrame ==
  /\ ~Complete /\ pipe.left
  /\ Serves("read", "close")
  /\ UNCHANGED <<client, pipe, metrics, crashes, history>>

RejectFrame ==
  /\ ~Complete
  /\ pipe.left \/ (pipe.up # NoFrame /\ pipe.up.size > MaxFrame)
  /\ Serves("read", "close")
  /\ UNCHANGED <<client, pipe, metrics, crashes, history>>

Answers(r) ==
  server' = [pc |-> "write", reply |-> Frame(pipe.up.op, EncodeAnswer(pipe.up.op, r))]

Refuse ==
  /\ server.pc = "dispatch"
  /\ Decoded(pipe.up.op, pipe.up.payload) = Malformed
  /\ Answers(Refusal(pipe.up.op))
  /\ result' = [result EXCEPT ![pipe.who] = Refusal(pipe.up.op)]
  /\ UNCHANGED <<client, pipe, metrics, crashes, ran, excused>>

\* Dispatch runs the request.  Rules it applies may have new ids.
Dispatch ==
  /\ server.pc = "dispatch"
  /\ \E q \in {Decoded(pipe.up.op, pipe.up.payload)} :
     /\ q # Malformed
     /\ \E n \in IF q.op = "apply" /\ metrics <= MaxMetrics THEN {metrics, metrics + 1} ELSE {metrics} :
          /\ metrics' = n
          /\ \E r \in IF q.op = "reconcile" THEN RouteResults ELSE {Status(n)} :
               /\ Answers(r)
               /\ result' = [result EXCEPT ![pipe.who] = r]
     /\ ran' = [ran EXCEPT ![pipe.who] = q]
     /\ UNCHANGED <<client, pipe, crashes, excused>>

Reply ==
  /\ server.pc = "write"
  /\ server' = [pc |-> "close", reply |-> NoFrame]
  /\ pipe' = IF pipe.left THEN pipe ELSE [pipe EXCEPT !.down = server.reply]
  /\ UNCHANGED <<client, metrics, crashes, history>>

\* FlushFileBuffers waits until the reply is read or the client has left; then the
\* instance is disconnected and closed.
BugClosePipe ==
  /\ Serves("close", "check")
  /\ pipe' = NoPipe
  /\ UNCHANGED <<client, metrics, crashes, history>>

ClosePipe ==
  /\ pipe.left \/ pipe.down = NoFrame
  /\ Serves("close", "check")
  /\ pipe' = NoPipe
  /\ UNCHANGED <<client, metrics, crashes, history>>

Crash ==
  /\ server.pc # "down" /\ crashes < MaxCrashes
  /\ crashes' = crashes + 1
  /\ server' = [pc |-> "down", reply |-> NoFrame]
  /\ pipe' = NoPipe
  /\ excused' = [c \in Clients |-> excused[c] \/ client[c].told = "waiting"]
  /\ UNCHANGED <<client, metrics, ran, result>>

\* The SCM starts the service again, with an empty relay.
Restart ==
  /\ Serves("down", "check")
  /\ metrics' = 0
  /\ UNCHANGED <<client, pipe, crashes, history>>

-----------------------------------------------------------------------------
CallStep(c) ==
  \/ Waits(c) \/ WaitFails(c) \/ Open(c) \/ OpenFails(c)
  \/ WriteHeader(c) \/ WritePayload(c) \/ BreaksOff(c) \/ ReadReply(c)

Serve ==
  \/ CreatePipe \/ Accept \/ ReadFrame \/ RejectFrame \/ Refuse \/ Dispatch
  \/ Reply \/ ClosePipe \/ Restart

Next ==
  \/ \E c \in Clients : CallStep(c) \/ Die(c) \/ \E q \in Asks[c] : Ask(c, q)
  \/ Serve \/ Crash

Spec == Init /\ [][Next]_vars

\* The thread of a call and the thread of the service run; nobody need call.
FairSpec == Spec /\ WF_vars(Serve) /\ \A c \in Clients : WF_vars(CallStep(c))

-----------------------------------------------------------------------------
\* Properties.

\* Client, pipe and service together do what RemoteCall says of a call: nothing is
\* run twice, changed on the way, answered before it was run, answered with the
\* result of another call, or run after its caller was told it had failed.
Remote == INSTANCE RemoteCall WITH
  asked <- [c \in Clients |-> client[c].request],
  told <- [c \in Clients |->
    IF client[c].told # "returned" THEN client[c].told
    ELSE IF ran[c] = NoRequest THEN "refused" ELSE "answered"],
  result <- [c \in Clients |-> IF ran[c] = NoRequest THEN NoResult ELSE result[c]],
  answer <- [c \in Clients |-> IF ran[c] = NoRequest THEN NoResult ELSE client[c].answer]
ImplementsRemoteCall == Remote!Spec

\* The error a caller is given says what has happened.  A reply is never taken for
\* another operation's, nor refused unless it is too large, which the service does
\* not look at.  Input and output fail only when the service has crashed
\* during the call, does not know the caller or cannot take a frame of that size.
\* Data fail to decode only beyond the limits, as when the service has seen more
\* rule ids since its start than a status may list.
ErrorsAreTrue ==
  \A c \in Clients :
    /\ client[c].error = "frame" =>
         Len(EncodeAnswer(client[c].request.op, result[c])) > MaxFrame
    /\ client[c].error = "broken" =>
         excused[c] \/ ~client[c].known \/ Len(Payload(client[c].request)) > MaxFrame
    /\ client[c].error = "data" =>
         DecodeAnswer(client[c].request.op, EncodeAnswer(client[c].request.op, result[c])) = Malformed

\* Every call returns: a crash of the service, a refused frame and another client
\* that dies half way through its own leave no caller waiting.
CallsReturn == \A c \in Clients : client[c].told = "waiting" ~> client[c].told # "waiting"
=============================================================================
