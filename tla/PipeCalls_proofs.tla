--------------------------- MODULE PipeCalls_proofs ---------------------------
(***************************************************************************)
(* Proofs about PipeCalls, for any number of clients and of crashes, and   *)
(* whatever may be asked and answered.                                     *)
(*                                                                         *)
(* The two formats are right: RequestsRoundTrip, AnswersRoundTrip.  The    *)
(* inductive invariant IInv says how the places of a client, of the pipe   *)
(* and of the service fit together.  ErrorsAreTrue leans on                *)
(*   - Sent: the pipe has what its client has written, no more;            *)
(*   - Done: the service has the answer to that request, and has run it or *)
(*     could not accept it;                                                *)
(*   - ErrorOK: a client that talks and is not connected has an excuse.    *)
(* Every action is then a step of RemoteCall, or a stutter.                *)
(***************************************************************************)
EXTENDS PipeCalls, PipeProtocol_proofs

-----------------------------------------------------------------------------
\* Requests and answers.

\* Within the limits of the decoders.
Within(q) ==
  /\ q.op = "reconcile" => Len(q.routes) <= MaxItems
  /\ q.op = "apply" =>
       /\ Len(q.config.rules) <= MaxRules
       /\ \A i \in DOMAIN q.config.rules : Len(q.config.rules[i].executables) <= MaxExecutables

\* A request is decoded as it was sent, or not at all if it exceeds a limit.
THEOREM RequestsRoundTrip ==
  ASSUME NEW q \in Requests
  PROVE  Decoded(q.op, Payload(q)) = IF Within(q) THEN q ELSE Malformed
<1>1. q # Malformed /\ <<>> # Malformed
  BY MalformedAssumption
<1>2. CASE q.op \in {"status", "cleanup"}
  <2>1. Payload(q) = <<>> /\ q = [op |-> q.op]
    BY <1>2, RequestsAssumption, Zenon DEF Payload
  <2>2. Decoded(q.op, <<>>) = [op |-> q.op]
    BY <1>1, <1>2 DEF Decoded
  <2>3. Within(q)
    BY <1>2 DEF Within
  <2>. QED
    BY <2>1, <2>2, <2>3
<1>3. CASE q.op = "reconcile"
  <2>1. Payload(q) = EncodeRoutes(q.routes)
    BY <1>3 DEF Payload
  <2>2. /\ q = [op |-> q.op, routes |-> q.routes] /\ q.routes # Malformed
        /\ q.routes \in Seq(ToSet(q.routes))
    BY <1>3, RequestsAssumption, MalformedAssumption DEF IsList
  <2>3. DecodeRoutes(Payload(q)) = IF Len(q.routes) > MaxItems THEN Malformed ELSE q.routes
    BY <2>1, <2>2, RoutesRoundTrip
  <2>4. Within(q) <=> ~(Len(q.routes) > MaxItems)
    <3>1. Len(q.routes) \in Nat /\ MaxItems \in Nat
      BY <2>2, LimitsAssumption
    <3>. QED
      BY <1>3, <3>1 DEF Within
  <2>5. CASE Within(q)
    <3>1. DecodeRoutes(Payload(q)) = q.routes
      BY <2>3, <2>4, <2>5
    <3>2. Decoded(q.op, Payload(q)) = [op |-> q.op, routes |-> q.routes]
      BY <1>3, <2>2, <3>1 DEF Decoded
    <3>. QED
      BY <2>2, <2>5, <3>2
  <2>6. CASE ~Within(q)
    <3>1. DecodeRoutes(Payload(q)) = Malformed
      BY <2>3, <2>4, <2>6
    <3>. QED
      BY <1>3, <2>6, <3>1 DEF Decoded
  <2>. QED
    BY <2>5, <2>6
<1>4. CASE q.op = "apply"
  <2>1. Payload(q) = EncodeAppRules(q.config)
    BY <1>4 DEF Payload
  <2>2. /\ q = [op |-> q.op, config |-> [master |-> q.config.master, rules |-> q.config.rules]]
        /\ q.config # Malformed /\ q.config.rules \in Seq(ToSet(q.config.rules))
        /\ \A i \in DOMAIN q.config.rules :
             /\ q.config.rules[i] = [rule |-> q.config.rules[i].rule,
                                     executables |-> q.config.rules[i].executables]
             /\ q.config.rules[i].executables \in Seq(ToSet(q.config.rules[i].executables))
    BY <1>4, RequestsAssumption, MalformedAssumption DEF IsList
  <2>. DEFINE rules == q.config.rules
              n == Len(rules)
              rule == [i \in 1..n |-> rules[i].rule]
              exes == [i \in 1..n |-> rules[i].executables]
              S == {rules[i].rule : i \in 1..n}
                     \cup UNION {ToSet(rules[i].executables) : i \in 1..n}
  <2>3. n \in Nat /\ DOMAIN rules = 1..n /\ rules = [i \in 1..n |-> rules[i]]
    BY <2>2
  <2>4. rule \in [1..n -> S] /\ exes \in [1..n -> Seq(S)]
    <3>1. ASSUME NEW i \in 1..n
          PROVE  rules[i].rule \in S /\ rules[i].executables \in Seq(S)
      <4>1. ToSet(rules[i].executables) \subseteq S
        OBVIOUS
      <4>2. rules[i].executables \in Seq(ToSet(rules[i].executables))
        BY <2>2, <2>3
      <4>. DEFINE x == rules[i].executables
                  R == ToSet(x)
      <4>3. x \in Seq(R) /\ R \subseteq S
        BY <4>1, <4>2
      <4>. HIDE DEF x, R, S
      <4>4. x \in Seq(S)
        BY <4>3
      <4>. QED
        BY <4>4 DEF x, S
    <3>. HIDE DEF S
    <3>. QED
      BY <3>1
  <2>5. q.config = Config(q.config.master, n, rule, exes)
    <3>1. q.config = [master |-> q.config.master, rules |-> rules]
      BY <2>2
    <3>2. \A i \in 1..n : rules[i] = [rule |-> rule[i], executables |-> exes[i]]
      BY <2>2, <2>3
    <3>3. rules = [i \in 1..n |-> [rule |-> rule[i], executables |-> exes[i]]]
      <4>. HIDE DEF rule, exes, rules, n
      <4>. QED
        BY <2>3, <3>2
    <3>. QED
      BY <3>1, <3>3 DEF Config
  <2>6. DecodeAppRules(Payload(q)) =
          IF n > MaxRules \/ \E i \in 1..n : Len(exes[i]) > MaxExecutables
          THEN Malformed ELSE q.config
    <3>. DEFINE m == q.config.master
    <3>1. q.config = Config(m, n, rule, exes)
      BY <2>5
    <3>. HIDE DEF rules, n, rule, exes, S, m
    <3>2. DecodeAppRules(EncodeAppRules(Config(m, n, rule, exes))) =
            IF n > MaxRules \/ \E i \in 1..n : Len(exes[i]) > MaxExecutables
            THEN Malformed ELSE Config(m, n, rule, exes)
      BY <2>3, <2>4, AppRulesRoundTrip
    <3>. QED
      BY <2>1, <3>1, <3>2, Zenon
  <2>7. Within(q) <=> ~(n > MaxRules \/ \E i \in 1..n : Len(exes[i]) > MaxExecutables)
    <3>1. MaxRules \in Nat /\ MaxExecutables \in Nat /\ \A i \in 1..n : Len(exes[i]) \in Nat
      <4>. HIDE DEF S, exes
      <4>. QED
        BY <2>4, LimitsAssumption
    <3>2. Within(q) <=> n <= MaxRules /\ \A i \in 1..n : Len(exes[i]) <= MaxExecutables
      BY <1>4, <2>3, Zenon DEF Within
    <3>. HIDE DEF exes, n
    <3>. QED
      BY <2>3, <3>1, <3>2
  <2>. HIDE DEF rules, n, rule, exes, S
  <2>8. CASE Within(q)
    <3>1. DecodeAppRules(Payload(q)) = q.config
      BY <2>6, <2>7, <2>8
    <3>2. Decoded(q.op, Payload(q)) = [op |-> q.op, config |-> q.config]
      BY <1>4, <2>2, <3>1 DEF Decoded
    <3>3. q = [op |-> q.op, config |-> q.config]
      BY <2>2
    <3>. QED
      BY <2>8, <3>2, <3>3
  <2>9. CASE ~Within(q)
    <3>1. DecodeAppRules(Payload(q)) = Malformed
      BY <2>6, <2>7, <2>9
    <3>. QED
      BY <1>4, <2>9, <3>1 DEF Decoded
  <2>. QED
    BY <2>8, <2>9
<1>. QED
  BY <1>2, <1>3, <1>4, RequestsAssumption

\* An answer is decoded as it was given, or not at all.
THEOREM AnswersRoundTrip ==
  ASSUME NEW q \in Requests, NEW r \in AnswersTo(q)
  PROVE  DecodeAnswer(q.op, EncodeAnswer(q.op, r)) \in {r, Malformed}
<1>1. CASE q.op = "reconcile"
  <2>1. r \in RouteResults \cup {NoReconcile}
    BY <1>1 DEF AnswersTo
  <2>2. /\ r = [ok |-> r.ok, errors |-> r.errors, checks |-> r.checks, resets |-> r.resets,
               restarted |-> r.restarted]
        /\ IsList(r.errors) /\ IsList(r.checks) /\ IsList(r.resets) /\ IsList(r.restarted)
    <3>1. CASE r \in RouteResults
      BY <3>1, ResultsAssumption
    <3>2. CASE r = NoReconcile
      <4>1. <<"invalid">> \in Seq(ToSet(<<"invalid">>)) /\ <<>> \in Seq(ToSet(<<>>))
        BY DEF ToSet
      <4>. QED
        BY <3>2, <4>1 DEF NoReconcile, IsList
    <3>. QED
      BY <2>1, <3>1, <3>2
  <2>. DEFINE S == {r.ok} \cup ToSet(r.errors) \cup ToSet(r.checks) \cup ToSet(r.resets) \cup ToSet(r.restarted)
  <2>3. /\ r.ok \in S /\ r.errors \in Seq(S) /\ r.checks \in Seq(S) /\ r.resets \in Seq(S)
        /\ r.restarted \in Seq(S)
    <3>1. ASSUME NEW T, NEW R, R \subseteq T, NEW s \in Seq(R)
          PROVE  s \in Seq(T)
      BY <3>1
    <3>2. /\ ToSet(r.errors) \subseteq S /\ ToSet(r.checks) \subseteq S
          /\ ToSet(r.resets) \subseteq S /\ ToSet(r.restarted) \subseteq S
      OBVIOUS
    <3>3. /\ r.errors \in Seq(ToSet(r.errors)) /\ r.checks \in Seq(ToSet(r.checks))
          /\ r.resets \in Seq(ToSet(r.resets)) /\ r.restarted \in Seq(ToSet(r.restarted))
      BY <2>2 DEF IsList
    <3>4. r.ok \in S
      OBVIOUS
    <3>. HIDE DEF S
    <3>. QED
      BY <3>1, <3>2, <3>3, <3>4
  <2>. HIDE DEF S
  <2>4. DecodeReconcileResult(EncodeReconcileResult(r)) \in {r, Malformed}
    <3>1. ResultOf(S, r) /\ IsResult(r)
      BY <2>2, <2>3 DEF ResultOf, IsResult
    <3>. QED
      BY <3>1, ReconcileResultRoundTrip
  <2>. QED
    BY <1>1, <2>4 DEF DecodeAnswer, EncodeAnswer
<1>2. CASE q.op # "reconcile"
  <2>1. PICK n \in 0..(MaxMetrics + 1) : r = Status(n)
    BY <1>2 DEF AnswersTo, Results
  <2>. DEFINE metric == [i \in 1..n |-> "metric"]
  <2>2. metric \in Seq({"metric"}) /\ r = [flags |-> "ready", metrics |-> metric]
    <3>1. n \in Nat
      BY LimitsAssumption
    <3>. QED
      BY <2>1, <3>1 DEF Status
  <2>. HIDE DEF metric
  <2>3. DecodeStatus(EncodeStatus(r)) \in {r, Malformed}
    BY <2>2, StatusRoundTrip
  <2>. QED
    BY <1>2, <2>3 DEF DecodeAnswer, EncodeAnswer
<1>. QED
  BY <1>1, <1>2

-----------------------------------------------------------------------------
\* The inductive invariant.

Places == {"idle", "wait", "open", "header", "payload", "read", "gone"}
Verdicts == {"idle", "waiting", "failed", "returned", "gone"}
Errors == {"none", "unavailable", "broken", "frame", "data"}
AllAnswers == UNION {AnswersTo(q) : q \in Requests}

Types ==
  /\ client \in [Clients -> [known : BOOLEAN, pc : Places, request : Requests \cup {NoRequest},
                             told : Verdicts, error : Errors, answer : AllAnswers \cup {NoResult}]]
  /\ ran \in [Clients -> Requests \cup {NoRequest}]
  /\ result \in [Clients -> AllAnswers \cup {NoResult}]
  /\ excused \in [Clients -> BOOLEAN]
  /\ metrics \in 0..(MaxMetrics + 1)
  /\ server = [pc |-> server.pc, reply |-> server.reply]
  /\ server.pc \in {"check", "listen", "read", "dispatch", "write", "close", "down"}
  /\ pipe = [who |-> pipe.who, open |-> pipe.open, left |-> pipe.left,
             up |-> pipe.up, down |-> pipe.down]
  /\ pipe.who \in Clients \cup {NoClient} /\ pipe.open \in BOOLEAN /\ pipe.left \in BOOLEAN

\* A client writes or reads, or has yet to open the pipe.
Talks(c) == client[c].pc \in {"header", "payload", "read"}
Waiting(c) == client[c].pc \in {"wait", "open"}

\* What a client has been told goes with its place in Call, and nothing is run for it
\* before it has opened the pipe.
CallOK(c) ==
  /\ client[c].told = "waiting" <=> Talks(c) \/ Waiting(c)
  /\ client[c].told = "gone" <=> client[c].pc = "gone"
  /\ client[c].told # "idle" => client[c].request \in Requests
  /\ client[c].told = "idle" => ran[c] = NoRequest /\ client[c].error = "none"
  /\ client[c].told \in {"waiting", "gone"} => client[c].answer = NoResult /\ client[c].error = "none"
  /\ Waiting(c) => ran[c] = NoRequest
  /\ ran[c] \in {NoRequest, client[c].request}

\* Why input or output may fail.
TooLarge(c) == Len(Payload(client[c].request)) > MaxFrame
Excuse(c) == excused[c] \/ ~client[c].known \/ TooLarge(c)

\* The errors are true, and a client whose pipe is gone has an excuse to fail.
ErrorOK(c) ==
  /\ client[c].error = "frame" => Len(EncodeAnswer(client[c].request.op, result[c])) > MaxFrame
  /\ client[c].error = "broken" => Excuse(c)
  /\ client[c].error = "data" =>
       DecodeAnswer(client[c].request.op, EncodeAnswer(client[c].request.op, result[c])) = Malformed
  /\ Talks(c) /\ pipe.who # c => Excuse(c)

\* Without a client the pipe is empty, and the service listens at most.
NobodyOK ==
  /\ pipe.up = NoFrame /\ pipe.down = NoFrame /\ ~pipe.left
  /\ server.pc \in {"check", "listen", "down"}
  /\ pipe.open <=> server.pc = "listen"

\* The pipe has what its client has written so far.
Sent(c) ==
  /\ client[c].pc = "header" => pipe.up = NoFrame
  /\ client[c].pc = "payload" => pipe.up = Header(client[c].request)
  /\ client[c].pc = "read" => pipe.up = Frame(client[c].request.op, Payload(client[c].request))
  /\ pipe.up \in {NoFrame, Header(client[c].request),
                  Frame(client[c].request.op, Payload(client[c].request))}

\* The service has an answer for a client: to its request, which it has run, or which
\* it could not accept.
Done(c) ==
  /\ result[c] \in AnswersTo(client[c].request)
  /\ \/ ran[c] = client[c].request
     \/ ran[c] = NoRequest /\ ~Acceptable(client[c].request)
ReplyTo(c) == Frame(client[c].request.op, EncodeAnswer(client[c].request.op, result[c]))

\* The pipe and the service, for the client that is connected.
ConnectionOK(c) ==
  /\ ~pipe.open /\ client[c].told # "idle"
  /\ server.pc \in {"listen", "read", "dispatch", "write", "close"}
  /\ pipe.left <=> ~Talks(c)
  /\ server.pc # "close" => Talks(c) \/ client[c].pc = "gone"
  /\ server.pc # "close" \/ Talks(c) => Sent(c)
  /\ server.pc \in {"listen", "read", "dispatch"} => ran[c] = NoRequest
  /\ server.pc \in {"dispatch", "write"} =>
       /\ Complete
       /\ pipe.up = Frame(client[c].request.op, Payload(client[c].request))
       /\ Len(Payload(client[c].request)) <= MaxFrame
  /\ server.pc = "write" => server.reply = ReplyTo(c) /\ Done(c)
  /\ pipe.down # NoFrame => server.pc = "close" /\ Talks(c) /\ pipe.down = ReplyTo(c) /\ Done(c)
  /\ server.pc = "close" /\ Talks(c) /\ pipe.down = NoFrame => ~client[c].known \/ TooLarge(c)

IInv ==
  /\ Types
  /\ \A c \in Clients : CallOK(c) /\ ErrorOK(c)
  /\ pipe.who = NoClient => NobodyOK
  /\ \A c \in Clients : pipe.who = c => ConnectionOK(c)

\* At first nobody calls and there is no pipe.
LEMMA InitIInv == Init => IInv
<1>. SUFFICES ASSUME Init PROVE IInv
  OBVIOUS
<1>1. PICK K \in SUBSET Clients : client = [c \in Clients |-> Idle(c \in K)]
  BY DEF Init
<1>2. \A c \in Clients : client[c] = Idle(c \in K)
  BY <1>1
<1>3. Types
  <2>1. client \in [Clients -> [known : BOOLEAN, pc : Places, request : Requests \cup {NoRequest},
                             told : Verdicts, error : Errors, answer : AllAnswers \cup {NoResult}]]
    BY <1>1 DEF Idle, Places, Verdicts, Errors
  <2>2. 0 \in 0..(MaxMetrics + 1)
    BY LimitsAssumption
  <2>. QED
    BY <2>1, <2>2 DEF Init, Types, NoPipe
<1>4. ASSUME NEW c \in Clients
      PROVE  CallOK(c) /\ ErrorOK(c)
  BY <1>2 DEF Init, CallOK, ErrorOK, Talks, Waiting, Idle
<1>. QED
  BY <1>3, <1>4, NobodyAssumption DEF IInv, NobodyOK, Init, NoPipe

-----------------------------------------------------------------------------
\* Steps of a client.

\* What an action of c leaves alone, of other clients and of the service.
LEMMA Others ==
  ASSUME IInv, NEW d \in Clients, client'[d] = client[d], ran'[d] = ran[d], result'[d] = result[d],
         excused'[d] = excused[d], pipe.who = d => pipe'.who = d
  PROVE  CallOK(d)' /\ ErrorOK(d)'
BY DEF IInv, CallOK, ErrorOK, Talks, Waiting, Excuse, TooLarge

\* The connection of a client that neither the pipe nor the service changes.
LEMMA ConnectionKept ==
  ASSUME IInv, NEW d \in Clients, pipe.who = d, client'[d] = client[d], ran'[d] = ran[d],
         result'[d] = result[d], UNCHANGED <<pipe, server>>
  PROVE  ConnectionOK(d)'
BY DEF IInv, ConnectionOK, Talks, Sent, Done, ReplyTo, TooLarge, Complete

\* A caller that has been answered may still be connected: then the service is closing.
LEMMA AskStep ==
  ASSUME IInv, NEW c \in Clients, NEW q \in Asks[c], Ask(c, q)
  PROVE  IInv'
<1>1. q \in Requests
  BY AsksAssumption
<1>2. /\ client' = [client EXCEPT ![c] =
            [@ EXCEPT !.pc = "wait", !.request = q, !.told = "waiting", !.error = "none",
                      !.answer = NoResult]]
      /\ ran' = [ran EXCEPT ![c] = NoRequest] /\ result' = [result EXCEPT ![c] = NoResult]
      /\ excused' = [excused EXCEPT ![c] = FALSE]
      /\ UNCHANGED <<pipe, server, metrics>> /\ client[c].pc = "idle"
  BY DEF Ask, At
<1>3. Types'
  <2>1. client \in [Clients -> [known : BOOLEAN, pc : Places, request : Requests \cup {NoRequest},
                               told : Verdicts, error : Errors, answer : AllAnswers \cup {NoResult}]]
    BY DEF IInv, Types
  <2>2. [client[c] EXCEPT !.pc = "wait", !.request = q, !.told = "waiting", !.error = "none",
                          !.answer = NoResult] \in
             [known : BOOLEAN, pc : Places, request : Requests \cup {NoRequest},
              told : Verdicts, error : Errors, answer : AllAnswers \cup {NoResult}]
    BY <1>1, <2>1, ZenonT(40) DEF Places, Verdicts, Errors
  <2>3. client' \in [Clients -> [known : BOOLEAN, pc : Places, request : Requests \cup {NoRequest},
                                told : Verdicts, error : Errors, answer : AllAnswers \cup {NoResult}]]
    BY <1>2, <2>1, <2>2
  <2>. QED
    BY <1>2, <2>3 DEF IInv, Types
<1>4. ASSUME NEW d \in Clients
      PROVE  CallOK(d)' /\ ErrorOK(d)'
  <2>1. CASE d # c
    BY <1>2, <2>1, Others DEF IInv, Types
  <2>2. CASE d = c
    BY <1>1, <1>2, <2>2 DEF IInv, Types, CallOK, ErrorOK, Talks, Waiting
  <2>. QED
    BY <2>1, <2>2
<1>5. pipe'.who = NoClient => NobodyOK'
  BY <1>2 DEF IInv, NobodyOK
<1>6. ASSUME NEW d \in Clients, pipe'.who = d
      PROVE  ConnectionOK(d)'
  <2>1. CASE d # c
    BY <1>2, <1>6, <2>1, ConnectionKept DEF IInv, Types
  <2>2. CASE d = c
    <3>1. ConnectionOK(c) /\ server.pc = "close" /\ pipe.left /\ pipe.down = NoFrame
      BY <1>2, <1>6, <2>2 DEF IInv, ConnectionOK, Talks
    <3>. QED
      BY <1>2, <2>2, <3>1 DEF IInv, Types, ConnectionOK, Talks
  <2>. QED
    BY <2>1, <2>2
<1>. QED
  BY <1>3, <1>4, <1>5, <1>6 DEF IInv

\* It leaves the pipe alone.
LEMMA WaitsStep ==
  ASSUME IInv, NEW c \in Clients, Waits(c)
  PROVE  IInv'
<1>1. /\ client' = [client EXCEPT ![c].pc = "open"] /\ client[c].pc = "wait"
      /\ UNCHANGED <<pipe, server, metrics, ran, result, excused>>
  BY DEF Waits, At, Goes, history
<1>2. Types'
  BY <1>1, SMTT(30) DEF IInv, Types, Places
<1>3. ASSUME NEW d \in Clients
      PROVE  CallOK(d)' /\ ErrorOK(d)'
  <2>1. CASE d # c
    BY <1>1, <2>1, Others DEF IInv, Types
  <2>2. CASE d = c
    BY <1>1, <2>2 DEF IInv, Types, CallOK, ErrorOK, Talks, Waiting
  <2>. QED
    BY <2>1, <2>2
<1>4. pipe'.who = NoClient => NobodyOK'
  BY <1>1 DEF IInv, NobodyOK
<1>5. ASSUME NEW d \in Clients, pipe'.who = d
      PROVE  ConnectionOK(d)'
  <2>1. CASE d # c
    BY <1>1, <1>5, <2>1, ConnectionKept DEF IInv, Types
  <2>2. CASE d = c
    <3>1. ConnectionOK(c) /\ server.pc = "close" /\ pipe.left /\ pipe.down = NoFrame
      BY <1>1, <1>5, <2>2 DEF IInv, ConnectionOK, Talks
    <3>. QED
      BY <1>1, <2>2, <3>1 DEF IInv, Types, ConnectionOK, Talks
  <2>. QED
    BY <2>1, <2>2
<1>. QED
  BY <1>2, <1>3, <1>4, <1>5 DEF IInv

\* An instance that is open has no client, and is empty.
LEMMA OpenStep ==
  ASSUME IInv, NEW c \in Clients, Open(c)
  PROVE  IInv'
<1>1. /\ client' = [client EXCEPT ![c].pc = "header"] /\ client[c].pc = "open"
      /\ pipe' = [who |-> c, open |-> FALSE, left |-> FALSE, up |-> NoFrame, down |-> NoFrame]
      /\ pipe.open
      /\ UNCHANGED <<server, metrics, ran, result, excused>>
  BY DEF Open, At, Goes, history, Listening, NoPipe
<1>2. pipe.who = NoClient /\ server.pc = "listen"
  BY <1>1 DEF IInv, Types, ConnectionOK, NobodyOK
<1>3. Types'
  BY <1>1, ZenonT(60) DEF IInv, Types, Places
<1>4. ASSUME NEW d \in Clients
      PROVE  CallOK(d)' /\ ErrorOK(d)'
  <2>1. CASE d # c
    BY <1>1, <1>2, <2>1, Others, NobodyAssumption DEF IInv, Types
  <2>2. CASE d = c
    BY <1>1, <2>2 DEF IInv, Types, CallOK, ErrorOK, Talks, Waiting
  <2>. QED
    BY <2>1, <2>2
<1>5. pipe'.who # NoClient
  BY <1>1, NobodyAssumption
<1>6. ASSUME NEW d \in Clients, pipe'.who = d
      PROVE  ConnectionOK(d)'
  <2>1. d = c /\ CallOK(c)
    BY <1>1, <1>6 DEF IInv
  <2>. QED
    BY <1>1, <1>2, <2>1 DEF IInv, Types, ConnectionOK, CallOK, Talks, Waiting, Sent
<1>. QED
  BY <1>3, <1>4, <1>5, <1>6 DEF IInv

\* The service is not past reading: the frame is not complete.
LEMMA WriteHeaderStep ==
  ASSUME IInv, NEW c \in Clients, WriteHeader(c)
  PROVE  IInv'
<1>1. /\ client' = [client EXCEPT ![c].pc = "payload"] /\ client[c].pc = "header"
      /\ pipe' = [pipe EXCEPT !.up = Header(client[c].request)] /\ pipe.who = c
      /\ UNCHANGED <<server, metrics, ran, result, excused>>
  BY DEF WriteHeader, At, Goes, history, Connected
<1>2. ConnectionOK(c) /\ pipe.up = NoFrame
  BY <1>1 DEF IInv, ConnectionOK, Talks, Sent
<1>3. Types'
  BY <1>1, SMTT(30) DEF IInv, Types, Places
<1>4. ASSUME NEW d \in Clients
      PROVE  CallOK(d)' /\ ErrorOK(d)'
  <2>1. CASE d # c
    BY <1>1, <2>1, Others DEF IInv, Types
  <2>2. CASE d = c
    BY <1>1, <2>2 DEF IInv, Types, CallOK, ErrorOK, Talks, Waiting
  <2>. QED
    BY <2>1, <2>2
<1>5. pipe'.who # NoClient
  BY <1>1, NobodyAssumption DEF IInv, Types
<1>6. ASSUME NEW d \in Clients, pipe'.who = d
      PROVE  ConnectionOK(d)'
  <2>1. /\ d = c /\ client'[c].request = client[c].request /\ client'[c].pc = "payload"
        /\ client'[c].known = client[c].known /\ client'[c].told = client[c].told
        /\ pipe'.up = Header(client[c].request) /\ pipe'.down = pipe.down
        /\ pipe'.open = pipe.open /\ pipe'.left = pipe.left
    BY <1>1, <1>6 DEF IInv, Types
  <2>2. server.pc \notin {"dispatch", "write"}
    BY <1>1, <1>2 DEF ConnectionOK, Complete
  <2>. QED
    BY <1>1, <1>2, <2>1, <2>2 DEF ConnectionOK, Talks, Sent, Done, ReplyTo, TooLarge
<1>. QED
  BY <1>3, <1>4, <1>5, <1>6 DEF IInv

\* The same; now the frame is complete, and is the request.
LEMMA WritePayloadStep ==
  ASSUME IInv, NEW c \in Clients, WritePayload(c)
  PROVE  IInv'
<1>1. /\ client' = [client EXCEPT ![c].pc = "read"] /\ client[c].pc = "payload"
      /\ pipe' = [pipe EXCEPT !.up = Frame(client[c].request.op, Payload(client[c].request))]
      /\ pipe.who = c
      /\ UNCHANGED <<server, metrics, ran, result, excused>>
  BY DEF WritePayload, At, Goes, history, Connected
<1>2. ConnectionOK(c) /\ pipe.up = Header(client[c].request)
  BY <1>1 DEF IInv, ConnectionOK, Talks, Sent
<1>4. Types'
  BY <1>1, SMTT(30) DEF IInv, Types, Places
<1>5. ASSUME NEW d \in Clients
      PROVE  CallOK(d)' /\ ErrorOK(d)'
  <2>1. CASE d # c
    BY <1>1, <2>1, Others DEF IInv, Types
  <2>2. CASE d = c
    BY <1>1, <2>2 DEF IInv, Types, CallOK, ErrorOK, Talks, Waiting
  <2>. QED
    BY <2>1, <2>2
<1>6. pipe'.who # NoClient
  BY <1>1, NobodyAssumption DEF IInv, Types
<1>7. ASSUME NEW d \in Clients, pipe'.who = d
      PROVE  ConnectionOK(d)'
  <2>1. /\ d = c /\ client'[c].request = client[c].request /\ client'[c].pc = "read"
        /\ client'[c].known = client[c].known /\ client'[c].told = client[c].told
        /\ pipe'.up = Frame(client[c].request.op, Payload(client[c].request))
        /\ pipe'.down = pipe.down /\ pipe'.open = pipe.open /\ pipe'.left = pipe.left
    BY <1>1, <1>7 DEF IInv, Types
  <2>2. server.pc \notin {"dispatch", "write"}
    BY <1>1, <1>2 DEF ConnectionOK, Complete, Header, Frame
  <2>. QED
    BY <1>1, <1>2, <2>1, <2>2 DEF ConnectionOK, Talks, Sent, Done, ReplyTo, TooLarge
<1>. QED
  BY <1>4, <1>5, <1>6, <1>7 DEF IInv

\* Call returns with an error that is true, or with an answer; the service is done with
\* the client if it is connected.
LEMMA ReturnsStep ==
  ASSUME IInv, NEW c \in Clients, NEW told \in {"failed", "returned"}, NEW error \in Errors,
         NEW answer \in AllAnswers \cup {NoResult}, Returns(c, told, error, answer),
         client[c].told = "waiting", pipe.who = c => server.pc = "close",
         error = "frame" => Len(EncodeAnswer(client[c].request.op, result[c])) > MaxFrame,
         error = "broken" => Excuse(c),
         error = "data" =>
           DecodeAnswer(client[c].request.op, EncodeAnswer(client[c].request.op, result[c])) = Malformed
  PROVE  IInv'
<1>1. /\ client' = [client EXCEPT ![c] =
            [@ EXCEPT !.pc = "idle", !.told = told, !.error = error, !.answer = answer]]
      /\ pipe' = IF pipe.who = c THEN [pipe EXCEPT !.left = TRUE, !.down = NoFrame] ELSE pipe
      /\ UNCHANGED <<server, metrics, ran, result, excused>>
  BY DEF Returns, Connected, history
<1>2. Types'
  <2>1. client' \in [Clients -> [known : BOOLEAN, pc : Places, request : Requests \cup {NoRequest},
                               told : Verdicts, error : Errors, answer : AllAnswers \cup {NoResult}]]
    <3>1. "idle" \in Places /\ told \in Verdicts
      BY DEF Places, Verdicts
    <3>2. client \in [Clients -> [known : BOOLEAN, pc : Places, request : Requests \cup {NoRequest},
                               told : Verdicts, error : Errors, answer : AllAnswers \cup {NoResult}]]
      BY DEF IInv, Types
    <3>3. [client[c] EXCEPT !.pc = "idle", !.told = told, !.error = error, !.answer = answer] \in
             [known : BOOLEAN, pc : Places, request : Requests \cup {NoRequest},
              told : Verdicts, error : Errors, answer : AllAnswers \cup {NoResult}]
      BY <3>1, <3>2
    <3>. QED
      BY <1>1, <3>2, <3>3
  <2>2. /\ pipe' = [who |-> pipe'.who, open |-> pipe'.open, left |-> pipe'.left,
                   up |-> pipe'.up, down |-> pipe'.down]
        /\ pipe'.who = pipe.who /\ pipe'.open = pipe.open /\ pipe'.left \in BOOLEAN
    BY <1>1 DEF IInv, Types
  <2>. QED
    BY <1>1, <2>1, <2>2 DEF IInv, Types
<1>3. /\ client'[c].pc = "idle" /\ client'[c].told = told /\ client'[c].error = error
      /\ client'[c].answer = answer /\ client'[c].known = client[c].known
      /\ client'[c].request = client[c].request
      /\ \A d \in Clients : d # c => client'[d] = client[d]
      /\ pipe'.who = pipe.who /\ pipe'.open = pipe.open
  BY <1>1 DEF IInv, Types
<1>4. ASSUME NEW d \in Clients
      PROVE  CallOK(d)' /\ ErrorOK(d)'
  <2>1. CASE d # c
    BY <1>1, <1>3, <2>1, Others
  <2>2. CASE d = c
    <3>1. CallOK(c)'
      BY <1>1, <1>3 DEF IInv, CallOK, Talks, Waiting
    <3>2. ErrorOK(c)'
      BY <1>1, <1>3 DEF IInv, ErrorOK, Talks, Excuse, TooLarge
    <3>. QED
      BY <2>2, <3>1, <3>2
  <2>. QED
    BY <2>1, <2>2
<1>5. pipe'.who = NoClient => NobodyOK'
  BY <1>1, <1>3, NobodyAssumption DEF IInv, NobodyOK
<1>6. ASSUME NEW d \in Clients, pipe'.who = d
      PROVE  ConnectionOK(d)'
  <2>1. CASE d # c
    BY <1>1, <1>3, <1>6, <2>1, ConnectionKept
  <2>2. CASE d = c
    <3>1. ConnectionOK(c) /\ server.pc = "close"
      BY <1>3, <1>6, <2>2 DEF IInv
    <3>2. pipe'.left /\ pipe'.down = NoFrame
      BY <1>1, <1>3, <1>6, <2>2 DEF IInv, Types
    <3>. QED
      BY <1>1, <1>3, <2>2, <3>1, <3>2 DEF ConnectionOK, Talks
  <2>. QED
    BY <2>1, <2>2
<1>. QED
  BY <1>2, <1>4, <1>5, <1>6 DEF IInv

\* A client that waits for the pipe is not connected, but for a call before.
LEMMA WaitingIsDone ==
  ASSUME IInv, NEW c \in Clients, Waiting(c)
  PROVE  client[c].told = "waiting" /\ (pipe.who = c => server.pc = "close")
BY DEF IInv, CallOK, ConnectionOK, Waiting, Talks

\* No instance: the caller has written nothing, so nothing is left to be run.
LEMMA WaitFailsStep ==
  ASSUME IInv, NEW c \in Clients, WaitFails(c)
  PROVE  IInv'
<1>1. Returns(c, "failed", "unavailable", NoResult) /\ Waiting(c)
  BY DEF WaitFails, Fails, At, Waiting
<1>. QED
  BY <1>1, WaitingIsDone, ReturnsStep DEF Errors

\* The instance is gone: the same.
LEMMA OpenFailsStep ==
  ASSUME IInv, NEW c \in Clients, OpenFails(c)
  PROVE  IInv'
<1>1. Returns(c, "failed", "unavailable", NoResult) /\ Waiting(c)
  BY DEF OpenFails, Fails, At, Waiting
<1>. QED
  BY <1>1, WaitingIsDone, ReturnsStep DEF Errors

\* A client that talks and is not connected has an excuse.
LEMMA BreaksOffStep ==
  ASSUME IInv, NEW c \in Clients, BreaksOff(c)
  PROVE  IInv'
<1>1. Returns(c, "failed", "broken", NoResult) /\ Talks(c) /\ pipe.who # c
  BY DEF BreaksOff, Fails, Talks, Connected
<1>2. client[c].told = "waiting" /\ Excuse(c)
  BY <1>1 DEF IInv, CallOK, ErrorOK
<1>. QED
  BY <1>1, <1>2, ReturnsStep DEF Errors

\* A reply that is there is the answer of the service to the request.
LEMMA ReplyIsAnswer ==
  ASSUME IInv, NEW c \in Clients, client[c].pc = "read", pipe.who = c, pipe.down # NoFrame
  PROVE  /\ server.pc = "close" /\ client[c].told = "waiting" /\ Done(c)
         /\ client[c].request \in Requests /\ result[c] \in AnswersTo(client[c].request)
         /\ pipe.down.op = client[c].request.op
         /\ pipe.down.payload = EncodeAnswer(client[c].request.op, result[c])
         /\ pipe.down.size = Len(EncodeAnswer(client[c].request.op, result[c]))
<1>1. ConnectionOK(c) /\ CallOK(c) /\ Talks(c)
  BY DEF IInv, Talks
<1>2. server.pc = "close" /\ pipe.down = ReplyTo(c) /\ Done(c)
  BY <1>1 DEF ConnectionOK
<1>3. client[c].told = "waiting" /\ client[c].request \in Requests
  BY <1>1 DEF CallOK
<1>. QED
  BY <1>2, <1>3 DEF ReplyTo, Frame, Done

\* What a caller is told that reads its reply.
LEMMA ReadReplyCases ==
  ASSUME IInv, NEW c \in Clients, ReadReply(c)
  PROVE  /\ client[c].told = "waiting" /\ server.pc = "close" /\ Done(c)
         /\ result[c] \in AllAnswers
         /\ \/ Fails(c, "frame") /\ Len(EncodeAnswer(client[c].request.op, result[c])) > MaxFrame
            \/ /\ Fails(c, "data")
               /\ DecodeAnswer(client[c].request.op,
                               EncodeAnswer(client[c].request.op, result[c])) = Malformed
            \/ Returns(c, "returned", "none", result[c])
<1>1. client[c].pc = "read" /\ pipe.who = c /\ pipe.down # NoFrame
  BY DEF ReadReply, At, Connected
<1>. DEFINE q == client[c].request
            value == DecodeAnswer(q.op, EncodeAnswer(q.op, result[c]))
<1>2. /\ server.pc = "close" /\ client[c].told = "waiting" /\ Done(c)
      /\ q \in Requests /\ result[c] \in AnswersTo(q)
      /\ pipe.down.op = q.op /\ pipe.down.payload = EncodeAnswer(q.op, result[c])
      /\ pipe.down.size = Len(EncodeAnswer(q.op, result[c]))
  BY <1>1, ReplyIsAnswer
<1>3. IF pipe.down.op # q.op \/ pipe.down.size > MaxFrame THEN Fails(c, "frame")
      ELSE IF value = Malformed THEN Fails(c, "data")
      ELSE Returns(c, "returned", "none", value)
  BY <1>2 DEF ReadReply
<1>4. value \in {result[c], Malformed} /\ result[c] \in AllAnswers
  BY <1>2, AnswersRoundTrip DEF AllAnswers
<1>. HIDE DEF value
<1>5. \/ Fails(c, "frame") /\ Len(EncodeAnswer(q.op, result[c])) > MaxFrame
      \/ Fails(c, "data") /\ value = Malformed
      \/ Returns(c, "returned", "none", result[c])
  BY <1>2, <1>3, <1>4
<1>. QED
  BY <1>2, <1>4, <1>5 DEF value

\* The service has answered and is closing.
LEMMA ReadReplyStep ==
  ASSUME IInv, NEW c \in Clients, ReadReply(c)
  PROVE  IInv'
<1>. DEFINE value == DecodeAnswer(client[c].request.op, EncodeAnswer(client[c].request.op, result[c]))
<1>. HIDE DEF value
<1>1. /\ client[c].told = "waiting" /\ server.pc = "close"
      /\ result[c] \in AllAnswers
      /\ \/ Fails(c, "frame") /\ Len(EncodeAnswer(client[c].request.op, result[c])) > MaxFrame
         \/ Fails(c, "data") /\ value = Malformed
         \/ Returns(c, "returned", "none", result[c])
  BY ReadReplyCases DEF value
<1>2. CASE Fails(c, "frame") /\ Len(EncodeAnswer(client[c].request.op, result[c])) > MaxFrame
  BY <1>1, <1>2, ReturnsStep DEF Fails, Errors
<1>3. CASE Fails(c, "data") /\ value = Malformed
  BY <1>1, <1>3, ReturnsStep DEF Fails, Errors, value
<1>4. CASE Returns(c, "returned", "none", result[c])
  BY <1>1, <1>4, ReturnsStep DEF Errors
<1>. QED
  BY <1>1, <1>2, <1>3, <1>4

\* What a client that dies has written stays on the pipe, its reply does not.
LEMMA DieStep ==
  ASSUME IInv, NEW c \in Clients, Die(c)
  PROVE  IInv'
<1>1. /\ client' = [client EXCEPT ![c] = [@ EXCEPT !.pc = "gone", !.told = "gone"]]
      /\ client[c].told = "waiting"
      /\ pipe' = IF pipe.who = c THEN [pipe EXCEPT !.left = TRUE, !.down = NoFrame] ELSE pipe
      /\ UNCHANGED <<server, metrics, ran, result, excused>>
  BY DEF Die, Connected, history
<1>2. Types'
  BY <1>1, ZenonT(60) DEF IInv, Types, Places, Verdicts
<1>3. /\ client'[c].pc = "gone" /\ client'[c].told = "gone" /\ client'[c].error = client[c].error
      /\ client'[c].answer = client[c].answer /\ client'[c].known = client[c].known
      /\ client'[c].request = client[c].request
      /\ \A d \in Clients : d # c => client'[d] = client[d]
      /\ pipe'.who = pipe.who /\ pipe'.open = pipe.open /\ pipe'.up = pipe.up
  BY <1>1 DEF IInv, Types
<1>4. ASSUME NEW d \in Clients
      PROVE  CallOK(d)' /\ ErrorOK(d)'
  <2>1. CASE d # c
    BY <1>1, <1>3, <2>1, Others
  <2>2. CASE d = c
    <3>1. CallOK(c)'
      BY <1>1, <1>3 DEF IInv, CallOK, Talks, Waiting
    <3>2. ErrorOK(c)'
      BY <1>1, <1>3 DEF IInv, CallOK, ErrorOK, Talks
    <3>. QED
      BY <2>2, <3>1, <3>2
  <2>. QED
    BY <2>1, <2>2
<1>5. pipe'.who = NoClient => NobodyOK'
  BY <1>1, <1>3, NobodyAssumption DEF IInv, NobodyOK
<1>6. ASSUME NEW d \in Clients, pipe'.who = d
      PROVE  ConnectionOK(d)'
  <2>1. CASE d # c
    BY <1>1, <1>3, <1>6, <2>1, ConnectionKept
  <2>2. CASE d = c
    <3>1. ConnectionOK(c) /\ CallOK(c)
      BY <1>3, <1>6, <2>2 DEF IInv
    <3>2. pipe'.left /\ pipe'.down = NoFrame /\ server' = server
      BY <1>1, <1>3, <1>6, <2>2 DEF IInv, Types
    <3>3. Sent(c)' \/ server.pc = "close"
      BY <1>3, <3>1 DEF ConnectionOK, Sent
    <3>4. (server.pc \in {"dispatch", "write"} => Complete)' /\ (server.pc = "write" => Done(c))'
      BY <1>1, <1>3, <3>1, <3>2 DEF ConnectionOK, Complete, Done
    <3>. QED
      BY <1>1, <1>3, <2>2, <3>1, <3>2, <3>3, <3>4 DEF ConnectionOK, Talks, ReplyTo
  <2>. QED
    BY <2>1, <2>2
<1>. QED
  BY <1>2, <1>4, <1>5, <1>6 DEF IInv

-----------------------------------------------------------------------------
\* Steps of the service.

\* The service thread serves the client that is connected, if there is one.
LEMMA WhoIsServed ==
  ASSUME IInv
  PROVE  /\ server.pc \in {"check", "down"} => pipe.who = NoClient
         /\ server.pc \in {"read", "dispatch", "write", "close"} => pipe.who \in Clients
         /\ pipe.who # NoClient => pipe.who \in Clients /\ ConnectionOK(pipe.who)
BY DEF IInv, Types, NobodyOK, ConnectionOK

\* A step for the client that stays connected.
LEMMA ServiceStep ==
  ASSUME IInv, NEW c \in Clients, pipe.who = c, pipe'.who = c, UNCHANGED client,
         Types', CallOK(c)', ErrorOK(c)', ConnectionOK(c)',
         \A d \in Clients : d # c => ran'[d] = ran[d] /\ result'[d] = result[d] /\ excused'[d] = excused[d]
  PROVE  IInv'
<1>1. ASSUME NEW d \in Clients
      PROVE  CallOK(d)' /\ ErrorOK(d)'
  <2>1. CASE d # c
    BY <2>1, Others
  <2>2. CASE d = c
    BY <2>2
  <2>. QED
    BY <2>1, <2>2
<1>2. pipe'.who # NoClient
  BY NobodyAssumption
<1>3. ASSUME NEW d \in Clients, pipe'.who = d
      PROVE  ConnectionOK(d)'
  BY <1>3
<1>. QED
  BY <1>1, <1>2, <1>3 DEF IInv

\* A step that leaves no client connected.
LEMMA NobodyStep ==
  ASSUME IInv, UNCHANGED <<client, ran, result>>, pipe'.who = NoClient, Types', NobodyOK',
         \A d \in Clients : excused[d] => excused'[d],
         \A d \in Clients : Talks(d) => pipe.who # d \/ Excuse(d)'
  PROVE  IInv'
<1>1. ASSUME NEW d \in Clients
      PROVE  CallOK(d)' /\ ErrorOK(d)'
  <2>1. CallOK(d) /\ ErrorOK(d)
    BY DEF IInv
  <2>2. CallOK(d)'
    BY <2>1 DEF CallOK, Talks, Waiting
  <2>3. Excuse(d) => Excuse(d)'
    BY DEF Excuse, TooLarge
  <2>4. ErrorOK(d)'
    BY <2>1, <2>3 DEF ErrorOK, Talks
  <2>. QED
    BY <2>2, <2>4
<1>2. ASSUME NEW d \in Clients
      PROVE  pipe'.who # d
  BY NobodyAssumption
<1>. QED
  BY <1>1, <1>2 DEF IInv

\* Nobody is connected before there is an instance.
LEMMA CreatePipeStep == ASSUME IInv, CreatePipe PROVE IInv'
<1>1. /\ server.pc = "check" /\ server' = [server EXCEPT !.pc = "listen"]
      /\ pipe' = [who |-> NoClient, open |-> TRUE, left |-> FALSE, up |-> NoFrame, down |-> NoFrame]
      /\ UNCHANGED <<client, metrics, ran, result, excused>>
  BY DEF CreatePipe, Serves, Listening, NoPipe, history
<1>2. pipe.who = NoClient
  BY <1>1, WhoIsServed
<1>3. Types'
  BY <1>1 DEF IInv, Types
<1>4. NobodyOK'
  BY <1>1 DEF IInv, Types, NobodyOK
<1>5. \A d \in Clients : pipe.who # d
  BY <1>2, NobodyAssumption
<1>. QED
  BY <1>1, <1>3, <1>4, <1>5, NobodyStep

\* The client that is refused here is not known: its excuse.
LEMMA AcceptStep == ASSUME IInv, Accept PROVE IInv'
<1>1. PICK c \in Clients : pipe.who = c /\ ConnectionOK(c)
  BY WhoIsServed DEF Accept
<1>2. /\ server.pc = "listen"
      /\ server' = [server EXCEPT !.pc = IF client[c].known THEN "read" ELSE "close"]
      /\ UNCHANGED <<client, pipe, metrics, ran, result, excused>>
  BY <1>1 DEF Accept, Serves, history
<1>3. Types'
  BY <1>2 DEF IInv, Types
<1>4. CallOK(c)' /\ ErrorOK(c)'
  BY <1>1, <1>2, Others
<1>5. server'.pc \in {"read", "close"} /\ (server'.pc = "close" => ~client[c].known)
  BY <1>2 DEF IInv, Types
<1>6. ConnectionOK(c)'
  BY <1>1, <1>2, <1>5 DEF ConnectionOK, Talks, Sent, TooLarge
<1>. QED
  BY <1>1, <1>2, <1>3, <1>4, <1>6, ServiceStep

\* A frame that is complete is the one the client has written.
LEMMA FrameIsRequest ==
  ASSUME IInv, NEW c \in Clients, pipe.who = c, Sent(c), Complete
  PROVE  /\ pipe.up = Frame(client[c].request.op, Payload(client[c].request))
         /\ Len(Payload(client[c].request)) <= MaxFrame
<1>1. pipe.up # NoFrame /\ pipe.up # Header(client[c].request)
  BY DEF Complete, Header, Frame
<1>2. pipe.up = Frame(client[c].request.op, Payload(client[c].request))
  BY <1>1 DEF Sent
<1>. QED
  BY <1>2 DEF Complete, Frame

\* What goes to Dispatch is complete, and no larger than a frame.
LEMMA ReadFrameStep == ASSUME IInv, ReadFrame PROVE IInv'
<1>1. /\ Complete /\ server.pc = "read" /\ server' = [server EXCEPT !.pc = "dispatch"]
      /\ UNCHANGED <<client, pipe, metrics, ran, result, excused>>
  BY DEF ReadFrame, Serves, history
<1>2. PICK c \in Clients : pipe.who = c /\ ConnectionOK(c)
  BY <1>1, WhoIsServed, NobodyAssumption
<1>3. Types'
  BY <1>1 DEF IInv, Types
<1>4. CallOK(c)' /\ ErrorOK(c)'
  BY <1>1, <1>2, Others
<1>5. Sent(c)
  BY <1>1, <1>2 DEF ConnectionOK
<1>6. /\ pipe.up = Frame(client[c].request.op, Payload(client[c].request))
      /\ Len(Payload(client[c].request)) <= MaxFrame
  BY <1>1, <1>2, <1>5, FrameIsRequest
<1>7. server'.pc = "dispatch"
  BY <1>1 DEF IInv, Types
<1>8. ConnectionOK(c)'
  BY <1>1, <1>2, <1>5, <1>6, <1>7 DEF ConnectionOK, Talks, Sent, Complete
<1>. QED
  BY <1>1, <1>2, <1>3, <1>4, <1>8, ServiceStep

\* A client that is still there has written a frame that is too large: its excuse.
LEMMA RejectFrameStep == ASSUME IInv, RejectFrame PROVE IInv'
<1>1. /\ pipe.left \/ (pipe.up # NoFrame /\ pipe.up.size > MaxFrame)
      /\ server.pc = "read" /\ server' = [server EXCEPT !.pc = "close"]
      /\ UNCHANGED <<client, pipe, metrics, ran, result, excused>>
  BY DEF RejectFrame, Serves, history
<1>2. PICK c \in Clients : pipe.who = c /\ ConnectionOK(c)
  BY <1>1, WhoIsServed, NobodyAssumption
<1>3. Types'
  BY <1>1 DEF IInv, Types
<1>4. CallOK(c)' /\ ErrorOK(c)'
  BY <1>1, <1>2, Others
<1>5. Talks(c) => TooLarge(c)
  <2>1. Sent(c) /\ (Talks(c) => ~pipe.left)
    BY <1>1, <1>2 DEF ConnectionOK
  <2>2. Header(client[c].request).size = Len(Payload(client[c].request))
    BY DEF Header, Frame
  <2>3. Frame(client[c].request.op, Payload(client[c].request)).size = Len(Payload(client[c].request))
    BY DEF Frame
  <2>4. pipe.up # NoFrame => pipe.up.size = Len(Payload(client[c].request))
    BY <2>1, <2>2, <2>3 DEF Sent
  <2>. QED
    BY <1>1, <2>1, <2>4 DEF TooLarge
<1>6. server'.pc = "close"
  BY <1>1 DEF IInv, Types
<1>7. ConnectionOK(c)'
  BY <1>1, <1>2, <1>5, <1>6 DEF ConnectionOK, Talks, Sent, TooLarge
<1>. QED
  BY <1>1, <1>2, <1>3, <1>4, <1>7, ServiceStep

\* What Dispatch finds: the request of the client that is connected, not run yet.
LEMMA DispatchFinds ==
  ASSUME IInv, server.pc = "dispatch"
  PROVE  \E c \in Clients :
           /\ pipe.who = c /\ ConnectionOK(c) /\ CallOK(c) /\ ErrorOK(c)
           /\ client[c].request \in Requests /\ client[c].told # "idle"
           /\ client[c].error = "none" /\ ~Waiting(c)
           /\ pipe.up.op = client[c].request.op
           /\ Decoded(pipe.up.op, pipe.up.payload) =
                IF Within(client[c].request) THEN client[c].request ELSE Malformed
<1>1. PICK c \in Clients : pipe.who = c /\ ConnectionOK(c) /\ CallOK(c) /\ ErrorOK(c)
  BY WhoIsServed DEF IInv
<1>2. client[c].told # "idle" /\ client[c].request \in Requests
  BY <1>1 DEF ConnectionOK, CallOK
<1>3. client[c].error = "none" /\ ~Waiting(c)
  BY <1>1 DEF ConnectionOK, CallOK, Talks, Waiting
<1>4. pipe.up = Frame(client[c].request.op, Payload(client[c].request))
  BY <1>1 DEF ConnectionOK
<1>5. /\ pipe.up.op = client[c].request.op
      /\ pipe.up.payload = Payload(client[c].request)
  BY <1>4 DEF Frame
<1>. QED
  BY <1>1, <1>2, <1>3, <1>5, RequestsRoundTrip

\* The service answers the client that is connected.
LEMMA AnswerStep ==
  ASSUME IInv, server.pc = "dispatch", NEW c \in Clients, pipe.who = c, ConnectionOK(c), CallOK(c),
         ErrorOK(c), client[c].request \in Requests, client[c].error = "none", ~Waiting(c),
         client[c].told # "idle", pipe.up.op = client[c].request.op,
         NEW r \in AnswersTo(client[c].request), Answers(r),
         result' = [result EXCEPT ![c] = r],
         metrics' \in 0..(MaxMetrics + 1),
         UNCHANGED <<client, pipe, excused>>,
         \/ ran' = [ran EXCEPT ![c] = client[c].request]
         \/ ran' = ran /\ ~Acceptable(client[c].request)
  PROVE  IInv'
<1>. DEFINE q == client[c].request
<1>1. server' = [pc |-> "write", reply |-> Frame(q.op, EncodeAnswer(q.op, r))]
  BY DEF Answers
<1>2. r \in AllAnswers
  BY DEF AllAnswers
<1>3. /\ ran'[c] \in {NoRequest, q} /\ result'[c] = r
      /\ \A d \in Clients : d # c => ran'[d] = ran[d] /\ result'[d] = result[d]
      /\ ran' \in [Clients -> Requests \cup {NoRequest}]
      /\ ran'[c] = q \/ (ran'[c] = NoRequest /\ ~Acceptable(q))
  BY DEF IInv, Types, ConnectionOK
<1>4. result' \in [Clients -> AllAnswers \cup {NoResult}]
  BY <1>2 DEF IInv, Types
<1>5. Types'
  BY <1>1, <1>3, <1>4 DEF IInv, Types
<1>6. CallOK(c)'
  BY <1>3 DEF CallOK, Talks, Waiting
<1>7. ErrorOK(c)'
  BY DEF ErrorOK, Talks
<1>8. server'.pc = "write" /\ server'.reply = Frame(q.op, EncodeAnswer(q.op, r))
  BY <1>1
<1>9. ConnectionOK(c)'
  <2>1. Done(c)'
    BY <1>3 DEF Done
  <2>2. server'.reply = ReplyTo(c)'
    BY <1>3, <1>8 DEF ReplyTo
  <2>. QED
    BY <1>8, <2>1, <2>2 DEF ConnectionOK, Talks, Sent, Complete
<1>. QED
  BY <1>3, <1>5, <1>6, <1>7, <1>9, ServiceStep

\* What cannot be decoded exceeds a limit, and is answered without being run.
LEMMA RefuseStep == ASSUME IInv, Refuse PROVE IInv'
<1>1. /\ server.pc = "dispatch" /\ Decoded(pipe.up.op, pipe.up.payload) = Malformed
      /\ Answers(Refusal(pipe.up.op))
      /\ result' = [result EXCEPT ![pipe.who] = Refusal(pipe.up.op)]
      /\ UNCHANGED <<client, pipe, metrics, ran, excused>>
  BY DEF Refuse
<1>2. PICK c \in Clients :
           /\ pipe.who = c /\ ConnectionOK(c) /\ CallOK(c) /\ ErrorOK(c)
           /\ client[c].request \in Requests /\ client[c].told # "idle"
           /\ client[c].error = "none" /\ ~Waiting(c)
           /\ pipe.up.op = client[c].request.op
           /\ Decoded(pipe.up.op, pipe.up.payload) =
                IF Within(client[c].request) THEN client[c].request ELSE Malformed
  BY <1>1, DispatchFinds
<1>3. ~Acceptable(client[c].request)
  <2>1. ~Within(client[c].request)
    BY <1>1, <1>2, MalformedAssumption
  <2>. QED
    BY <2>1 DEF Within, Acceptable
<1>4. metrics \in 0..(MaxMetrics + 1)
  BY DEF IInv, Types
<1>5. Refusal(client[c].request.op) \in AnswersTo(client[c].request)
  BY <1>4 DEF Refusal, AnswersTo, Results
<1>6. Answers(Refusal(client[c].request.op)) /\ result' = [result EXCEPT ![c] = Refusal(client[c].request.op)]
  BY <1>1, <1>2
<1>. QED
  BY <1>1, <1>2, <1>3, <1>4, <1>5, <1>6, AnswerStep

\* What can be decoded is the request, and it is run.
LEMMA DispatchStep == ASSUME IInv, Dispatch PROVE IInv'
<1>1. server.pc = "dispatch"
  BY DEF Dispatch
<1>2. PICK c \in Clients :
           /\ pipe.who = c /\ ConnectionOK(c) /\ CallOK(c) /\ ErrorOK(c)
           /\ client[c].request \in Requests /\ client[c].told # "idle"
           /\ client[c].error = "none" /\ ~Waiting(c)
           /\ pipe.up.op = client[c].request.op
           /\ Decoded(pipe.up.op, pipe.up.payload) =
                IF Within(client[c].request) THEN client[c].request ELSE Malformed
  BY <1>1, DispatchFinds
<1>. DEFINE q == client[c].request
<1>3. PICK n \in IF q.op = "apply" /\ metrics <= MaxMetrics THEN {metrics, metrics + 1} ELSE {metrics} :
           /\ metrics' = n
           /\ \E r \in IF q.op = "reconcile" THEN RouteResults ELSE {Status(n)} :
                Answers(r) /\ result' = [result EXCEPT ![c] = r]
           /\ ran' = [ran EXCEPT ![c] = q]
           /\ UNCHANGED <<client, pipe, excused>>
  BY <1>2, ZenonT(40) DEF Dispatch
<1>4. PICK r \in IF q.op = "reconcile" THEN RouteResults ELSE {Status(n)} :
           Answers(r) /\ result' = [result EXCEPT ![c] = r]
  BY <1>3
<1>5. n \in 0..(MaxMetrics + 1)
  <2>1. metrics \in 0..(MaxMetrics + 1) /\ MaxMetrics \in Nat
    BY LimitsAssumption DEF IInv, Types
  <2>. QED
    BY <1>3, <2>1
<1>6. r \in AnswersTo(q)
  BY <1>4, <1>5 DEF AnswersTo, Results
<1>. QED
  BY <1>1, <1>2, <1>3, <1>4, <1>5, <1>6, AnswerStep

\* The reply goes to the client whose request was run, unless it has left.
LEMMA ReplyStep == ASSUME IInv, Reply PROVE IInv'
<1>1. /\ server.pc = "write" /\ server' = [pc |-> "close", reply |-> NoFrame]
      /\ pipe' = IF pipe.left THEN pipe ELSE [pipe EXCEPT !.down = server.reply]
      /\ UNCHANGED <<client, metrics, ran, result, excused>>
  BY DEF Reply, history
<1>2. PICK c \in Clients : pipe.who = c /\ ConnectionOK(c) /\ CallOK(c)
  BY <1>1, WhoIsServed, NobodyAssumption DEF IInv
<1>3. Types'
  BY <1>1 DEF IInv, Types
<1>4. /\ pipe'.who = c /\ pipe'.open = pipe.open /\ pipe'.left = pipe.left /\ pipe'.up = pipe.up
      /\ pipe'.down = IF pipe.left THEN pipe.down ELSE server.reply
  BY <1>1, <1>2 DEF IInv, Types
<1>5. CallOK(c)' /\ ErrorOK(c)'
  BY <1>1, <1>2, <1>4, Others
<1>6. /\ client[c].request \in Requests /\ Done(c) /\ server.reply = ReplyTo(c)
      /\ pipe.down = NoFrame /\ (pipe.left <=> ~Talks(c))
  BY <1>1, <1>2 DEF ConnectionOK, CallOK
<1>7. ReplyTo(c) # NoFrame
  BY <1>6, FramesAssumption DEF ReplyTo, Done
<1>8. Talks(c) => pipe'.down = ReplyTo(c)
  BY <1>4, <1>6
<1>9. ~Talks(c) => pipe'.down = NoFrame
  BY <1>4, <1>6
<1>10. server'.pc = "close"
  BY <1>1
<1>11. (Done(c) <=> Done(c)') /\ ReplyTo(c)' = ReplyTo(c) /\ (Talks(c)' <=> Talks(c)) /\ (Sent(c) <=> Sent(c)')
  BY <1>1, <1>4 DEF Done, ReplyTo, Talks, Sent
<1>12. ConnectionOK(c)'
  BY <1>1, <1>2, <1>4, <1>6, <1>7, <1>8, <1>9, <1>10, <1>11 DEF ConnectionOK
<1>. QED
  BY <1>1, <1>2, <1>3, <1>4, <1>5, <1>12, ServiceStep

\* A client that is disconnected while it talks was refused: its excuse.
LEMMA ClosePipeStep == ASSUME IInv, ClosePipe PROVE IInv'
<1>1. /\ pipe.left \/ pipe.down = NoFrame
      /\ server.pc = "close" /\ server' = [server EXCEPT !.pc = "check"]
      /\ pipe' = [who |-> NoClient, open |-> FALSE, left |-> FALSE, up |-> NoFrame, down |-> NoFrame]
      /\ UNCHANGED <<client, metrics, ran, result, excused>>
  BY DEF ClosePipe, Serves, NoPipe, history
<1>2. Types'
  BY <1>1 DEF IInv, Types
<1>3. NobodyOK'
  BY <1>1 DEF IInv, Types, NobodyOK
<1>4. ASSUME NEW d \in Clients, Talks(d), pipe.who = d
      PROVE  Excuse(d)'
  <2>1. ConnectionOK(d)
    BY <1>4 DEF IInv
  <2>2. ~client[d].known \/ TooLarge(d)
    BY <1>1, <1>4, <2>1 DEF ConnectionOK
  <2>. QED
    BY <1>1, <2>2 DEF Excuse, TooLarge
<1>. QED
  BY <1>1, <1>2, <1>3, <1>4, NobodyStep

\* A crash is the excuse of every client that waits.
LEMMA CrashStep == ASSUME IInv, Crash PROVE IInv'
<1>1. /\ server' = [pc |-> "down", reply |-> NoFrame]
      /\ pipe' = [who |-> NoClient, open |-> FALSE, left |-> FALSE, up |-> NoFrame, down |-> NoFrame]
      /\ excused' = [c \in Clients |-> excused[c] \/ client[c].told = "waiting"]
      /\ UNCHANGED <<client, metrics, ran, result>>
  BY DEF Crash, NoPipe
<1>2. excused' \in [Clients -> BOOLEAN]
  BY <1>1
<1>3. Types'
  BY <1>1, <1>2 DEF IInv, Types
<1>4. NobodyOK'
  BY <1>1 DEF NobodyOK
<1>5. \A d \in Clients : excused[d] => excused'[d]
  BY <1>1
<1>6. ASSUME NEW d \in Clients, Talks(d)
      PROVE  Excuse(d)'
  <2>1. client[d].told = "waiting"
    BY <1>6 DEF IInv, CallOK
  <2>. QED
    BY <1>1, <2>1 DEF Excuse
<1>. QED
  BY <1>1, <1>3, <1>4, <1>5, <1>6, NobodyStep

\* After a crash nobody is connected.
LEMMA RestartStep == ASSUME IInv, Restart PROVE IInv'
<1>1. /\ server.pc = "down" /\ server' = [server EXCEPT !.pc = "check"] /\ metrics' = 0
      /\ UNCHANGED <<client, pipe, ran, result, excused>>
  BY DEF Restart, Serves, history
<1>2. pipe.who = NoClient
  BY <1>1, WhoIsServed
<1>3. 0 \in 0..(MaxMetrics + 1)
  BY LimitsAssumption
<1>4. Types'
  BY <1>1, <1>3 DEF IInv, Types
<1>5. NobodyOK'
  BY <1>1, <1>2 DEF IInv, Types, NobodyOK
<1>6. \A d \in Clients : pipe.who # d
  BY <1>2, NobodyAssumption
<1>. QED
  BY <1>1, <1>2, <1>4, <1>5, <1>6, NobodyStep

-----------------------------------------------------------------------------
\* The invariant, and the errors.

\* And a step that changes nothing.
LEMMA StutterStep == ASSUME IInv, UNCHANGED vars PROVE IInv'
<1>1. UNCHANGED <<client, pipe, server, metrics, ran, result, excused>>
  BY DEF vars
<1>2. Types' /\ (NobodyOK <=> NobodyOK')
  BY <1>1 DEF IInv, Types, NobodyOK
<1>3. ASSUME NEW d \in Clients
      PROVE  CallOK(d)' /\ ErrorOK(d)' /\ (pipe.who = d => ConnectionOK(d)')
  BY <1>1, Others, ConnectionKept
<1>. QED
  BY <1>1, <1>2, <1>3 DEF IInv

\* Each action keeps the invariant.
LEMMA NextIInv == IInv /\ [Next]_vars => IInv'
<1>. SUFFICES ASSUME IInv, [Next]_vars PROVE IInv'
  OBVIOUS
<1>1. ASSUME NEW c \in Clients, CallStep(c)
      PROVE  IInv'
  BY <1>1, WaitsStep, WaitFailsStep, OpenStep, OpenFailsStep, WriteHeaderStep, WritePayloadStep,
     BreaksOffStep, ReadReplyStep DEF CallStep
<1>2. ASSUME NEW c \in Clients, Die(c)
      PROVE  IInv'
  BY <1>2, DieStep
<1>3. ASSUME NEW c \in Clients, NEW q \in Asks[c], Ask(c, q)
      PROVE  IInv'
  BY <1>3, AskStep
<1>4. CASE Serve
  BY <1>4, CreatePipeStep, AcceptStep, ReadFrameStep, RejectFrameStep, RefuseStep, DispatchStep,
     ReplyStep, ClosePipeStep, RestartStep DEF Serve
<1>5. CASE Crash
  BY <1>5, CrashStep
<1>6. CASE UNCHANGED vars
  BY <1>6, StutterStep
<1>. QED
  BY <1>1, <1>2, <1>3, <1>4, <1>5, <1>6 DEF Next

\* The state of the calls, of the pipe and of the service fits together: what is on the
\* pipe is what its client has written, and what the service answers is for that request.
THEOREM CallsFitTogether == Spec => []IInv
<1>1. Init => IInv
  BY InitIInv
<1>2. IInv /\ [Next]_vars => IInv'
  BY NextIInv
<1>. QED
  BY <1>1, <1>2, PTL DEF Spec

\* Every error that Call returns says what has happened.
THEOREM ErrorsCorrect == Spec => []ErrorsAreTrue
<1>1. IInv => ErrorsAreTrue
  BY DEF IInv, ErrorOK, ErrorsAreTrue, Excuse, TooLarge
<1>. QED
  BY <1>1, CallsFitTogether, PTL

-----------------------------------------------------------------------------
\* The refinement.

\* The variables of RemoteCall, as Remote maps them.
Asked == [c \in Clients |-> client[c].request]
Told == [c \in Clients |->
    IF client[c].told # "returned" THEN client[c].told
    ELSE IF ran[c] = NoRequest THEN "refused" ELSE "answered"]
Outcome == [c \in Clients |-> IF ran[c] = NoRequest THEN NoResult ELSE result[c]]
Given == [c \in Clients |-> IF ran[c] = NoRequest THEN NoResult ELSE client[c].answer]

\* At first nobody has asked for anything.
LEMMA RemoteInit == Init => Remote!Init
<1>. SUFFICES ASSUME Init PROVE Remote!Init
  OBVIOUS
<1>1. PICK K \in SUBSET Clients : client = [c \in Clients |-> Idle(c \in K)]
  BY DEF Init
<1>2. \A c \in Clients : client[c].request = NoRequest /\ client[c].told = "idle"
  BY <1>1 DEF Idle
<1>. QED
  BY <1>2 DEF Init, Remote!Init

\* A step that tells no caller anything and runs nothing: the answer to a request that
\* is not run is no result.
LEMMA RemoteStutter ==
  ASSUME UNCHANGED ran,
         \A d \in Clients : /\ client'[d].request = client[d].request
                            /\ client'[d].told = client[d].told
                            /\ client'[d].answer = client[d].answer
                            /\ ran[d] # NoRequest => result'[d] = result[d]
  PROVE  UNCHANGED Remote!vars
<1>1. UNCHANGED <<Asked, Told, Outcome, Given>>
  BY DEF Asked, Told, Outcome, Given
<1>. QED
  BY <1>1 DEF Remote!vars, Asked, Told, Outcome, Given

\* A step of the service that runs no request.
LEMMA ServiceStutter ==
  ASSUME UNCHANGED <<client, ran, result>>
  PROVE  UNCHANGED Remote!vars
BY RemoteStutter

\* A step of a client within its call.
LEMMA GoesStutter ==
  ASSUME IInv, NEW c \in Clients, NEW place, Goes(c, place), UNCHANGED history
  PROVE  UNCHANGED Remote!vars
<1>1. client' = [client EXCEPT ![c].pc = place] /\ UNCHANGED <<ran, result>>
  BY DEF Goes, history
<1>2. \A d \in Clients : /\ client'[d].request = client[d].request
                         /\ client'[d].told = client[d].told
                         /\ client'[d].answer = client[d].answer
  BY <1>1 DEF IInv, Types
<1>. QED
  BY <1>1, <1>2, RemoteStutter

\* Ask is Ask: what was run for the call before is forgotten.
LEMMA RemoteAsk ==
  ASSUME IInv, NEW c \in Clients, NEW q \in Asks[c], Ask(c, q)
  PROVE  q \in Requests /\ Remote!Ask(c, q)
<1>1. q \in Requests
  BY AsksAssumption
<1>2. /\ client' = [client EXCEPT ![c] =
            [@ EXCEPT !.pc = "wait", !.request = q, !.told = "waiting", !.error = "none",
                      !.answer = NoResult]]
      /\ ran' = [ran EXCEPT ![c] = NoRequest] /\ result' = [result EXCEPT ![c] = NoResult]
      /\ client[c].pc = "idle"
  BY DEF Ask, At
<1>3. /\ client'[c].request = q /\ client'[c].told = "waiting"
      /\ \A d \in Clients : d # c => client'[d] = client[d]
      /\ ran'[c] = NoRequest /\ \A d \in Clients : d # c => ran'[d] = ran[d] /\ result'[d] = result[d]
  BY <1>2 DEF IInv, Types
<1>4. client[c].told \notin {"waiting", "gone"}
  BY <1>2 DEF IInv, CallOK, Talks, Waiting
<1>5. Told[c] \notin {"waiting", "gone"}
  BY <1>4 DEF Told
<1>6. /\ Asked' = [Asked EXCEPT ![c] = q] /\ Told' = [Told EXCEPT ![c] = "waiting"]
      /\ Outcome' = [Outcome EXCEPT ![c] = NoResult] /\ Given' = [Given EXCEPT ![c] = NoResult]
  BY <1>3 DEF Asked, Told, Outcome, Given
<1>. QED
  BY <1>1, <1>2, <1>5, <1>6 DEF Remote!Ask, Asked, Told, Outcome, Given

\* Dispatch is Run, of the client that is connected: it waits or is gone.
LEMMA RemoteRun ==
  ASSUME IInv, Dispatch
  PROVE  \E c \in Clients : Remote!Run(c)
<1>1. server.pc = "dispatch"
  BY DEF Dispatch
<1>2. PICK c \in Clients :
           /\ pipe.who = c /\ ConnectionOK(c) /\ CallOK(c)
           /\ client[c].request \in Requests
           /\ Decoded(pipe.up.op, pipe.up.payload) =
                IF Within(client[c].request) THEN client[c].request ELSE Malformed
  BY <1>1, DispatchFinds
<1>. DEFINE q == client[c].request
<1>3. /\ Within(q) /\ ran' = [ran EXCEPT ![c] = q] /\ client' = client
      /\ \E n \in IF q.op = "apply" /\ metrics <= MaxMetrics THEN {metrics, metrics + 1} ELSE {metrics} :
         \E r \in IF q.op = "reconcile" THEN RouteResults ELSE {Status(n)} :
           result' = [result EXCEPT ![c] = r]
  BY <1>2 DEF Dispatch
<1>4. PICK n \in IF q.op = "apply" /\ metrics <= MaxMetrics THEN {metrics, metrics + 1} ELSE {metrics} :
           \E r \in IF q.op = "reconcile" THEN RouteResults ELSE {Status(n)} :
             result' = [result EXCEPT ![c] = r]
  BY <1>3
<1>. PICK r \in IF q.op = "reconcile" THEN RouteResults ELSE {Status(n)} :
           result' = [result EXCEPT ![c] = r]
  BY <1>4
<1>5. r \in Results(q)
  <2>1. metrics \in 0..(MaxMetrics + 1) /\ MaxMetrics \in Nat
    BY LimitsAssumption DEF IInv, Types
  <2>2. n \in 0..(MaxMetrics + 1)
    BY <1>4, <2>1, SMTT(30)
  <2>. QED
    BY <1>4, <2>2 DEF Results
<1>6. Acceptable(q)
  BY <1>1, <1>2, <1>3 DEF ConnectionOK, Within, Acceptable
<1>7. /\ client[c].told \in {"waiting", "gone"} /\ ran[c] = NoRequest /\ client[c].answer = NoResult
      /\ q # NoRequest
  BY <1>1, <1>2, NobodyAssumption DEF ConnectionOK, CallOK
<1>8. /\ ran'[c] = q /\ result'[c] = r
      /\ \A d \in Clients : d # c => ran'[d] = ran[d] /\ result'[d] = result[d]
  BY <1>3, <1>4 DEF IInv, Types
<1>9. Told[c] \in {"waiting", "gone"} /\ Asked[c] = q
  BY <1>7 DEF Told, Asked
<1>10. UNCHANGED <<Asked, Told, Given>> /\ Outcome' = [Outcome EXCEPT ![c] = r]
  <2>1. client' = client
    BY <1>3
  <2>2. Asked' = Asked
    BY <2>1 DEF Asked
  <2>3. Told' = Told
    BY <2>1, <1>7, <1>8 DEF Told
  <2>4. Given' = Given
    BY <2>1, <1>7, <1>8 DEF Given
  <2>5. Outcome' = [Outcome EXCEPT ![c] = r]
    BY <1>7, <1>8 DEF Outcome
  <2>. QED
    BY <2>2, <2>3, <2>4, <2>5
<1>11. Remote!Run(c)
  BY <1>3, <1>5, <1>6, <1>7, <1>9, <1>10 DEF Remote!Run, Asked, Told, Given, Outcome
<1>. QED
  BY <1>11

\* A call that fails, or whose process ends.
LEMMA RemoteEnd ==
  ASSUME IInv, NEW c \in Clients, client[c].told = "waiting",
         NEW told \in {"failed", "gone"},
         client'[c].told = told, client'[c].request = client[c].request, client'[c].answer = NoResult,
         \A d \in Clients : d # c => client'[d] = client[d],
         UNCHANGED <<ran, result>>
  PROVE  Remote!Fail(c) \/ Remote!Die(c)
<1>1. client[c].answer = NoResult
  BY DEF IInv, CallOK
<1>2. UNCHANGED <<Asked, Outcome, Given>> /\ Told' = [Told EXCEPT ![c] = told]
  BY <1>1 DEF Asked, Told, Outcome, Given
<1>3. Told[c] = "waiting"
  BY DEF Told
<1>. QED
  BY <1>2, <1>3 DEF Remote!Fail, Remote!Die, Asked, Told, Outcome, Given

\* What Returns does to the caller.
LEMMA ReturnsTells ==
  ASSUME IInv, NEW c \in Clients, NEW told, NEW error, NEW answer, Returns(c, told, error, answer)
  PROVE  /\ client'[c].told = told /\ client'[c].request = client[c].request
         /\ client'[c].answer = answer
         /\ \A d \in Clients : d # c => client'[d] = client[d]
         /\ UNCHANGED <<ran, result>>
<1>1. client' = [client EXCEPT ![c] =
            [@ EXCEPT !.pc = "idle", !.told = told, !.error = error, !.answer = answer]]
  BY DEF Returns
<1>. QED
  BY <1>1 DEF IInv, Types, Returns, history

\* Whatever fails is Fail.
LEMMA RemoteFail ==
  ASSUME IInv, NEW c \in Clients, NEW error, Fails(c, error), client[c].told = "waiting"
  PROVE  Remote!Fail(c) \/ Remote!Die(c)
<1>1. /\ client'[c].told = "failed" /\ client'[c].request = client[c].request
      /\ client'[c].answer = NoResult
      /\ \A d \in Clients : d # c => client'[d] = client[d]
      /\ UNCHANGED <<ran, result>>
  BY ReturnsTells DEF Fails
<1>. QED
  BY <1>1, RemoteEnd

\* Die is Die.
LEMMA RemoteDie ==
  ASSUME IInv, NEW c \in Clients, Die(c)
  PROVE  Remote!Fail(c) \/ Remote!Die(c)
<1>1. /\ client' = [client EXCEPT ![c] = [@ EXCEPT !.pc = "gone", !.told = "gone"]]
      /\ client[c].told = "waiting" /\ UNCHANGED <<ran, result>>
  BY DEF Die, history
<1>2. client[c].answer = NoResult
  BY <1>1 DEF IInv, CallOK
<1>3. /\ client'[c].told = "gone" /\ client'[c].request = client[c].request
      /\ client'[c].answer = client[c].answer
      /\ \A d \in Clients : d # c => client'[d] = client[d]
  BY <1>1 DEF IInv, Types
<1>. QED
  BY <1>1, <1>2, <1>3, RemoteEnd

\* A call that returns: with the result of what was run, or of nothing that was run.
LEMMA RemoteAnswer ==
  ASSUME IInv, NEW c \in Clients, Returns(c, "returned", "none", result[c]),
         client[c].told = "waiting", Done(c)
  PROVE  Remote!Answer(c) \/ Remote!Refuse(c)
<1>1. /\ client'[c].told = "returned" /\ client'[c].request = client[c].request
      /\ client'[c].answer = result[c]
      /\ \A d \in Clients : d # c => client'[d] = client[d]
      /\ UNCHANGED <<ran, result>>
  BY ReturnsTells
<1>2. Told[c] = "waiting" /\ Asked[c] = client[c].request
  BY DEF Told, Asked
<1>3. Asked' = Asked /\ Outcome' = Outcome
  BY <1>1 DEF Asked, Outcome
<1>4. client[c].request # NoRequest
  BY NobodyAssumption DEF IInv, CallOK
<1>5. CASE ran[c] = client[c].request
  <2>1. Told' = [Told EXCEPT ![c] = "answered"] /\ Given' = [Given EXCEPT ![c] = Outcome[c]]
    BY <1>1, <1>4, <1>5 DEF Told, Given, Outcome
  <2>. QED
    BY <1>1, <1>2, <1>3, <1>5, <2>1 DEF Remote!Answer, Asked, Told, Given, Outcome
<1>6. CASE ran[c] = NoRequest /\ ~Acceptable(client[c].request)
  <2>1. Told' = [Told EXCEPT ![c] = "refused"] /\ Given' = Given
    BY <1>1, <1>6 DEF Told, Given
  <2>. QED
    BY <1>1, <1>2, <1>3, <1>6, <2>1 DEF Remote!Refuse, Asked, Told, Given, Outcome
<1>. QED
  BY <1>5, <1>6 DEF Done

\* ReadReply is one of the three ends of a call.
LEMMA RemoteRead ==
  ASSUME IInv, NEW c \in Clients, ReadReply(c)
  PROVE  Remote!Answer(c) \/ Remote!Refuse(c) \/ Remote!Fail(c) \/ Remote!Die(c)
<1>1. /\ client[c].told = "waiting" /\ Done(c)
      /\ Fails(c, "frame") \/ Fails(c, "data") \/ Returns(c, "returned", "none", result[c])
  BY ReadReplyCases
<1>. QED
  BY <1>1, RemoteFail, RemoteAnswer

\* Refuse is a stutter: it is the caller that learns of it later.
LEMMA RemoteRefused ==
  ASSUME IInv, Refuse
  PROVE  UNCHANGED Remote!vars
<1>1. PICK c \in Clients : pipe.who = c /\ ran[c] = NoRequest
  BY WhoIsServed, DispatchFinds DEF Refuse, ConnectionOK
<1>2. result' = [result EXCEPT ![c] = Refusal(pipe.up.op)] /\ UNCHANGED <<client, ran>>
  BY <1>1 DEF Refuse
<1>3. \A d \in Clients : ran[d] # NoRequest => result'[d] = result[d]
  BY <1>1, <1>2 DEF IInv, Types
<1>. QED
  BY <1>2, <1>3, RemoteStutter

\* Before it reads, a client asks and tells nothing.
LEMMA RemoteCallStep ==
  ASSUME IInv, NEW c \in Clients, CallStep(c)
  PROVE  [Remote!Next]_(Remote!vars)
<1>1. CASE Waits(c) \/ Open(c) \/ WriteHeader(c) \/ WritePayload(c)
  <2>1. UNCHANGED Remote!vars
    BY <1>1, GoesStutter DEF Waits, Open, WriteHeader, WritePayload
  <2>. QED
    BY <2>1
<1>2. CASE WaitFails(c) \/ OpenFails(c)
  <2>1. Fails(c, "unavailable") /\ Waiting(c)
    BY <1>2 DEF WaitFails, OpenFails, At, Waiting
  <2>2. Remote!Fail(c) \/ Remote!Die(c)
    BY <2>1, WaitingIsDone, RemoteFail
  <2>. QED
    BY <2>2 DEF Remote!Next
<1>3. CASE BreaksOff(c)
  <2>1. Fails(c, "broken") /\ Talks(c)
    BY <1>3 DEF BreaksOff, Talks
  <2>2. client[c].told = "waiting"
    BY <2>1 DEF IInv, CallOK
  <2>3. Remote!Fail(c) \/ Remote!Die(c)
    BY <2>1, <2>2, RemoteFail
  <2>. QED
    BY <2>3 DEF Remote!Next
<1>4. CASE ReadReply(c)
  BY <1>4, RemoteRead DEF Remote!Next
<1>. QED
  BY <1>1, <1>2, <1>3, <1>4 DEF CallStep

\* Each action is a step of RemoteCall or a stutter.
LEMMA RemoteNext ==
  ASSUME IInv, [Next]_vars
  PROVE  [Remote!Next]_(Remote!vars)
<1>1. ASSUME NEW c \in Clients, CallStep(c)
      PROVE  [Remote!Next]_(Remote!vars)
  BY <1>1, RemoteCallStep
<1>2. ASSUME NEW c \in Clients, Die(c)
      PROVE  [Remote!Next]_(Remote!vars)
  BY <1>2, RemoteDie DEF Remote!Next
<1>3. ASSUME NEW c \in Clients, NEW q \in Asks[c], Ask(c, q)
      PROVE  [Remote!Next]_(Remote!vars)
  BY <1>3, RemoteAsk DEF Remote!Next
<1>4. CASE Serve
  <2>1. CASE Dispatch
    BY <2>1, RemoteRun DEF Remote!Next
  <2>2. CASE Refuse
    BY <2>2, RemoteRefused
  <2>3. CASE ~Dispatch /\ ~Refuse
    <3>1. UNCHANGED <<client, ran, result>>
      BY <1>4, <2>3 DEF Serve, CreatePipe, Accept, ReadFrame, RejectFrame, Reply, ClosePipe, Restart, history
    <3>. QED
      BY <3>1, ServiceStutter
  <2>. QED
    BY <2>1, <2>2, <2>3
<1>5. CASE Crash \/ UNCHANGED vars
  <2>1. UNCHANGED <<client, ran, result>>
    BY <1>5 DEF Crash, vars
  <2>. QED
    BY <2>1, ServiceStutter
<1>. QED
  BY <1>1, <1>2, <1>3, <1>4, <1>5 DEF Next

\* Whatever becomes of the pipe, and whenever the service or a caller stops, the calls do
\* what RemoteCall says: a request is run as it was made and once at most, not after its
\* caller was told that it failed, and an answer is the result of that run.
THEOREM CallsImplementRemoteCall == Spec => ImplementsRemoteCall
<1>1. Init => Remote!Init
  BY RemoteInit
<1>2. IInv /\ [Next]_vars => [Remote!Next]_(Remote!vars)
  BY RemoteNext
<1>. QED
  BY <1>1, <1>2, CallsFitTogether, PTL DEF Spec, ImplementsRemoteCall, Remote!Spec
=============================================================================
