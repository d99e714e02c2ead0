----------------------------- MODULE RemoteCall -----------------------------
(***************************************************************************)
(* What ServiceClient promises its callers, whatever becomes of the pipe   *)
(* between them and the service: a call is run once at most and as it was  *)
(* made; when Call returns true the service has run it, and the answer is  *)
(* the result of that; and once Call has returned, with or without an      *)
(* answer, the request will not be run later.  Only a caller that is gone  *)
(* may have left a request behind.                                         *)
(***************************************************************************)
CONSTANTS Clients, Requests, Results(_), Acceptable(_), NoRequest, NoResult

VARIABLES
  asked,   \* the request of the last call of each client
  told,    \* what has become of the call
  ran,     \* the request the service has run for it
  result,  \* the result of that
  answer   \* what the caller has got

vars == <<asked, told, ran, result, answer>>

Init ==
  /\ asked = [c \in Clients |-> NoRequest]
  /\ told = [c \in Clients |-> "idle"]
  /\ ran = [c \in Clients |-> NoRequest]
  /\ result = [c \in Clients |-> NoResult]
  /\ answer = [c \in Clients |-> NoResult]

Ask(c, q) ==
  /\ told[c] \notin {"waiting", "gone"}
  /\ asked' = [asked EXCEPT ![c] = q]
  /\ told' = [told EXCEPT ![c] = "waiting"]
  /\ ran' = [ran EXCEPT ![c] = NoRequest]
  /\ result' = [result EXCEPT ![c] = NoResult]
  /\ answer' = [answer EXCEPT ![c] = NoResult]

\* The service runs a request while its caller waits, or is gone.
Run(c) ==
  /\ told[c] \in {"waiting", "gone"} /\ asked[c] # NoRequest /\ ran[c] = NoRequest
  /\ Acceptable(asked[c])
  /\ ran' = [ran EXCEPT ![c] = asked[c]]
  /\ \E r \in Results(asked[c]) : result' = [result EXCEPT ![c] = r]
  /\ UNCHANGED <<asked, told, answer>>

Answer(c) ==
  /\ told[c] = "waiting" /\ ran[c] = asked[c]
  /\ told' = [told EXCEPT ![c] = "answered"]
  /\ answer' = [answer EXCEPT ![c] = result[c]]
  /\ UNCHANGED <<asked, ran, result>>

\* A request the service cannot accept is answered without being run.
Refuse(c) ==
  /\ told[c] = "waiting" /\ ~Acceptable(asked[c])
  /\ told' = [told EXCEPT ![c] = "refused"]
  /\ UNCHANGED <<asked, ran, result, answer>>

\* The caller learns that the call has failed; it may have been run.
Fail(c) ==
  /\ told[c] = "waiting"
  /\ told' = [told EXCEPT ![c] = "failed"]
  /\ UNCHANGED <<asked, ran, result, answer>>

Die(c) ==
  /\ told[c] = "waiting"
  /\ told' = [told EXCEPT ![c] = "gone"]
  /\ UNCHANGED <<asked, ran, result, answer>>

Next ==
  \E c \in Clients :
    \/ \E q \in Requests : Ask(c, q)
    \/ Run(c) \/ Answer(c) \/ Refuse(c) \/ Fail(c) \/ Die(c)

Spec == Init /\ [][Next]_vars
=============================================================================
