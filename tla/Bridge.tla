------------------------------- MODULE Bridge -------------------------------
(***************************************************************************)
(* The relay between the CLI and a browser extension (extension/bridge.py) *)
(* with the ends that dial it: the BridgeClient of extension/client.py and *)
(* the page whose script is embedded in bridge.py.  A connection is two    *)
(* FIFO queues; the server handles the messages of one session one at a    *)
(* time, and those of different sessions interleaved.                      *)
(*                                                                         *)
(* Commands are clients that open_extension_signer() makes: an error of    *)
(* connect() ends them.  Programs use the BridgeClient class by themselves *)
(* and may go on with the socket that connect() leaves open.  Pages run    *)
(* the embedded script at an address that answers /ws: the copy which the  *)
(* server hands out dials the port of its own HTTP server instead, so that *)
(* with the shipped page alone Pages is empty.                             *)
(*                                                                         *)
(* Every end connects at most once; MaxCalls bounds the calls of a client. *)
(***************************************************************************)
EXTENDS Naturals, Sequences

CONSTANTS Commands, Programs, Pages, MaxCalls

ASSUME EndsAssumption ==
    /\ Commands \cap Programs = {}
    /\ (Commands \union Programs) \cap Pages = {}

ASSUME MaxCallsAssumption == MaxCalls \in Nat

VARIABLES
    sessions,       \* BridgeServer._sessions: the ends, in the order they came
    authenticated,  \* BridgeServer._authenticated
    handler,        \* the _handle_message of each session
    open,           \* the ends whose connection is open
    toServer,       \* messages an end has sent and its session has not read
    toEnd,          \* messages the server has sent and the end has not read
    token,          \* does the end hold the token of this server?
    at,             \* where an end is
    calls,          \* how many calls a client has made
    approving,      \* the requests the user of a page is looking at
    answer,         \* history: the last message a client took for a result
    troubled        \* history: clients that met an error since they connected

vars == <<sessions, authenticated, handler, open, toServer, toEnd, token, at,
          calls, approving, answer, troubled>>
queues == <<toServer, toEnd>>
ends == <<token, at, calls, approving, answer, troubled>>

Clients == Commands \union Programs
Ends == Clients \union Pages

Ids == Clients \X (1 .. MaxCalls)
NoId == <<>>

Auths == [type : {"auth"}, ok : BOOLEAN]
Requests == [type : {"request"}, id : Ids]
Replies == [type : {"reply"}, id : Ids \union {NoId}, error : BOOLEAN]
Welcome == [type |-> "welcome", result |-> [status |-> "ok"]]
Messages == Auths \union Requests \union Replies \union {Welcome}

Idle == [busy |-> FALSE]
Handlers == {Idle} \union [busy : {TRUE}, msg : Requests \union Replies,
                           left : Seq(Ends)]

ErrorReply(id) == [type |-> "reply", id |-> id, error |-> TRUE]

CallId(c) == <<c, calls[c]>>
Waiting(c) == at[c] = "waiting"

\* Mutant: the loop does not skip the session the message came from
AllOfThem(e) == sessions

\* _sessions without one end, in order: what a relay goes through, and what is
\* left after a pop
Others(e) ==
    LET Places == {i \in 1 .. Len(sessions) : sessions[i] = e}
        place == CHOOSE i \in Places : TRUE
    IN  IF Places = {} THEN sessions
        ELSE SubSeq(sessions, 1, place - 1) \o SubSeq(sessions, place + 1, Len(sessions))

TypeOK ==
    /\ sessions \in Seq(Ends)
    /\ authenticated \subseteq Ends
    /\ handler \in [Ends -> Handlers]
    /\ \A e \in Ends : handler[e].busy => e \in authenticated
    /\ open \subseteq Ends
    /\ toServer \in [Ends -> Seq(Auths \union Requests \union Replies)]
    /\ toEnd \in [Ends -> Seq(Messages \ Auths)]
    /\ token \in [Ends -> BOOLEAN]
    /\ at \in [Ends -> {"away", "joining", "rejected", "ready", "waiting", "over"}]
    /\ calls \in [Clients -> 0 .. MaxCalls]
    /\ approving \in [Pages -> SUBSET Ids]
    /\ answer \in [Clients -> (Messages \ Auths) \union {Idle}]
    /\ troubled \subseteq Clients

Init ==
    /\ sessions = <<>>
    /\ authenticated = {}
    /\ handler = [e \in Ends |-> Idle]
    /\ open = {}
    /\ toServer = [e \in Ends |-> <<>>]
    /\ toEnd = [e \in Ends |-> <<>>]
    /\ token \in [Ends -> BOOLEAN]
    /\ \A p \in Pages : token[p]        \* embedded by the server
    /\ at = [e \in Ends |-> "away"]
    /\ calls = [c \in Clients |-> 0]
    /\ approving = [p \in Pages |-> {}]
    /\ answer = [c \in Clients |-> Idle]
    /\ troubled = {}

----------------------------------------------------------------------------
(* The server. *)

\* ws.send(): raises once the connection is closed, which ends the handler
Sends(e, m) ==
    toEnd' = IF e \in open THEN [toEnd EXCEPT ![e] = Append(@, m)] ELSE toEnd

\* the session's loop takes its next message
Takes(e) ==
    /\ ~handler[e].busy
    /\ toServer[e] # <<>>
    /\ toServer' = [toServer EXCEPT ![e] = Tail(@)]

\* _handle_message, type "auth" with the token of this server
Authenticate(e) ==
    /\ Takes(e)
    /\ Head(toServer[e]).type = "auth" /\ Head(toServer[e]).ok
    /\ authenticated' = authenticated \union {e}
    /\ Sends(e, Welcome)
    /\ UNCHANGED <<sessions, handler, open, ends>>

\* _handle_message, type "auth" with another token: reply, close, forget
Reject(e) ==
    /\ Takes(e)
    /\ Head(toServer[e]).type = "auth" /\ ~Head(toServer[e]).ok
    /\ Sends(e, ErrorReply(NoId))
    /\ open' = open \ {e}
    /\ sessions' = IF e \in open THEN Others(e) ELSE sessions
    /\ UNCHANGED <<authenticated, handler, ends>>

\* _handle_message, "id" in msg, before the session is authenticated
RefuseRequest(e) ==
    /\ Takes(e)
    /\ Head(toServer[e]).type # "auth"
    /\ e \notin authenticated
    /\ Sends(e, ErrorReply(Head(toServer[e]).id))
    /\ UNCHANGED <<sessions, authenticated, handler, open, ends>>

\* the loop over the other sessions: the next one gets the message, and the
\* handler waits; on a closed connection the send raises, and the handler
\* returns without an answer; after the last, "no bridge session available"
TryNext(e, m, left) ==
    IF left = <<>>
    THEN handler' = [handler EXCEPT ![e] = Idle] /\ Sends(e, ErrorReply(m.id))
    ELSE /\ handler' = [handler EXCEPT ![e] =
                IF Head(left) \in open THEN [busy |-> TRUE, msg |-> m, left |-> Tail(left)]
                ELSE Idle]
         /\ Sends(Head(left), m)

\* Mutant: the relay does not ask for authentication
RelayForAnyone(e) ==
    /\ Takes(e)
    /\ Head(toServer[e]).type # "auth"
    /\ TryNext(e, Head(toServer[e]), Others(e))
    /\ UNCHANGED <<sessions, authenticated, open, ends>>

\* _handle_message, "id" in msg: requests, and as they carry an id replies too,
\* are relayed to the sessions there are now
Relay(e) ==
    /\ Takes(e)
    /\ Head(toServer[e]).type # "auth"
    /\ e \in authenticated
    /\ TryNext(e, Head(toServer[e]), Others(e))
    /\ UNCHANGED <<sessions, authenticated, open, ends>>

\* wait_for() runs into its 60 s: the future is resolved by messages without an
\* id alone, which no end sends.  A client stops waiting after 30 s, so by then
\* none waits for this id any more.
RelayTimesOut(e) ==
    /\ handler[e].busy
    /\ \A c \in Clients : Waiting(c) => CallId(c) # handler[e].msg.id
    /\ TryNext(e, handler[e].msg, handler[e].left)
    /\ UNCHANGED <<sessions, authenticated, open, toServer, ends>>

\* Mutant: the session is dropped while one of its messages is still handled
ForgetAtOnce(e) ==
    /\ at[e] # "away" /\ e \notin open
    /\ \E i \in 1 .. Len(sessions) : sessions[i] = e
    /\ sessions' = Others(e)
    /\ authenticated' = authenticated \ {e}
    /\ UNCHANGED <<handler, open, queues, ends>>

\* Mutant: the session is popped and stays authenticated
ForgetSessionOnly(e) ==
    /\ at[e] # "away" /\ e \notin open
    /\ ~handler[e].busy /\ toServer[e] = <<>>
    /\ \E i \in 1 .. Len(sessions) : sessions[i] = e
    /\ sessions' = Others(e)
    /\ UNCHANGED <<authenticated, handler, open, queues, ends>>

\* the loop of a closed connection ends after the messages it still held
Forget(e) ==
    /\ at[e] # "away" /\ e \notin open
    /\ ~handler[e].busy /\ toServer[e] = <<>>
    /\ \E i \in 1 .. Len(sessions) : sessions[i] = e
    /\ sessions' = Others(e)
    /\ authenticated' = authenticated \ {e}
    /\ UNCHANGED <<handler, open, queues, ends>>

Serve(e) ==
    \/ Authenticate(e) \/ Reject(e) \/ RefuseRequest(e)
    \/ Relay(e) \/ RelayTimesOut(e) \/ Forget(e)

----------------------------------------------------------------------------
(* The ends. *)

Server == <<sessions, authenticated, handler, open>>

\* websockets.connect() and the auth message; the server registers the session
Join(e) ==
    /\ at[e] = "away"
    /\ at' = [at EXCEPT ![e] = IF e \in Clients THEN "joining" ELSE "ready"]
    /\ open' = open \union {e}
    /\ sessions' = Append(sessions, e)
    /\ toServer' = [toServer EXCEPT ![e] = <<[type |-> "auth", ok |-> token[e]]>>]
    /\ UNCHANGED <<authenticated, handler, toEnd, token, calls, approving, answer, troubled>>

\* connect(): reply.get("status") == "ok"
Welcomed(m) == "status" \in DOMAIN m /\ m.status = "ok"

\* the error ends a command; a program drops it and goes on
AfterError(c) == IF c \in Programs THEN "ready" ELSE "rejected"

ReceiveWelcome(c) ==
    /\ at[c] = "joining" /\ toEnd[c] # <<>>
    /\ at' = [at EXCEPT ![c] = IF Welcomed(Head(toEnd[c])) THEN "ready" ELSE AfterError(c)]
    /\ toEnd' = [toEnd EXCEPT ![c] = Tail(@)]
    /\ UNCHANGED <<Server, toServer, token, calls, approving, answer, troubled>>

\* _call(); a method the page does not know (bridge.status, transaction.result)
\* is a request that its user never answers
Call(c) ==
    /\ at[c] = "ready" /\ c \in Clients /\ calls[c] < MaxCalls
    /\ c \in open
    /\ calls' = [calls EXCEPT ![c] = @ + 1]
    /\ at' = [at EXCEPT ![c] = "waiting"]
    /\ answer' = [answer EXCEPT ![c] = Idle]
    /\ toServer' = [toServer EXCEPT ![c] =
            Append(@, [type |-> "request", id |-> <<c, calls[c] + 1>>])]
    /\ UNCHANGED <<Server, toEnd, token, approving, troubled>>

\* _call(): whatever message comes first is the reply; anything but an error
\* is read as a result, and what has no result as an empty one
ReceiveReply(c) ==
    /\ Waiting(c) /\ toEnd[c] # <<>>
    /\ toEnd' = [toEnd EXCEPT ![c] = Tail(@)]
    /\ at' = [at EXCEPT ![c] = "ready"]
    /\ LET m == Head(toEnd[c])
           failed == m.type = "reply" /\ m.error
       IN  /\ answer' = [answer EXCEPT ![c] = IF failed THEN Idle ELSE m]
           /\ troubled' = IF failed THEN troubled \union {c} ELSE troubled
    /\ UNCHANGED <<Server, toServer, token, calls, approving>>

\* Mutant: only connect() has a time limit
GiveUpConnecting(c) ==
    /\ at[c] = "joining" /\ toEnd[c] = <<>>
    /\ at' = [at EXCEPT ![c] = AfterError(c)]
    /\ troubled' = troubled \union {c}
    /\ UNCHANGED <<Server, queues, token, calls, approving, answer>>

\* _recv(): nothing for 30 s, or the connection is closed
GiveUp(c) ==
    /\ at[c] \in {"joining", "waiting"} /\ toEnd[c] = <<>>
    /\ at' = [at EXCEPT ![c] = IF @ = "joining" THEN AfterError(c) ELSE "ready"]
    /\ troubled' = troubled \union {c}
    /\ UNCHANGED <<Server, queues, token, calls, approving, answer>>

\* the script's onmessage: a request it knows is put to the extension, and
\* everything else is ignored
PageReceives(p) ==
    /\ p \in Pages /\ toEnd[p] # <<>>
    /\ toEnd' = [toEnd EXCEPT ![p] = Tail(@)]
    /\ LET m == Head(toEnd[p]) IN
        approving' = [approving EXCEPT ![p] =
            IF m.type = "request" THEN @ \union {m.id} ELSE @]
    /\ UNCHANGED <<Server, toServer, token, at, calls, answer, troubled>>

\* respond() and error(), when the user has decided
PageResponds(p) ==
    /\ p \in Pages /\ p \in open
    /\ \E id \in approving[p], failed \in BOOLEAN :
        /\ approving' = [approving EXCEPT ![p] = @ \ {id}]
        /\ toServer' = [toServer EXCEPT ![p] =
                Append(@, [type |-> "reply", id |-> id, error |-> failed])]
    /\ UNCHANGED <<Server, toEnd, token, at, calls, answer, troubled>>

\* close(), the end of the process, or the tab is closed
Close(e) ==
    /\ at[e] \in {"rejected", "ready"}
    /\ at' = [at EXCEPT ![e] = "over"]
    /\ open' = open \ {e}
    /\ toEnd' = [toEnd EXCEPT ![e] = <<>>]
    /\ approving' = [p \in Pages |-> IF p = e THEN {} ELSE approving[p]]
    /\ UNCHANGED <<sessions, authenticated, handler, toServer, token, calls, answer, troubled>>

ClientStep(c) == ReceiveWelcome(c) \/ ReceiveReply(c) \/ GiveUp(c)

Next ==
    \/ \E e \in Ends : Serve(e) \/ Join(e) \/ Close(e)
    \/ \E c \in Clients : ClientStep(c) \/ Call(c)
    \/ \E p \in Pages : PageReceives(p) \/ PageResponds(p)

(* The event loop of the server serves every session, and the timers of    *)
(* _recv() and wait_for() expire.  Nobody has to call, answer or close;    *)
(* a command, though, ends after the error of connect().                   *)
Fairness ==
    /\ \A e \in Ends : WF_vars(Serve(e))
    /\ \A c \in Clients : WF_vars(ClientStep(c))
    /\ \A c \in Commands : WF_vars(Close(c))

Spec == Init /\ [][Next]_vars /\ Fairness

----------------------------------------------------------------------------
(* Properties. *)

\* No page puts a request to its user, and no end has one before it, that came
\* from a client without the token of this server: _handle_message relays for
\* authenticated sessions alone, whatever other sessions do meanwhile.
NothingForStrangers ==
    /\ \A p \in Pages : \A id \in approving[p] : token[id[1]]
    /\ \A e \in Ends : \A i \in 1 .. Len(toEnd[e]) :
            toEnd[e][i].type = "request" => token[toEnd[e][i].id[1]]

\* no other client has come, nor a second page
AloneWithOnePage(c) ==
    /\ \A d \in Clients \ {c} : at[d] = "away"
    /\ \A p, q \in Pages : at[p] # "away" /\ at[q] # "away" => p = q

\* _call() takes the next message for its reply, without looking at the id, and
\* the answer of the page reaches the client only because it is relayed like a
\* request.  Still a client that is alone with one page reads nothing but the
\* results of its own calls until it first meets an error or a timeout.  (With a
\* second page it may: the relay asks that one too when its wait for the first
\* has run out, and its late answer is read as that of the next call.)
OwnResultUntilTrouble ==
    \A c \in Clients :
        answer[c] # Idle /\ c \notin troubled /\ AloneWithOnePage(c) =>
            answer[c].type = "reply" /\ answer[c].id = CallId(c)

\* Every connect() and every call ends, whatever the server and the user of the
\* page do: _recv() waits for 30 s at most.
EveryCallEnds ==
    \A c \in Clients : at[c] \in {"joining", "waiting"} ~> at[c] \notin {"joining", "waiting"}

\* A session whose end is gone is dropped in the end, so that requests are not
\* sent to it for ever: the handler may be in the middle of a relay, whose
\* future nobody resolves, but each of its waits is bounded.
GoneIsForgotten ==
    \A e \in Ends : at[e] = "over" ~>
        /\ e \notin authenticated
        /\ \A i \in 1 .. Len(sessions) : sessions[i] # e

\* client.py:47, "Connect to the bridge server and authenticate.": a client that
\* the server has authenticated is not told that its authentication failed.
ConnectAuthenticates ==
    \A c \in Clients : c \in authenticated => at[c] # "rejected"
=============================================================================
