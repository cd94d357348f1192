---------------------------- MODULE BridgeProofs ----------------------------
(***************************************************************************)
(* What the relay of the extension bridge keeps for any number of clients, *)
(* pages and calls: its types, that it relays for nobody without the       *)
(* token, and that a client alone with one page reads the results of its   *)
(* own calls.  The chain of custody of a request is the first inductive    *)
(* invariant: in the client's queue it bears the client's own id, the      *)
(* handler takes it from authenticated sessions alone, and a session is    *)
(* authenticated by a message that tells the truth about the token.  The   *)
(* second follows a call through the stages of its way: it is in one place *)
(* at a time, and nothing of it is left when its result has been read.     *)
(***************************************************************************)
EXTENDS Bridge, TLAPS

\* The messages under way from an end are its own.
OwnMessages ==
    \A e \in Ends : \A i \in 1 .. Len(toServer[e]) :
        /\ toServer[e][i].type = "auth" => toServer[e][i].ok = token[e]
        /\ toServer[e][i].type = "request" => toServer[e][i].id[1] = e

AuthenticatedHoldToken == \A e \in authenticated : token[e]

\* A handler relays only what an end with the token asked for.
HandledForHolders ==
    \A e \in Ends : handler[e].busy /\ handler[e].msg.type = "request" =>
        token[handler[e].msg.id[1]]

Inv ==
    /\ TypeOK
    /\ OwnMessages
    /\ AuthenticatedHoldToken
    /\ HandledForHolders
    /\ NothingForStrangers

----------------------------------------------------------------------------
(* Operators. *)

LEMMA OthersType ==
  ASSUME TypeOK, NEW e
  PROVE  Others(e) \in Seq(Ends)
<1> DEFINE Places == {i \in 1 .. Len(sessions) : sessions[i] = e}
           place == CHOOSE i \in Places : TRUE
<1>1. sessions \in Seq(Ends)
  BY DEF TypeOK
<1>2. CASE Places = {}
  BY <1>1, <1>2 DEF Others
<1>3. CASE Places # {}
  <2>1. place \in 1 .. Len(sessions)
    BY <1>3
  <2> HIDE DEF place
  <2>2. SubSeq(sessions, 1, place - 1) \o SubSeq(sessions, place + 1, Len(sessions)) \in Seq(Ends)
    BY <1>1, <2>1
  <2>3. QED
    BY <1>3, <2>2 DEF Others, place
<1>4. QED
  BY <1>2, <1>3

LEMMA TailType == 
  ASSUME NEW S, NEW s \in Seq(S), s # <<>>
  PROVE  /\ Head(s) \in S
         /\ Tail(s) \in Seq(S)
         /\ Len(Tail(s)) = Len(s) - 1
         /\ \A i \in 1 .. Len(Tail(s)) : i + 1 \in 1 .. Len(s) /\ Tail(s)[i] = s[i + 1]
         /\ 1 \in 1 .. Len(s) /\ Head(s) = s[1]
  OBVIOUS

LEMMA MessageTypes ==
  /\ \A m \in Messages : m.type \in {"auth", "request", "reply", "welcome"}
  /\ \A m \in Messages : m.type = "auth" => m \in Auths
  /\ \A m \in Messages : m.type = "request" => m \in Requests
  /\ \A m \in Messages : m.type = "reply" => m \in Replies
  BY DEF Messages, Auths, Requests, Replies, Welcome

\* Init: nothing is under way.
LEMMA InvInit == Init => Inv
<1> SUFFICES ASSUME Init PROVE Inv
  OBVIOUS
<1>1. TypeOK
  BY MaxCallsAssumption DEF Init, TypeOK, Handlers, Idle, Ends, Clients
<1>2. QED
  BY <1>1 DEF Init, Inv, OwnMessages, AuthenticatedHoldToken, HandledForHolders,
              NothingForStrangers, Idle

----------------------------------------------------------------------------
(* What the two sides of a connection do to the queues. *)

Sent == Auths \union Requests \union Replies
Received == Messages \ Auths

QueuedForHolders ==
    \A e \in Ends : \A i \in 1 .. Len(toEnd[e]) :
        toEnd[e][i].type = "request" => token[toEnd[e][i].id[1]]

ApprovedForHolders ==
    \A p \in Pages : \A id \in approving[p] : token[id[1]]

LEMMA TakesKeeps ==
  ASSUME Inv, NEW e \in Ends, Takes(e)
  PROVE  /\ toServer' \in [Ends -> Seq(Sent)]
         /\ token' = token => OwnMessages'
         /\ Head(toServer[e]) \in Sent
         /\ Head(toServer[e]).type = "auth" => Head(toServer[e]).ok = token[e]
         /\ Head(toServer[e]).type = "request" => Head(toServer[e]).id[1] = e
<1>1. toServer \in [Ends -> Seq(Sent)] /\ OwnMessages
  BY DEF Inv, TypeOK, Sent
<1>2. toServer[e] \in Seq(Sent) /\ toServer[e] # <<>> /\ toServer' = [toServer EXCEPT ![e] = Tail(@)]
  BY <1>1 DEF Takes
<1>3. /\ Head(toServer[e]) \in Sent
      /\ Tail(toServer[e]) \in Seq(Sent)
      /\ \A i \in 1 .. Len(Tail(toServer[e])) :
            i + 1 \in 1 .. Len(toServer[e]) /\ Tail(toServer[e])[i] = toServer[e][i + 1]
      /\ 1 \in 1 .. Len(toServer[e]) /\ Head(toServer[e]) = toServer[e][1]
  BY <1>2, TailType
<1>4. toServer' \in [Ends -> Seq(Sent)]
  BY <1>1, <1>2, <1>3
<1>5. ASSUME token' = token PROVE OwnMessages'
  <2> SUFFICES ASSUME NEW f \in Ends, NEW i \in 1 .. Len(toServer'[f])
               PROVE  /\ toServer'[f][i].type = "auth" => toServer'[f][i].ok = token[f]
                      /\ toServer'[f][i].type = "request" => toServer'[f][i].id[1] = f
    BY <1>5 DEF OwnMessages
  <2>1. CASE f = e
    <3>1. toServer'[f] = Tail(toServer[e])
      BY <1>1, <1>2, <2>1
    <3>2. i + 1 \in 1 .. Len(toServer[e]) /\ toServer'[f][i] = toServer[e][i + 1]
      BY <1>3, <3>1
    <3>3. QED
      BY <1>1, <2>1, <3>2 DEF OwnMessages
  <2>2. CASE f # e
    <3>1. toServer'[f] = toServer[f]
      BY <1>1, <1>2, <2>2
    <3>2. QED
      BY <1>1, <3>1 DEF OwnMessages
  <2>3. QED
    BY <2>1, <2>2
<1>6. QED
  BY <1>1, <1>3, <1>4, <1>5 DEF OwnMessages

LEMMA AppendType ==
  ASSUME NEW S, NEW s \in Seq(S), NEW m \in S
  PROVE  /\ Append(s, m) \in Seq(S)
         /\ Len(Append(s, m)) = Len(s) + 1
         /\ \A i \in 1 .. Len(Append(s, m)) :
                \/ i \in 1 .. Len(s) /\ Append(s, m)[i] = s[i]
                \/ i = Len(s) + 1 /\ Append(s, m)[i] = m
  OBVIOUS

LEMMA SendsKeeps ==
  ASSUME Inv, NEW e, NEW m \in Received, Sends(e, m), token' = token,
         m.type = "request" => token[m.id[1]]
  PROVE  toEnd' \in [Ends -> Seq(Received)] /\ QueuedForHolders'
<1>1. toEnd \in [Ends -> Seq(Received)] /\ QueuedForHolders
  BY DEF Inv, TypeOK, Received, NothingForStrangers, QueuedForHolders
<1>2. CASE e \notin Ends \/ e \notin open
  <2>1. toEnd' = toEnd
    BY <1>1, <1>2 DEF Sends
  <2>2. QED
    BY <1>1, <2>1 DEF QueuedForHolders
<1>3. CASE e \in Ends /\ e \in open
  <2>1. toEnd' = [toEnd EXCEPT ![e] = Append(toEnd[e], m)] /\ toEnd[e] \in Seq(Received)
    BY <1>1, <1>3 DEF Sends
  <2>2. /\ Append(toEnd[e], m) \in Seq(Received)
        /\ \A i \in 1 .. Len(Append(toEnd[e], m)) :
             \/ i \in 1 .. Len(toEnd[e]) /\ Append(toEnd[e], m)[i] = toEnd[e][i]
             \/ Append(toEnd[e], m)[i] = m
    BY <2>1, AppendType
  <2>3. toEnd' \in [Ends -> Seq(Received)]
    BY <1>1, <2>1, <2>2
  <2>4. ASSUME NEW f \in Ends, NEW i \in 1 .. Len(toEnd'[f]), toEnd'[f][i].type = "request"
        PROVE  token[toEnd'[f][i].id[1]]
    <3>1. CASE f = e
      <4>1. toEnd'[f] = Append(toEnd[e], m)
        BY <1>1, <1>3, <2>1, <3>1
      <4>2. QED
        BY <1>1, <1>3, <2>2, <2>4, <4>1 DEF QueuedForHolders
    <3>2. CASE f # e
      <4>1. toEnd'[f] = toEnd[f]
        BY <1>1, <2>1, <3>2
      <4>2. QED
        BY <1>1, <2>4, <4>1 DEF QueuedForHolders
    <3>3. QED
      BY <3>1, <3>2
  <2>5. QED
    BY <2>3, <2>4 DEF QueuedForHolders
<1>4. QED
  BY <1>2, <1>3

----------------------------------------------------------------------------
(* The server's steps. *)

LEMMA ErrorReplyType ==
  ASSUME NEW id \in Ids \union {NoId}
  PROVE  ErrorReply(id) \in Received /\ ErrorReply(id).type = "reply"
  BY DEF ErrorReply, Received, Messages, Replies, Auths

\* Changes of one handler.
LEMMA HandlerKeeps ==
  ASSUME Inv, NEW e \in Ends, NEW h \in Handlers, e \in authenticated,
         handler' = [handler EXCEPT ![e] = h],
         token' = token, authenticated' = authenticated,
         h.busy /\ h.msg.type = "request" => token[h.msg.id[1]]
  PROVE  /\ handler' \in [Ends -> Handlers]
         /\ \A f \in Ends : handler'[f].busy => f \in authenticated'
         /\ HandledForHolders'
<1>1. /\ handler \in [Ends -> Handlers]
      /\ \A f \in Ends : handler[f].busy => f \in authenticated
      /\ HandledForHolders
  BY DEF Inv, TypeOK
<1>2. \A f \in Ends : handler'[f] = IF f = e THEN h ELSE handler[f]
  BY <1>1
<1>3. handler' \in [Ends -> Handlers]
  BY <1>1
<1>4. \A f \in Ends : handler'[f].busy => f \in authenticated'
  BY <1>1, <1>2
<1>5. HandledForHolders'
  BY <1>1, <1>2 DEF HandledForHolders
<1>6. QED
  BY <1>3, <1>4, <1>5

LEMMA TryNextKeeps ==
  ASSUME Inv, NEW e \in Ends, e \in authenticated,
         NEW m \in Requests \union Replies, m.type = "request" => token[m.id[1]],
         NEW left \in Seq(Ends), TryNext(e, m, left),
         token' = token, authenticated' = authenticated
  PROVE  /\ handler' \in [Ends -> Handlers]
         /\ \A f \in Ends : handler'[f].busy => f \in authenticated'
         /\ HandledForHolders'
         /\ toEnd' \in [Ends -> Seq(Received)]
         /\ QueuedForHolders'
<1>1. CASE left = <<>>
  <2>1. handler' = [handler EXCEPT ![e] = Idle] /\ Sends(e, ErrorReply(m.id))
    BY <1>1 DEF TryNext
  <2>2. m.id \in Ids \union {NoId}
    BY DEF Requests, Replies
  <2>3. Idle \in Handlers /\ ~Idle.busy
    BY DEF Idle, Handlers
  <2>4. toEnd' \in [Ends -> Seq(Received)] /\ QueuedForHolders'
    BY <2>1, <2>2, ErrorReplyType, SendsKeeps
  <2>5. QED
    BY <2>1, <2>3, <2>4, HandlerKeeps
<1>2. CASE left # <<>>
  <2> DEFINE h == IF Head(left) \in open
                  THEN [busy |-> TRUE, msg |-> m, left |-> Tail(left)] ELSE Idle
  <2>1. handler' = [handler EXCEPT ![e] = h] /\ Sends(Head(left), m)
    BY <1>2 DEF TryNext
  <2>2. Tail(left) \in Seq(Ends)
    BY <1>2, TailType
  <2>3. h \in Handlers /\ (h.busy /\ h.msg.type = "request" => token[h.msg.id[1]])
    BY <2>2 DEF Handlers, Idle
  <2>4. m \in Received
    BY DEF Received, Messages, Requests, Replies, Auths
  <2>5. toEnd' \in [Ends -> Seq(Received)] /\ QueuedForHolders'
    BY <2>1, <2>4, SendsKeeps
  <2> HIDE DEF h
  <2>6. QED
    BY <2>1, <2>3, <2>5, HandlerKeeps
<1>3. QED
  BY <1>1, <1>2

LEMMA AuthenticateKeeps ==
  ASSUME Inv, NEW e \in Ends, Authenticate(e) PROVE Inv'
<1> DEFINE m == Head(toServer[e])
<1>1. /\ Takes(e) /\ m.type = "auth" /\ m.ok /\ authenticated' = authenticated \union {e}
      /\ Sends(e, Welcome) /\ UNCHANGED <<sessions, handler, open, ends>>
  BY DEF Authenticate
<1>2. token' = token
  BY <1>1 DEF ends
<1>3. toServer' \in [Ends -> Seq(Sent)] /\ OwnMessages' /\ token[e]
  <2>1. token \in [Ends -> BOOLEAN] 
    BY DEF Inv, TypeOK
  <2>2. QED
    BY <1>1, <1>2, <2>1, TakesKeeps
<1>4. toEnd' \in [Ends -> Seq(Received)] /\ QueuedForHolders'
  <2>1. Welcome \in Received /\ Welcome.type # "request"
    BY DEF Welcome, Received, Messages, Auths
  <2>2. QED
    BY <1>1, <1>2, <2>1, SendsKeeps
<1>5. TypeOK'
  BY <1>1, <1>3, <1>4 DEF Inv, TypeOK, ends, Sent, Received
<1>6. AuthenticatedHoldToken'
  BY <1>1, <1>2, <1>3 DEF Inv, AuthenticatedHoldToken
<1>7. HandledForHolders'
  BY <1>1, <1>2 DEF Inv, HandledForHolders
<1>8. NothingForStrangers'
  BY <1>1, <1>4 DEF Inv, NothingForStrangers, QueuedForHolders, ends
<1>9. QED
  BY <1>3, <1>5, <1>6, <1>7, <1>8 DEF Inv

LEMMA RejectKeeps ==
  ASSUME Inv, NEW e \in Ends, Reject(e) PROVE Inv'
<1>1. /\ Takes(e) /\ Sends(e, ErrorReply(NoId)) /\ open' = open \ {e}
      /\ sessions' = IF e \in open THEN Others(e) ELSE sessions
      /\ UNCHANGED <<authenticated, handler, ends>>
  BY DEF Reject
<1>2. token' = token
  BY <1>1 DEF ends
<1>3. toServer' \in [Ends -> Seq(Sent)] /\ OwnMessages'
  BY <1>1, <1>2, TakesKeeps
<1>4. toEnd' \in [Ends -> Seq(Received)] /\ QueuedForHolders'
  BY <1>1, <1>2, SendsKeeps, ErrorReplyType
<1>5. sessions' \in Seq(Ends)
  BY <1>1, OthersType DEF Inv, TypeOK
<1>6. TypeOK'
  BY <1>1, <1>3, <1>4, <1>5 DEF Inv, TypeOK, ends, Sent, Received
<1>7. AuthenticatedHoldToken' /\ HandledForHolders'
  BY <1>1, <1>2 DEF Inv, AuthenticatedHoldToken, HandledForHolders
<1>8. NothingForStrangers'
  BY <1>1, <1>4 DEF Inv, NothingForStrangers, QueuedForHolders, ends
<1>9. QED
  BY <1>3, <1>6, <1>7, <1>8 DEF Inv

LEMMA RefuseRequestKeeps ==
  ASSUME Inv, NEW e \in Ends, RefuseRequest(e) PROVE Inv'
<1> DEFINE m == Head(toServer[e])
<1>1. /\ Takes(e) /\ m.type # "auth" /\ Sends(e, ErrorReply(m.id))
      /\ UNCHANGED <<sessions, authenticated, handler, open, ends>>
  BY DEF RefuseRequest
<1>2. token' = token
  BY <1>1 DEF ends
<1>3. toServer' \in [Ends -> Seq(Sent)] /\ OwnMessages' /\ m \in Sent
  BY <1>1, <1>2, TakesKeeps
<1>4. m.id \in Ids \union {NoId}
  BY <1>1, <1>3 DEF Sent, Auths, Requests, Replies
<1>5. toEnd' \in [Ends -> Seq(Received)] /\ QueuedForHolders'
  BY <1>1, <1>2, <1>4, SendsKeeps, ErrorReplyType
<1>6. TypeOK'
  BY <1>1, <1>3, <1>5 DEF Inv, TypeOK, ends, Sent, Received
<1>7. AuthenticatedHoldToken' /\ HandledForHolders'
  BY <1>1, <1>2 DEF Inv, AuthenticatedHoldToken, HandledForHolders
<1>8. NothingForStrangers'
  BY <1>1, <1>5 DEF Inv, NothingForStrangers, QueuedForHolders, ends
<1>9. QED
  BY <1>3, <1>6, <1>7, <1>8 DEF Inv

LEMMA RelayKeeps ==
  ASSUME Inv, NEW e \in Ends, Relay(e) PROVE Inv'
<1> DEFINE m == Head(toServer[e])
<1>1. /\ Takes(e) /\ m.type # "auth" /\ e \in authenticated /\ TryNext(e, m, Others(e))
      /\ UNCHANGED <<sessions, authenticated, open, ends>>
  BY DEF Relay
<1>2. token' = token
  BY <1>1 DEF ends
<1>3. /\ toServer' \in [Ends -> Seq(Sent)] /\ OwnMessages' /\ m \in Sent
      /\ m.type = "request" => m.id[1] = e
  BY <1>1, <1>2, TakesKeeps
<1>4. m \in Requests \union Replies /\ (m.type = "request" => token[m.id[1]])
  BY <1>1, <1>3 DEF Sent, Auths, Inv, AuthenticatedHoldToken
<1>5. Others(e) \in Seq(Ends)
  BY OthersType DEF Inv
<1>6. /\ handler' \in [Ends -> Handlers]
      /\ \A f \in Ends : handler'[f].busy => f \in authenticated'
      /\ HandledForHolders'
      /\ toEnd' \in [Ends -> Seq(Received)]
      /\ QueuedForHolders'
  BY <1>1, <1>2, <1>4, <1>5, TryNextKeeps
<1>7. TypeOK'
  BY <1>1, <1>3, <1>6 DEF Inv, TypeOK, ends, Sent, Received
<1>8. AuthenticatedHoldToken'
  BY <1>1, <1>2 DEF Inv, AuthenticatedHoldToken
<1>9. NothingForStrangers'
  BY <1>1, <1>6 DEF Inv, NothingForStrangers, QueuedForHolders, ends
<1>10. QED
  BY <1>3, <1>6, <1>7, <1>8, <1>9 DEF Inv

LEMMA RelayTimesOutKeeps ==
  ASSUME Inv, NEW e \in Ends, RelayTimesOut(e) PROVE Inv'
<1> DEFINE m == handler[e].msg
           left == handler[e].left
<1>1. /\ handler[e].busy /\ TryNext(e, m, left)
      /\ UNCHANGED <<sessions, authenticated, open, toServer, ends>>
  BY DEF RelayTimesOut
<1>2. token' = token
  BY <1>1 DEF ends
<1>3. handler[e] \in Handlers /\ e \in authenticated
  BY <1>1 DEF Inv, TypeOK
<1>4. m \in Requests \union Replies /\ left \in Seq(Ends)
  <2>1. handler[e] # Idle
    BY <1>1 DEF Idle
  <2>2. handler[e] \in [busy : {TRUE}, msg : Requests \union Replies, left : Seq(Ends)]
    BY <1>3, <2>1 DEF Handlers
  <2>3. QED
    BY <2>2
<1>5. m.type = "request" => token[m.id[1]]
  BY <1>1 DEF Inv, HandledForHolders
<1>6. /\ handler' \in [Ends -> Handlers]
      /\ \A f \in Ends : handler'[f].busy => f \in authenticated'
      /\ HandledForHolders'
      /\ toEnd' \in [Ends -> Seq(Received)]
      /\ QueuedForHolders'
  <2> HIDE DEF m, left
  <2>1. QED
    BY <1>1, <1>2, <1>3, <1>4, <1>5, TryNextKeeps
<1>7. TypeOK'
  BY <1>1, <1>6 DEF Inv, TypeOK, ends, Received
<1>8. AuthenticatedHoldToken' /\ OwnMessages'
  BY <1>1, <1>2 DEF Inv, AuthenticatedHoldToken, OwnMessages
<1>9. NothingForStrangers'
  BY <1>1, <1>6 DEF Inv, NothingForStrangers, QueuedForHolders, ends
<1>10. QED
  BY <1>6, <1>7, <1>8, <1>9 DEF Inv

LEMMA ForgetKeeps ==
  ASSUME Inv, NEW e \in Ends, Forget(e) PROVE Inv'
<1>1. /\ ~handler[e].busy /\ sessions' = Others(e) /\ authenticated' = authenticated \ {e}
      /\ UNCHANGED <<handler, open, queues, ends>>
  BY DEF Forget
<1>2. sessions' \in Seq(Ends)
  BY <1>1, OthersType DEF Inv
<1>3. \A f \in Ends : handler'[f].busy => f \in authenticated'
  BY <1>1 DEF Inv, TypeOK
<1>4. TypeOK'
  BY <1>1, <1>2, <1>3 DEF Inv, TypeOK, queues, ends
<1>5. QED
  BY <1>1, <1>4 DEF Inv, queues, ends, OwnMessages, AuthenticatedHoldToken,
                    HandledForHolders, NothingForStrangers

----------------------------------------------------------------------------
(* The steps of the ends. *)

\* Taking a message off the queue of an end.
LEMMA EndTakesKeeps ==
  ASSUME Inv, NEW e \in Ends, toEnd[e] # <<>>,
         toEnd' = [toEnd EXCEPT ![e] = Tail(@)], token' = token
  PROVE  /\ toEnd' \in [Ends -> Seq(Received)] /\ QueuedForHolders'
         /\ Head(toEnd[e]) \in Received
         /\ Head(toEnd[e]).type = "request" => token[Head(toEnd[e]).id[1]]
<1>1. toEnd \in [Ends -> Seq(Received)] /\ QueuedForHolders
  BY DEF Inv, TypeOK, Received, NothingForStrangers, QueuedForHolders
<1>2. /\ Head(toEnd[e]) \in Received
      /\ Tail(toEnd[e]) \in Seq(Received)
      /\ \A i \in 1 .. Len(Tail(toEnd[e])) :
            i + 1 \in 1 .. Len(toEnd[e]) /\ Tail(toEnd[e])[i] = toEnd[e][i + 1]
      /\ 1 \in 1 .. Len(toEnd[e]) /\ Head(toEnd[e]) = toEnd[e][1]
  BY <1>1, TailType
<1>3. toEnd' \in [Ends -> Seq(Received)]
  BY <1>1, <1>2
<1>4. ASSUME NEW f \in Ends, NEW i \in 1 .. Len(toEnd'[f]), toEnd'[f][i].type = "request"
      PROVE  token[toEnd'[f][i].id[1]]
  <2>1. CASE f = e
    <3>1. toEnd'[f] = Tail(toEnd[e])
      BY <1>1, <2>1
    <3>2. QED
      BY <1>1, <1>2, <1>4, <2>1, <3>1 DEF QueuedForHolders
  <2>2. CASE f # e
    <3>1. toEnd'[f] = toEnd[f]
      BY <1>1, <2>2
    <3>2. QED
      BY <1>1, <1>4, <3>1 DEF QueuedForHolders
  <2>3. QED
    BY <2>1, <2>2
<1>5. QED
  BY <1>1, <1>2, <1>3, <1>4 DEF QueuedForHolders

\* An end sends a message of its own.
LEMMA EndSendsKeeps ==
  ASSUME Inv, NEW e \in Ends, NEW m \in Sent, token' = token,
         toServer' = [toServer EXCEPT ![e] = Append(@, m)],
         m.type = "auth" => m.ok = token[e],
         m.type = "request" => m.id[1] = e
  PROVE  toServer' \in [Ends -> Seq(Sent)] /\ OwnMessages'
<1>1. toServer \in [Ends -> Seq(Sent)] /\ OwnMessages
  BY DEF Inv, TypeOK, Sent
<1>2. /\ Append(toServer[e], m) \in Seq(Sent)
      /\ \A i \in 1 .. Len(Append(toServer[e], m)) :
           \/ i \in 1 .. Len(toServer[e]) /\ Append(toServer[e], m)[i] = toServer[e][i]
           \/ Append(toServer[e], m)[i] = m
  BY <1>1, AppendType
<1>3. toServer' \in [Ends -> Seq(Sent)]
  BY <1>1, <1>2
<1>4. ASSUME NEW f \in Ends, NEW i \in 1 .. Len(toServer'[f])
      PROVE  /\ toServer'[f][i].type = "auth" => toServer'[f][i].ok = token[f]
             /\ toServer'[f][i].type = "request" => toServer'[f][i].id[1] = f
  <2>1. CASE f = e
    <3>1. toServer'[f] = Append(toServer[e], m)
      BY <1>1, <2>1
    <3>2. QED
      BY <1>1, <1>2, <2>1, <3>1 DEF OwnMessages
  <2>2. CASE f # e
    <3>1. toServer'[f] = toServer[f]
      BY <1>1, <2>2
    <3>2. QED
      BY <1>1, <3>1 DEF OwnMessages
  <2>3. QED
    BY <2>1, <2>2
<1>5. QED
  BY <1>3, <1>4 DEF OwnMessages

LEMMA JoinKeeps ==
  ASSUME Inv, NEW e \in Ends, Join(e) PROVE Inv'
<1> DEFINE m == [type |-> "auth", ok |-> token[e]]
<1>1. /\ at[e] = "away"
      /\ at' = [at EXCEPT ![e] = IF e \in Clients THEN "joining" ELSE "ready"]
      /\ open' = open \union {e}
      /\ sessions' = Append(sessions, e)
      /\ toServer' = [toServer EXCEPT ![e] = <<m>>]
      /\ UNCHANGED <<authenticated, handler, toEnd, token, calls, approving, answer, troubled>>
  BY DEF Join
<1>2. toServer \in [Ends -> Seq(Sent)] /\ OwnMessages /\ token \in [Ends -> BOOLEAN]
  BY DEF Inv, TypeOK, Sent
<1>3. m \in Sent
  BY <1>2 DEF Sent, Auths
<1>4. toServer' \in [Ends -> Seq(Sent)]
  BY <1>1, <1>2, <1>3
<1>5. OwnMessages'
  <2>1. \A f \in Ends : toServer'[f] = IF f = e THEN <<m>> ELSE toServer[f]
    BY <1>1, <1>2
  <2>2. m.type = "auth" /\ m.ok = token[e] /\ Len(<<m>>) = 1 /\ <<m>>[1] = m
    OBVIOUS
  <2> HIDE DEF m
  <2>3. QED
    BY <1>1, <1>2, <2>1, <2>2 DEF OwnMessages
<1>6. sessions' \in Seq(Ends)
  BY <1>1, AppendType DEF Inv, TypeOK
<1>7. TypeOK'
  BY <1>1, <1>4, <1>6 DEF Inv, TypeOK, Sent
<1>8. QED
  BY <1>1, <1>5, <1>7 DEF Inv, AuthenticatedHoldToken, HandledForHolders, NothingForStrangers

LEMMA ReceiveWelcomeKeeps ==
  ASSUME Inv, NEW c \in Clients, ReceiveWelcome(c) PROVE Inv'
<1>1. /\ toEnd[c] # <<>> /\ toEnd' = [toEnd EXCEPT ![c] = Tail(@)]
      /\ at' \in [Ends -> {"away", "joining", "rejected", "ready", "waiting", "over"}]
      /\ UNCHANGED <<Server, toServer, token, calls, approving, answer, troubled>>
  BY DEF ReceiveWelcome, AfterError, Inv, TypeOK
<1>2. c \in Ends
  BY DEF Ends
<1>3. toEnd' \in [Ends -> Seq(Received)] /\ QueuedForHolders'
  BY <1>1, <1>2, EndTakesKeeps
<1>4. TypeOK'
  BY <1>1, <1>3 DEF Inv, TypeOK, Server, Received
<1>5. QED
  BY <1>1, <1>3, <1>4 DEF Inv, Server, OwnMessages, AuthenticatedHoldToken,
        HandledForHolders, NothingForStrangers, QueuedForHolders

LEMMA CallKeeps ==
  ASSUME Inv, NEW c \in Clients, Call(c) PROVE Inv'
<1> DEFINE m == [type |-> "request", id |-> <<c, calls[c] + 1>>]
<1>1. /\ calls[c] < MaxCalls
      /\ calls' = [calls EXCEPT ![c] = @ + 1]
      /\ at' = [at EXCEPT ![c] = "waiting"]
      /\ answer' = [answer EXCEPT ![c] = Idle]
      /\ toServer' = [toServer EXCEPT ![c] = Append(@, m)]
      /\ UNCHANGED <<Server, toEnd, token, approving, troubled>>
  BY DEF Call
<1>2. c \in Ends /\ calls[c] \in 0 .. MaxCalls
  BY DEF Ends, Inv, TypeOK
<1>3. calls[c] + 1 \in 1 .. MaxCalls
  BY <1>1, <1>2, MaxCallsAssumption
<1>4. m \in Sent /\ m.type = "request" /\ m.id[1] = c
  BY <1>3 DEF Sent, Requests, Ids
<1>5. toServer' \in [Ends -> Seq(Sent)] /\ OwnMessages'
  <2> HIDE DEF m
  <2>1. QED
    BY <1>1, <1>2, <1>4, EndSendsKeeps
<1>6. calls' \in [Clients -> 0 .. MaxCalls]
  BY <1>1, <1>3 DEF Inv, TypeOK
<1>7. TypeOK'
  BY <1>1, <1>5, <1>6 DEF Inv, TypeOK, Server, Sent
<1>8. QED
  BY <1>1, <1>5, <1>7 DEF Inv, Server, AuthenticatedHoldToken, HandledForHolders,
        NothingForStrangers

LEMMA ReceiveReplyKeeps ==
  ASSUME Inv, NEW c \in Clients, ReceiveReply(c) PROVE Inv'
<1>1. /\ toEnd[c] # <<>> /\ toEnd' = [toEnd EXCEPT ![c] = Tail(@)]
      /\ at' = [at EXCEPT ![c] = "ready"]
      /\ UNCHANGED <<Server, toServer, token, calls, approving>>
  BY DEF ReceiveReply
<1>2. c \in Ends
  BY DEF Ends
<1>3. /\ toEnd' \in [Ends -> Seq(Received)] /\ QueuedForHolders'
      /\ Head(toEnd[c]) \in Received
  BY <1>1, <1>2, EndTakesKeeps
<1>4. answer' \in [Clients -> Received \union {Idle}] /\ troubled' \subseteq Clients
  BY <1>3 DEF ReceiveReply, Inv, TypeOK, Received
<1>5. TypeOK'
  BY <1>1, <1>3, <1>4 DEF Inv, TypeOK, Server, Received
<1>6. QED
  BY <1>1, <1>3, <1>5 DEF Inv, Server, OwnMessages, AuthenticatedHoldToken,
        HandledForHolders, NothingForStrangers, QueuedForHolders

LEMMA GiveUpKeeps ==
  ASSUME Inv, NEW c \in Clients, GiveUp(c) PROVE Inv'
<1>1. /\ at' \in [Ends -> {"away", "joining", "rejected", "ready", "waiting", "over"}]
      /\ troubled' = troubled \union {c}
      /\ UNCHANGED <<Server, queues, token, calls, approving, answer>>
  BY DEF GiveUp, AfterError, Inv, TypeOK
<1>2. TypeOK'
  BY <1>1 DEF Inv, TypeOK, Server, queues
<1>3. QED
  BY <1>1, <1>2 DEF Inv, Server, queues, OwnMessages, AuthenticatedHoldToken,
        HandledForHolders, NothingForStrangers

LEMMA PageReceivesKeeps ==
  ASSUME Inv, NEW p \in Pages, PageReceives(p) PROVE Inv'
<1> DEFINE m == Head(toEnd[p])
<1>1. /\ toEnd[p] # <<>> /\ toEnd' = [toEnd EXCEPT ![p] = Tail(@)]
      /\ approving' = [approving EXCEPT ![p] =
            IF m.type = "request" THEN @ \union {m.id} ELSE @]
      /\ UNCHANGED <<Server, toServer, token, at, calls, answer, troubled>>
  BY DEF PageReceives
<1>2. p \in Ends /\ approving \in [Pages -> SUBSET Ids]
  BY DEF Ends, Inv, TypeOK
<1>3. /\ toEnd' \in [Ends -> Seq(Received)] /\ QueuedForHolders'
      /\ m \in Received
      /\ m.type = "request" => token[m.id[1]]
  BY <1>1, <1>2, EndTakesKeeps
<1>4. m.type = "request" => m.id \in Ids
  BY <1>3, MessageTypes DEF Received, Requests
<1>5. approving' \in [Pages -> SUBSET Ids]
  BY <1>1, <1>2, <1>4
<1>6. ApprovedForHolders'
  <2>1. ApprovedForHolders
    BY DEF Inv, NothingForStrangers, ApprovedForHolders
  <2>2. \A q \in Pages : \A id \in approving'[q] :
            id \in approving[q] \/ (id = m.id /\ m.type = "request")
    BY <1>1, <1>2
  <2>3. QED
    BY <1>1, <1>3, <2>1, <2>2 DEF ApprovedForHolders
<1>7. TypeOK'
  BY <1>1, <1>3, <1>5 DEF Inv, TypeOK, Server, Received
<1>8. NothingForStrangers'
  BY <1>3, <1>6 DEF NothingForStrangers, ApprovedForHolders, QueuedForHolders
<1>9. QED
  BY <1>1, <1>7, <1>8 DEF Inv, Server, OwnMessages, AuthenticatedHoldToken, HandledForHolders

LEMMA PageRespondsKeeps ==
  ASSUME Inv, NEW p \in Pages, PageResponds(p) PROVE Inv'
<1>1. PICK id \in approving[p], failed \in BOOLEAN :
        /\ approving' = [approving EXCEPT ![p] = @ \ {id}]
        /\ toServer' = [toServer EXCEPT ![p] =
                Append(@, [type |-> "reply", id |-> id, error |-> failed])]
        /\ UNCHANGED <<Server, toEnd, token, at, calls, answer, troubled>>
  BY DEF PageResponds
<1> DEFINE m == [type |-> "reply", id |-> id, error |-> failed]
<1>2. p \in Ends /\ approving \in [Pages -> SUBSET Ids]
  BY DEF Ends, Inv, TypeOK
<1>3. m \in Sent /\ m.type = "reply"
  BY <1>2 DEF Sent, Replies
<1>4. toServer' \in [Ends -> Seq(Sent)] /\ OwnMessages'
  <2> HIDE DEF m
  <2>1. toServer' = [toServer EXCEPT ![p] = Append(@, m)] /\ token' = token
    BY <1>1 DEF m
  <2>2. QED
    BY <1>2, <1>3, <2>1, EndSendsKeeps
<1>5. approving' \in [Pages -> SUBSET Ids] /\ \A q \in Pages : approving'[q] \subseteq approving[q]
  BY <1>1, <1>2
<1>6. TypeOK'
  BY <1>1, <1>4, <1>5 DEF Inv, TypeOK, Server, Sent
<1>7. QED
  BY <1>1, <1>4, <1>5, <1>6 DEF Inv, Server, AuthenticatedHoldToken, HandledForHolders,
        NothingForStrangers

LEMMA CloseKeeps ==
  ASSUME Inv, NEW e \in Ends, Close(e) PROVE Inv'
<1>1. /\ at' = [at EXCEPT ![e] = "over"]
      /\ open' = open \ {e}
      /\ toEnd' = [toEnd EXCEPT ![e] = <<>>]
      /\ approving' = [p \in Pages |-> IF p = e THEN {} ELSE approving[p]]
      /\ UNCHANGED <<sessions, authenticated, handler, toServer, token, calls, answer, troubled>>
  BY DEF Close
<1>2. toEnd \in [Ends -> Seq(Received)] /\ QueuedForHolders /\ ApprovedForHolders
  BY DEF Inv, TypeOK, Received, NothingForStrangers, QueuedForHolders, ApprovedForHolders
<1>3. toEnd' \in [Ends -> Seq(Received)]
  BY <1>1, <1>2
<1>4. \A f \in Ends : toEnd'[f] = IF f = e THEN <<>> ELSE toEnd[f]
  BY <1>1, <1>2
<1>5. QueuedForHolders'
  BY <1>1, <1>2, <1>4 DEF QueuedForHolders
<1>6. approving' \in [Pages -> SUBSET Ids]
  BY <1>1 DEF Inv, TypeOK
<1>7. ApprovedForHolders'
  BY <1>1, <1>2 DEF ApprovedForHolders
<1>8. TypeOK'
  BY <1>1, <1>3, <1>6 DEF Inv, TypeOK, Received
<1>9. NothingForStrangers'
  BY <1>5, <1>7 DEF NothingForStrangers, ApprovedForHolders, QueuedForHolders
<1>10. QED
  BY <1>1, <1>8, <1>9 DEF Inv, OwnMessages, AuthenticatedHoldToken, HandledForHolders

----------------------------------------------------------------------------

LEMMA InvStep == Inv /\ [Next]_vars => Inv'
<1> SUFFICES ASSUME Inv, [Next]_vars PROVE Inv'
  OBVIOUS
<1>1. CASE \E e \in Ends : Serve(e)
  BY <1>1, AuthenticateKeeps, RejectKeeps, RefuseRequestKeeps, RelayKeeps,
     RelayTimesOutKeeps, ForgetKeeps DEF Serve
<1>2. CASE \E e \in Ends : Join(e) \/ Close(e)
  BY <1>2, JoinKeeps, CloseKeeps
<1>3. CASE \E c \in Clients : ClientStep(c) \/ Call(c)
  BY <1>3, ReceiveWelcomeKeeps, ReceiveReplyKeeps, GiveUpKeeps, CallKeeps DEF ClientStep
<1>4. CASE \E p \in Pages : PageReceives(p) \/ PageResponds(p)
  BY <1>4, PageReceivesKeeps, PageRespondsKeeps
<1>5. CASE UNCHANGED vars
  BY <1>5 DEF vars, Inv, TypeOK, OwnMessages, AuthenticatedHoldToken,
              HandledForHolders, NothingForStrangers
<1>6. QED
  BY <1>1, <1>2, <1>3, <1>4, <1>5 DEF Next

\* The state of the relay and of its ends is well formed whatever messages
\* cross (bridge.py:203-286); a busy handler belongs to an authenticated session.
THEOREM BridgeTyped == Spec => []TypeOK
<1>1. Inv => TypeOK
  BY DEF Inv
<1>2. QED
  BY <1>1, InvInit, InvStep, PTL DEF Spec

\* However many clients, programs and pages there are, nothing is relayed, and
\* no user is asked, for a client without the token (bridge.py:232-245).
THEOREM StrangersGetNothing == Spec => []NothingForStrangers
<1>1. Inv => NothingForStrangers
  BY DEF Inv
<1>2. QED
  BY <1>1, InvInit, InvStep, PTL DEF Spec

----------------------------------------------------------------------------
(* Whose answer a client reads.  The relay registers an end once, and      *)
(* touches nothing of one that has not come.                               *)

Registered(e) == \E i \in 1 .. Len(sessions) : sessions[i] = e

SessionsOnce ==
    \A i, j \in 1 .. Len(sessions) : sessions[i] = sessions[j] => i = j

AwayIsQuiet ==
    \A e \in Ends : at[e] = "away" =>
        /\ ~Registered(e) /\ e \notin open /\ ~handler[e].busy
        /\ toServer[e] = <<>> /\ toEnd[e] = <<>>
        /\ e \in Pages => approving[e] = {}

Base ==
    /\ SessionsOnce
    /\ AwayIsQuiet

(* The sessions. *)

LEMMA OthersOnce ==
  ASSUME TypeOK, SessionsOnce, NEW e
  PROVE  /\ \A i, j \in 1 .. Len(Others(e)) : Others(e)[i] = Others(e)[j] => i = j
         /\ \A i \in 1 .. Len(Others(e)) : Others(e)[i] # e /\ Registered(Others(e)[i])
<1> DEFINE Places == {i \in 1 .. Len(sessions) : sessions[i] = e}
           place == CHOOSE i \in Places : TRUE
           n == Len(sessions)
<1>1. sessions \in Seq(Ends) /\ n \in Nat
  BY DEF TypeOK
<1>2. CASE Places = {}
  <2>1. Others(e) = sessions
    BY <1>2 DEF Others
  <2>2. \A i \in 1 .. Len(sessions) : sessions[i] # e
    BY <1>2
  <2>3. QED
    BY <2>1, <2>2 DEF SessionsOnce, Registered
<1>3. CASE Places # {}
  <2>1. place \in 1 .. n /\ sessions[place] = e
    BY <1>3
  <2>2. Others(e) = SubSeq(sessions, 1, place - 1) \o SubSeq(sessions, place + 1, n)
    BY <1>3 DEF Others
  <2> HIDE DEF place, Places
  <2>3. /\ Len(Others(e)) = n - 1
        /\ \A i \in 1 .. n - 1 :
             Others(e)[i] = IF i < place THEN sessions[i] ELSE sessions[i + 1]
    <3> DEFINE u == SubSeq(sessions, 1, place - 1)
               v == SubSeq(sessions, place + 1, n)
    <3>1. place \in Nat /\ 1 <= place /\ place <= n
      BY <1>1, <2>1
    <3>2. /\ u \in Seq(Ends) /\ Len(u) = place - 1
          /\ \A i \in 1 .. place - 1 : u[i] = sessions[i]
      BY <1>1, <3>1
    <3>3. /\ v \in Seq(Ends) /\ Len(v) = n - place
          /\ \A i \in 1 .. n - place : v[i] = sessions[place + i]
      BY <1>1, <3>1
    <3> HIDE DEF u, v, n
    <3>4. /\ Len(u \o v) = Len(u) + Len(v)
          /\ \A i \in 1 .. Len(u) + Len(v) :
               (u \o v)[i] = IF i <= Len(u) THEN u[i] ELSE v[i - Len(u)]
      BY <3>2, <3>3
    <3>5. Len(u \o v) = n - 1
      BY <1>1, <3>1, <3>2, <3>3, <3>4
    <3>6. ASSUME NEW i \in 1 .. n - 1
          PROVE  (u \o v)[i] = IF i < place THEN sessions[i] ELSE sessions[i + 1]
      <4>1. CASE i < place
        <5>1. i \in 1 .. place - 1 /\ i <= Len(u) /\ i \in 1 .. Len(u) + Len(v)
          BY <1>1, <3>1, <3>2, <3>3, <4>1
        <5>2. QED
          BY <3>2, <3>4, <4>1, <5>1
      <4>2. CASE ~(i < place)
        <5>1. /\ i - Len(u) \in 1 .. n - place /\ ~(i <= Len(u))
              /\ i \in 1 .. Len(u) + Len(v) /\ place + (i - Len(u)) = i + 1
          BY <1>1, <3>1, <3>2, <3>3, <4>2
        <5>2. QED
          BY <3>3, <3>4, <4>2, <5>1
      <4>3. QED
        BY <4>1, <4>2
    <3>7. Others(e) = u \o v
      BY <2>2 DEF u, v
    <3>8. QED
      BY <3>5, <3>6, <3>7
  <2>4. \A i, j \in 1 .. n : sessions[i] = sessions[j] => i = j
    BY DEF SessionsOnce
  <2> HIDE DEF n
  <2>5. ASSUME NEW i \in 1 .. n - 1, NEW j \in 1 .. n - 1, Others(e)[i] = Others(e)[j]
        PROVE  i = j
    <3>1. i \in 1 .. n /\ i + 1 \in 1 .. n /\ j \in 1 .. n /\ j + 1 \in 1 .. n
      BY <1>1
    <3>2. QED
      BY <1>1, <2>1, <2>3, <2>4, <2>5, <3>1
  <2>6. ASSUME NEW i \in 1 .. n - 1
        PROVE  Others(e)[i] # e /\ Registered(Others(e)[i])
    <3>1. i \in 1 .. n /\ i + 1 \in 1 .. n
      BY <1>1
    <3>2. Others(e)[i] # e
      BY <1>1, <2>1, <2>3, <2>4, <3>1
    <3>3. \E k \in 1 .. n : sessions[k] = Others(e)[i]
      BY <1>1, <2>1, <2>3, <3>1
    <3>4. QED
      BY <3>2, <3>3 DEF Registered, n
  <2>7. QED
    BY <2>3, <2>5, <2>6 DEF n
<1>4. QED
  BY <1>2, <1>3

\* What the removal of an end leaves of the others.
LEMMA Popped ==
  ASSUME TypeOK, SessionsOnce, NEW e \in Ends, sessions' = Others(e)
  PROVE  /\ SessionsOnce'
         /\ \A f \in Ends : Registered(f)' => Registered(f)
<1>1. SessionsOnce'
  BY OthersOnce DEF SessionsOnce
<1>2. ASSUME NEW f \in Ends, Registered(f)' PROVE Registered(f)
  BY <1>2, OthersOnce DEF Registered
<1>3. QED
  BY <1>1, <1>2

----------------------------------------------------------------------------
(* What the two ends of a queue do to it. *)

LEMMA TakesEffect ==
  ASSUME Inv, NEW e \in Ends, Takes(e)
  PROVE  /\ ~handler[e].busy /\ toServer[e] # <<>>
         /\ \A f \in Ends \ {e} : toServer'[f] = toServer[f]
         /\ Len(toServer[e]) \in Nat
         /\ Len(toServer'[e]) = Len(toServer[e]) - 1
         /\ \A i \in 1 .. Len(toServer'[e]) :
              i + 1 \in 1 .. Len(toServer[e]) /\ toServer'[e][i] = toServer[e][i + 1]
         /\ 1 \in 1 .. Len(toServer[e]) /\ Head(toServer[e]) = toServer[e][1]
         /\ Head(toServer[e]) \in Sent
<1>1. toServer \in [Ends -> Seq(Sent)]
  BY DEF Inv, TypeOK, Sent
<1>2. /\ ~handler[e].busy /\ toServer[e] \in Seq(Sent) /\ toServer[e] # <<>>
      /\ toServer' = [toServer EXCEPT ![e] = Tail(@)]
  BY <1>1 DEF Takes
<1>3. toServer'[e] = Tail(toServer[e]) /\ \A f \in Ends \ {e} : toServer'[f] = toServer[f]
  BY <1>1, <1>2
<1>4. Len(toServer[e]) \in Nat
  BY <1>2
<1>5. /\ Head(toServer[e]) \in Sent
      /\ Len(Tail(toServer[e])) = Len(toServer[e]) - 1
      /\ \A i \in 1 .. Len(Tail(toServer[e])) :
           i + 1 \in 1 .. Len(toServer[e]) /\ Tail(toServer[e])[i] = toServer[e][i + 1]
      /\ 1 \in 1 .. Len(toServer[e]) /\ Head(toServer[e]) = toServer[e][1]
  BY <1>2, TailType
<1>6. QED
  BY <1>2, <1>3, <1>4, <1>5

LEMMA SendsEffect ==
  ASSUME Inv, NEW e, NEW m \in Received, Sends(e, m)
  PROVE  /\ \A f \in Ends : f # e \/ f \notin open => toEnd'[f] = toEnd[f]
         /\ \A f \in Ends : Len(toEnd[f]) \in Nat
         /\ e \in Ends /\ e \in open =>
              /\ Len(toEnd'[e]) = Len(toEnd[e]) + 1
              /\ \A i \in 1 .. Len(toEnd'[e]) :
                   \/ i \in 1 .. Len(toEnd[e]) /\ toEnd'[e][i] = toEnd[e][i]
                   \/ i = Len(toEnd[e]) + 1 /\ toEnd'[e][i] = m
<1>1. toEnd \in [Ends -> Seq(Received)]
  BY DEF Inv, TypeOK, Received
<1>2. \A f \in Ends : Len(toEnd[f]) \in Nat
  BY <1>1
<1>3. CASE e \notin Ends \/ e \notin open
  <2>1. toEnd' = toEnd
    BY <1>1, <1>3 DEF Sends
  <2>2. QED
    BY <1>2, <1>3, <2>1
<1>4. CASE e \in Ends /\ e \in open
  <2>1. toEnd' = [toEnd EXCEPT ![e] = Append(toEnd[e], m)] /\ toEnd[e] \in Seq(Received)
    BY <1>1, <1>4 DEF Sends
  <2>2. toEnd'[e] = Append(toEnd[e], m) /\ \A f \in Ends \ {e} : toEnd'[f] = toEnd[f]
    BY <1>1, <1>4, <2>1
  <2>3. QED
    BY <1>2, <1>4, <2>1, <2>2, AppendType
<1>5. QED
  BY <1>3, <1>4

\* The client's or the page's side of a queue.
LEMMA EndTakesEffect ==
  ASSUME Inv, NEW e \in Ends, toEnd[e] # <<>>, toEnd' = [toEnd EXCEPT ![e] = Tail(@)]
  PROVE  /\ \A f \in Ends \ {e} : toEnd'[f] = toEnd[f]
         /\ Len(toEnd[e]) \in Nat
         /\ Len(toEnd'[e]) = Len(toEnd[e]) - 1
         /\ \A i \in 1 .. Len(toEnd'[e]) :
              i + 1 \in 1 .. Len(toEnd[e]) /\ toEnd'[e][i] = toEnd[e][i + 1]
         /\ 1 \in 1 .. Len(toEnd[e]) /\ Head(toEnd[e]) = toEnd[e][1]
         /\ Head(toEnd[e]) \in Received
<1>1. toEnd \in [Ends -> Seq(Received)]
  BY DEF Inv, TypeOK, Received
<1>2. toEnd'[e] = Tail(toEnd[e]) /\ \A f \in Ends \ {e} : toEnd'[f] = toEnd[f]
  BY <1>1
<1>3. toEnd[e] \in Seq(Received) /\ Len(toEnd[e]) \in Nat
  BY <1>1
<1>4. /\ Head(toEnd[e]) \in Received
      /\ Len(Tail(toEnd[e])) = Len(toEnd[e]) - 1
      /\ \A i \in 1 .. Len(Tail(toEnd[e])) :
           i + 1 \in 1 .. Len(toEnd[e]) /\ Tail(toEnd[e])[i] = toEnd[e][i + 1]
      /\ 1 \in 1 .. Len(toEnd[e]) /\ Head(toEnd[e]) = toEnd[e][1]
  BY <1>3, TailType
<1>5. QED
  BY <1>2, <1>3, <1>4, <1>4

LEMMA EndSendsEffect ==
  ASSUME Inv, NEW e \in Ends, NEW m \in Sent, toServer' = [toServer EXCEPT ![e] = Append(@, m)]
  PROVE  /\ \A f \in Ends \ {e} : toServer'[f] = toServer[f]
         /\ Len(toServer[e]) \in Nat
         /\ Len(toServer'[e]) = Len(toServer[e]) + 1
         /\ \A i \in 1 .. Len(toServer'[e]) :
              \/ i \in 1 .. Len(toServer[e]) /\ toServer'[e][i] = toServer[e][i]
              \/ i = Len(toServer[e]) + 1 /\ toServer'[e][i] = m
<1>1. toServer \in [Ends -> Seq(Sent)]
  BY DEF Inv, TypeOK, Sent
<1>2. /\ toServer'[e] = Append(toServer[e], m)
      /\ \A f \in Ends \ {e} : toServer'[f] = toServer[f]
  BY <1>1
<1>3. toServer[e] \in Seq(Sent) /\ Len(toServer[e]) \in Nat
  BY <1>1
<1>4. QED
  BY <1>2, <1>3, AppendType

----------------------------------------------------------------------------
(* Base is kept. *)

LEMMA BaseInit == Init => Base
<1> SUFFICES ASSUME Init PROVE Base
  OBVIOUS
<1>1. sessions = <<>> /\ authenticated = {} /\ open = {}
      /\ (\A e \in Ends : ~handler[e].busy /\ toServer[e] = <<>> /\ toEnd[e] = <<>>)
      /\ (\A p \in Pages : approving[p] = {})
  BY DEF Init, Idle
<1>2. QED
  BY <1>1 DEF Base, SessionsOnce, AwayIsQuiet, Registered

\* A step of the server for an end that has come leaves the others alone.
LEMMA ServeBase ==
  ASSUME Inv, Base, NEW e \in Ends, UNCHANGED ends,
         Takes(e) \/ (handler[e].busy /\ toServer' = toServer),
         \A f \in Ends \ {e} : handler'[f] = handler[f],
         \A f \in Ends : f \notin open => toEnd'[f] = toEnd[f],
         open' \subseteq open, SessionsOnce',
         \A f \in Ends : Registered(f)' => Registered(f)
  PROVE  Base'
<1>1. /\ at[e] # "away" /\ at' = at /\ approving' = approving
      /\ \A f \in Ends \ {e} : toServer'[f] = toServer[f]
  BY TakesEffect DEF Base, AwayIsQuiet, ends
<1>2. ASSUME NEW f \in Ends, at'[f] = "away"
      PROVE  /\ ~Registered(f)' /\ f \notin open' /\ ~handler'[f].busy
             /\ toServer'[f] = <<>> /\ toEnd'[f] = <<>>
             /\ f \in Pages => approving'[f] = {}
  <2>1. f # e /\ at[f] = "away"
    BY <1>1, <1>2
  <2>2. QED
    BY <1>1, <2>1 DEF Base, AwayIsQuiet
<1>3. QED
  BY <1>2 DEF Base, AwayIsQuiet

LEMMA AuthenticateBase ==
  ASSUME Inv, Base, NEW e \in Ends, Authenticate(e) PROVE Base'
<1>1. /\ Takes(e) /\ Sends(e, Welcome)
      /\ UNCHANGED <<sessions, handler, open, ends>>
  BY DEF Authenticate
<1>2. Welcome \in Received
  BY DEF Welcome, Received, Messages, Auths
<1>3. \A f \in Ends : f \notin open => toEnd'[f] = toEnd[f]
  BY <1>1, <1>2, SendsEffect
<1>4. QED
  BY <1>1, <1>3, ServeBase DEF Base, Registered, SessionsOnce

LEMMA RejectBase ==
  ASSUME Inv, Base, NEW e \in Ends, Reject(e) PROVE Base'
<1>1. /\ Takes(e)
      /\ Sends(e, ErrorReply(NoId)) /\ open' = open \ {e}
      /\ sessions' = Others(e) \/ sessions' = sessions
      /\ UNCHANGED <<handler, ends>>
  BY DEF Reject
<1>2. \A f \in Ends : f \notin open => toEnd'[f] = toEnd[f]
  BY <1>1, ErrorReplyType, SendsEffect
<1>3. SessionsOnce' /\ \A f \in Ends : Registered(f)' => Registered(f)
  <2>1. TypeOK /\ SessionsOnce
    BY DEF Inv, Base
  <2>2. CASE sessions' = Others(e)
    BY <2>1, <2>2, Popped
  <2>3. CASE sessions' = sessions
    BY <2>1, <2>3 DEF SessionsOnce, Registered
  <2>4. QED
    BY <1>1, <2>2, <2>3
<1>4. QED
  BY <1>1, <1>2, <1>3, ServeBase

\* A relayed message goes to ends whose connection is open.
LEMMA TryNextEffect ==
  ASSUME Inv, NEW e \in Ends, NEW m \in Requests \union Replies, NEW left \in Seq(Ends),
         TryNext(e, m, left)
  PROVE  /\ \A f \in Ends \ {e} : handler'[f] = handler[f]
         /\ \A f \in Ends : f \notin open => toEnd'[f] = toEnd[f]
<1>1. handler \in [Ends -> Handlers]
  BY DEF Inv, TypeOK
<1>2. \A f \in Ends \ {e} : handler'[f] = handler[f]
  BY <1>1 DEF TryNext
<1>3. m \in Received /\ ErrorReply(m.id) \in Received
  <2>1. m.id \in Ids \union {NoId}
    BY DEF Requests, Replies
  <2>2. m \in Received
    BY DEF Received, Messages, Requests, Replies, Auths
  <2>3. QED
    BY <2>1, <2>2, ErrorReplyType
<1>4. Sends(e, ErrorReply(m.id)) \/ Sends(Head(left), m)
  BY DEF TryNext
<1>5. \A f \in Ends : f \notin open => toEnd'[f] = toEnd[f]
  BY <1>3, <1>4, SendsEffect
<1>6. QED
  BY <1>2, <1>5

LEMMA RefuseRequestBase ==
  ASSUME Inv, Base, NEW e \in Ends, RefuseRequest(e) PROVE Base'
<1> DEFINE m == Head(toServer[e])
<1>1. /\ Takes(e) /\ m.type # "auth" /\ Sends(e, ErrorReply(m.id))
      /\ UNCHANGED <<sessions, authenticated, handler, open, ends>>
  BY DEF RefuseRequest
<1>2. ErrorReply(m.id) \in Received
  <2>1. m \in Sent
    BY <1>1, TakesEffect
  <2>2. m.id \in Ids \union {NoId}
    BY <1>1, <2>1 DEF Sent, Auths, Requests, Replies
  <2>3. QED
    BY <2>2, ErrorReplyType
<1>3. \A f \in Ends : f \notin open => toEnd'[f] = toEnd[f]
  BY <1>1, <1>2, SendsEffect
<1>4. QED
  BY <1>1, <1>3, ServeBase DEF Base, Registered, SessionsOnce

LEMMA RelayBase ==
  ASSUME Inv, Base, NEW e \in Ends, Relay(e) PROVE Base'
<1> DEFINE m == Head(toServer[e])
<1>1. /\ Takes(e) /\ m.type # "auth" /\ TryNext(e, m, Others(e))
      /\ UNCHANGED <<sessions, authenticated, open, ends>>
  BY DEF Relay
<1>2. m \in Requests \union Replies
  <2>1. m \in Sent
    BY <1>1, TakesEffect
  <2>2. QED
    BY <1>1, <2>1 DEF Sent, Auths
<1>3. Others(e) \in Seq(Ends)
  BY OthersType DEF Inv
<1>4. /\ \A f \in Ends \ {e} : handler'[f] = handler[f]
      /\ \A f \in Ends : f \notin open => toEnd'[f] = toEnd[f]
  BY <1>1, <1>2, <1>3, TryNextEffect
<1>5. QED
  BY <1>1, <1>4, ServeBase DEF Base, Registered, SessionsOnce

\* What a busy handler holds.
LEMMA HandlerType ==
  ASSUME Inv, NEW e \in Ends, handler[e].busy
  PROVE  handler[e].msg \in Requests \union Replies /\ handler[e].left \in Seq(Ends)
<1>1. handler[e] \in Handlers /\ handler[e] # Idle
  BY DEF Inv, TypeOK, Idle
<1>2. handler[e] \in [busy : {TRUE}, msg : Requests \union Replies, left : Seq(Ends)]
  BY <1>1 DEF Handlers
<1>3. QED
  BY <1>2

LEMMA RelayTimesOutBase ==
  ASSUME Inv, Base, NEW e \in Ends, RelayTimesOut(e) PROVE Base'
<1>1. /\ handler[e].busy /\ TryNext(e, handler[e].msg, handler[e].left)
      /\ UNCHANGED <<sessions, authenticated, open, toServer, ends>>
  BY DEF RelayTimesOut
<1>2. /\ \A f \in Ends \ {e} : handler'[f] = handler[f]
      /\ \A f \in Ends : f \notin open => toEnd'[f] = toEnd[f]
  BY <1>1, HandlerType, TryNextEffect
<1>3. QED
  BY <1>1, <1>2, ServeBase DEF Base, Registered, SessionsOnce

LEMMA ForgetBase ==
  ASSUME Inv, Base, NEW e \in Ends, Forget(e) PROVE Base'
<1>1. sessions' = Others(e) /\ UNCHANGED <<handler, open, queues, ends>>
  BY DEF Forget
<1>2. SessionsOnce' /\ \A f \in Ends : Registered(f)' => Registered(f)
  BY <1>1, Popped DEF Inv, Base
<1>3. AwayIsQuiet'
  BY <1>1, <1>2 DEF Base, AwayIsQuiet, queues, ends
<1>4. QED
  BY <1>2, <1>3 DEF Base

LEMMA JoinBase ==
  ASSUME Inv, Base, NEW e \in Ends, Join(e) PROVE Base'
<1> DEFINE m == [type |-> "auth", ok |-> token[e]]
<1>1. /\ at[e] = "away"
      /\ at' = [at EXCEPT ![e] = IF e \in Clients THEN "joining" ELSE "ready"]
      /\ open' = open \union {e}
      /\ sessions' = Append(sessions, e)
      /\ toServer' = [toServer EXCEPT ![e] = <<m>>]
      /\ UNCHANGED <<authenticated, handler, toEnd, approving>>
  BY DEF Join
<1>2. ~Registered(e)
  BY <1>1 DEF Base, AwayIsQuiet
<1>3. /\ Len(sessions) \in Nat
      /\ Len(sessions') = Len(sessions) + 1
      /\ \A i \in 1 .. Len(sessions') :
           \/ i \in 1 .. Len(sessions) /\ sessions'[i] = sessions[i]
           \/ i = Len(sessions) + 1 /\ sessions'[i] = e
      /\ \A i \in 1 .. Len(sessions) : i \in 1 .. Len(sessions') /\ sessions'[i] = sessions[i]
      /\ Len(sessions') \in 1 .. Len(sessions') /\ sessions'[Len(sessions')] = e
  <2>1. sessions \in Seq(Ends)
    BY DEF Inv, TypeOK
  <2>2. QED
    BY <1>1, <2>1
<1>4. \A f : Registered(f)' <=> Registered(f) \/ f = e
  BY <1>3 DEF Registered
<1>5. SessionsOnce'
  <2> SUFFICES ASSUME NEW i \in 1 .. Len(sessions'), NEW j \in 1 .. Len(sessions'),
                      sessions'[i] = sessions'[j]
               PROVE  i = j
    BY DEF SessionsOnce
  <2>1. \A k \in 1 .. Len(sessions) : sessions[k] # e
    BY <1>2 DEF Registered
  <2>2. \A k, l \in 1 .. Len(sessions) : sessions[k] = sessions[l] => k = l
    BY DEF Base, SessionsOnce
  <2>3. QED
    BY <1>3, <2>1, <2>2
<1>6. /\ \A f \in Ends : f # e => at'[f] = at[f] /\ toServer'[f] = toServer[f]
      /\ at'[e] # "away" /\ toServer'[e] = <<m>>
  BY <1>1 DEF Inv, TypeOK
<1>7. AwayIsQuiet'
  BY <1>1, <1>4, <1>6 DEF Base, AwayIsQuiet
<1>8. QED
  BY <1>5, <1>7 DEF Base

\* Steps of the ends that send nothing.
LEMMA SilentBase ==
  ASSUME Inv, Base, UNCHANGED <<sessions, authenticated, handler, toServer>>,
         open' \subseteq open,
         \A f \in Ends : at'[f] = "away" =>
            at[f] = "away" /\ toEnd'[f] = toEnd[f] /\ (f \in Pages => approving'[f] = approving[f])
  PROVE  Base'
<1>1. \A f : Registered(f)' <=> Registered(f)
  BY DEF Registered
<1>2. SessionsOnce'
  BY <1>1 DEF Base, SessionsOnce
<1>3. AwayIsQuiet'
  BY <1>1 DEF Base, AwayIsQuiet
<1>4. QED
  BY <1>2, <1>3 DEF Base

\* Steps of the ends that send something but auth.
LEMMA SayingBase ==
  ASSUME Inv, Base, NEW e \in Ends, NEW m \in Sent, m.type # "auth", at[e] # "away",
         UNCHANGED <<Server, toEnd>>,
         toServer' = [toServer EXCEPT ![e] = Append(@, m)],
         \A f \in Ends : at'[f] = "away" => at[f] = "away",
         \A p \in Pages \ {e} : approving'[p] = approving[p]
  PROVE  Base'
<1>1. \A f : Registered(f)' <=> Registered(f)
  BY DEF Registered, Server
<1>2. SessionsOnce'
  BY <1>1 DEF Base, SessionsOnce, Server
<1>3. AwayIsQuiet'
  <2>1. \A f \in Ends \ {e} : toServer'[f] = toServer[f]
    BY EndSendsEffect
  <2> SUFFICES ASSUME NEW f \in Ends, at'[f] = "away"
               PROVE  /\ ~Registered(f)' /\ f \notin open' /\ ~handler'[f].busy
                      /\ toServer'[f] = <<>> /\ toEnd'[f] = <<>>
                      /\ f \in Pages => approving'[f] = {}
    BY DEF AwayIsQuiet
  <2>2. at[f] = "away" /\ f # e
    BY at[e] # "away"
  <2>3. QED
    BY <1>1, <2>1, <2>2 DEF Base, AwayIsQuiet, Server
<1>4. QED
  BY <1>2, <1>3 DEF Base

LEMMA ClientBase ==
  ASSUME Inv, Base, NEW c \in Clients, ClientStep(c) \/ Call(c) PROVE Base'
<1>1. c \in Ends /\ at \in [Ends -> {"away", "joining", "rejected", "ready", "waiting", "over"}]
  BY DEF Ends, Inv, TypeOK
<1>2. CASE ReceiveWelcome(c) \/ ReceiveReply(c) \/ GiveUp(c)
  <2>1. /\ UNCHANGED <<sessions, authenticated, handler, toServer, open, approving>>
        /\ at[c] # "away" /\ at'[c] # "away"
        /\ \A f \in Ends \ {c} : at'[f] = at[f] /\ toEnd'[f] = toEnd[f]
    <3>1. toEnd \in [Ends -> Seq(Received)]
      BY DEF Inv, TypeOK, Received
    <3>2. QED
      BY <1>1, <1>2, <3>1 DEF ReceiveWelcome, ReceiveReply, GiveUp, AfterError, Waiting, Server, queues
  <2>2. QED
    BY <2>1, SilentBase
<1>3. CASE Call(c)
  <2> DEFINE m == [type |-> "request", id |-> <<c, calls[c] + 1>>]
  <2>1. /\ at[c] = "ready" /\ at' = [at EXCEPT ![c] = "waiting"] /\ calls[c] < MaxCalls
        /\ UNCHANGED <<Server, toEnd, approving>>
        /\ toServer' = [toServer EXCEPT ![c] = Append(@, m)]
    BY <1>3 DEF Call
  <2>2. m \in Sent /\ m.type # "auth"
    <3>1. calls[c] + 1 \in 1 .. MaxCalls
      BY <2>1, MaxCallsAssumption DEF Inv, TypeOK
    <3>2. QED
      BY <3>1 DEF Sent, Requests, Ids
  <2>3. \A f \in Ends : at'[f] = "away" => at[f] = "away"
    BY <1>1, <2>1
  <2> HIDE DEF m
  <2>4. QED
    BY <1>1, <2>1, <2>2, <2>3, SayingBase
<1>4. QED
  BY <1>2, <1>3 DEF ClientStep

LEMMA PageBase ==
  ASSUME Inv, Base, NEW p \in Pages, PageReceives(p) \/ PageResponds(p) PROVE Base'
<1>1. p \in Ends /\ approving \in [Pages -> SUBSET Ids] /\ toEnd \in [Ends -> Seq(Received)]
  BY DEF Ends, Inv, TypeOK, Received
<1>2. CASE PageReceives(p)
  <2>1. /\ UNCHANGED <<sessions, authenticated, handler, toServer, open, at>>
        /\ toEnd[p] # <<>>
        /\ \A q \in Pages \ {p} : approving'[q] = approving[q]
        /\ \A f \in Ends \ {p} : toEnd'[f] = toEnd[f]
    BY <1>1, <1>2 DEF PageReceives, Server
  <2>2. at[p] # "away"
    BY <1>1, <2>1 DEF Base, AwayIsQuiet
  <2>3. QED
    BY <2>1, <2>2, SilentBase
<1>3. CASE PageResponds(p)
  <2>1. PICK id \in approving[p], failed \in BOOLEAN :
          /\ approving' = [approving EXCEPT ![p] = @ \ {id}]
          /\ toServer' = [toServer EXCEPT ![p] =
                  Append(@, [type |-> "reply", id |-> id, error |-> failed])]
          /\ p \in open
          /\ UNCHANGED <<Server, toEnd, at>>
    BY <1>3 DEF PageResponds
  <2> DEFINE m == [type |-> "reply", id |-> id, error |-> failed]
  <2>2. m \in Sent /\ m.type # "auth"
    BY <1>1 DEF Sent, Replies
  <2>3. at[p] # "away"
    BY <1>1, <2>1 DEF Base, AwayIsQuiet
  <2>4. \A q \in Pages \ {p} : approving'[q] = approving[q]
    BY <1>1, <2>1
  <2>5. toServer' = [toServer EXCEPT ![p] = Append(@, m)]
    BY <2>1
  <2> HIDE DEF m
  <2>6. QED
    BY <1>1, <2>1, <2>2, <2>3, <2>4, <2>5, SayingBase
<1>4. QED
  BY <1>2, <1>3

LEMMA CloseBase ==
  ASSUME Inv, Base, NEW e \in Ends, Close(e) PROVE Base'
<1>1. /\ UNCHANGED <<sessions, authenticated, handler, toServer>>
      /\ open' \subseteq open
      /\ at' = [at EXCEPT ![e] = "over"]
      /\ toEnd' = [toEnd EXCEPT ![e] = <<>>]
      /\ \A p \in Pages \ {e} : approving'[p] = approving[p]
  BY DEF Close
<1>2. \A f \in Ends : at'[f] = "away" => f # e /\ at[f] = "away" /\ toEnd'[f] = toEnd[f]
  BY <1>1 DEF Inv, TypeOK
<1>3. QED
  BY <1>1, <1>2, SilentBase

LEMMA BaseStep == Inv /\ Base /\ [Next]_vars => Base'
<1> SUFFICES ASSUME Inv, Base, [Next]_vars PROVE Base'
  OBVIOUS
<1>1. CASE \E e \in Ends : Serve(e)
  BY <1>1, AuthenticateBase, RejectBase, RefuseRequestBase, RelayBase,
     RelayTimesOutBase, ForgetBase DEF Serve
<1>2. CASE \E e \in Ends : Join(e) \/ Close(e)
  BY <1>2, JoinBase, CloseBase
<1>3. CASE \E c \in Clients : ClientStep(c) \/ Call(c)
  BY <1>3, ClientBase
<1>4. CASE \E p \in Pages : PageReceives(p) \/ PageResponds(p)
  BY <1>4, PageBase
<1>5. CASE UNCHANGED vars
  BY <1>5 DEF vars, Base, SessionsOnce, AwayIsQuiet, Registered
<1>6. QED
  BY <1>1, <1>2, <1>3, <1>4, <1>5 DEF Next

----------------------------------------------------------------------------
(* The calls of a client. *)

\* The current call of a client is in one place at a time: on its way to the
\* server, on its way to a page, before its user, on its way back, or read by
\* the server and on its way to the client.
Stages == {"none", "asked", "carried", "considered", "answered", "told"}

AtClient(c, s) ==
    /\ s # "none" => Waiting(c)
    /\ at[c] = "joining" =>
        /\ Len(toServer[c]) + Len(toEnd[c]) <= 1
        /\ ~handler[c].busy
    /\ \A i \in 1 .. Len(toServer[c]) :
        /\ i = 1
        /\ IF at[c] = "joining" THEN toServer[c][i].type = "auth"
           ELSE toServer[c][i].type = "request" /\ toServer[c][i].id = CallId(c) /\ s = "asked"
    /\ at[c] # "joining" => \A i \in 1 .. Len(toEnd[c]) :
        /\ toEnd[c][i].type = "reply"
        /\ toEnd[c][i].error \/ (toEnd[c][i].id = CallId(c) /\ s = "told")
        /\ \A j \in 1 .. Len(toEnd[c]) : toEnd[c][i].error \/ toEnd[c][j].error \/ i = j

AtPage(c, p, s) ==
    /\ \A i \in 1 .. Len(toEnd[p]) : toEnd[p][i].type = "request" =>
        /\ s = "carried" /\ toEnd[p][i].id = CallId(c)
        /\ \A j \in 1 .. Len(toEnd[p]) : toEnd[p][j].type = "request" => i = j
    /\ \A id \in approving[p] : s = "considered" /\ id = CallId(c)
    /\ \A i \in 1 .. Len(toServer[p]) : toServer[p][i].type # "auth" =>
        /\ s = "answered" /\ toServer[p][i].type = "reply" /\ toServer[p][i].id = CallId(c)
        /\ \A j \in 1 .. Len(toServer[p]) : toServer[p][j].type # "auth" => i = j

NobodyLeft == \A e \in Ends : handler[e].busy => handler[e].left = <<>>

AnswersItself(c) ==
    answer[c] # Idle => answer[c].type = "reply" /\ answer[c].id = CallId(c)

Orderly(c, s) ==
    /\ AtClient(c, s)
    /\ \A p \in Pages : AtPage(c, p, s)
    /\ NobodyLeft
    /\ AnswersItself(c)

Sheltered(c) == c \notin troubled /\ AloneWithOnePage(c)

OneCallAtATime ==
    \A c \in Clients : Sheltered(c) => \E s \in Stages : Orderly(c, s)

----------------------------------------------------------------------------
(* Who there is, and what a step leaves alone. *)

LEMMA Company ==
  ASSUME NEW c \in Clients, AloneWithOnePage(c), NEW e \in Ends, at[e] # "away"
  PROVE  e = c \/ (e \in Pages /\ e # c /\ \A q \in Pages \ {e} : at[q] = "away")
  BY EndsAssumption DEF AloneWithOnePage, Ends, Clients

LEMMA AwayPage ==
  ASSUME Base, NEW c, NEW q \in Pages, at[q] = "away", NEW s
  PROVE  AtPage(c, q, s)
<1>1. toServer[q] = <<>> /\ toEnd[q] = <<>> /\ approving[q] = {}
  BY DEF Base, AwayIsQuiet, Ends
<1>2. QED
  BY <1>1 DEF AtPage

\* A page without the current call shows no trace of it.
LEMMA PageSame ==
  ASSUME NEW c, NEW q, NEW s, NEW t, AtPage(c, q, s),
         s = t \/ s \notin {"carried", "considered", "answered"},
         toEnd'[q] = toEnd[q], toServer'[q] = toServer[q], approving'[q] = approving[q],
         calls'[c] = calls[c]
  PROVE  AtPage(c, q, t)'
<1>1. CallId(c)' = CallId(c)
  BY DEF CallId
<1>2. QED
  BY <1>1 DEF AtPage

LEMMA ClientSame ==
  ASSUME NEW c, NEW s, NEW t, AtClient(c, s),
         s = t \/ s \in {"carried", "considered", "answered"},
         toEnd'[c] = toEnd[c], toServer'[c] = toServer[c], at'[c] = at[c],
         calls'[c] = calls[c], handler'[c] = handler[c]
  PROVE  AtClient(c, t)'
<1>1. CallId(c)' = CallId(c) /\ Waiting(c)' = Waiting(c)
  BY DEF CallId, Waiting
<1>2. QED
  BY <1>1 DEF AtClient

----------------------------------------------------------------------------
(* The server answers to the end whose message it has. *)

LEMMA AnswersPage ==
  ASSUME Inv, NEW c, NEW p \in Pages, NEW s, AtPage(c, p, s), NEW m \in Received,
         m.type # "request", Sends(p, m), calls'[c] = calls[c], approving'[p] = approving[p],
         Takes(p) \/ toServer' = toServer
  PROVE  AtPage(c, p, s)'
<1>1. CallId(c)' = CallId(c) /\ p \in Ends
  BY DEF CallId, Ends
<1>2. ASSUME NEW i \in 1 .. Len(toEnd'[p]), toEnd'[p][i].type = "request"
      PROVE  i \in 1 .. Len(toEnd[p]) /\ toEnd'[p][i] = toEnd[p][i]
  BY <1>1, <1>2, SendsEffect
<1>3. ASSUME NEW i \in 1 .. Len(toEnd'[p]), toEnd'[p][i].type = "request"
      PROVE  /\ s = "carried" /\ toEnd'[p][i].id = CallId(c)
             /\ \A j \in 1 .. Len(toEnd'[p]) : toEnd'[p][j].type = "request" => i = j
  <2>1. /\ s = "carried" /\ toEnd[p][i].id = CallId(c)
        /\ \A j \in 1 .. Len(toEnd[p]) : toEnd[p][j].type = "request" => i = j
    BY <1>2, <1>3 DEF AtPage
  <2>2. toEnd'[p][i] = toEnd[p][i]
    BY <1>2, <1>3
  <2>3. ASSUME NEW j \in 1 .. Len(toEnd'[p]), toEnd'[p][j].type = "request"
        PROVE  i = j
    <3>1. j \in 1 .. Len(toEnd[p]) /\ toEnd'[p][j] = toEnd[p][j]
      BY <1>2, <2>3
    <3>2. QED
      BY <2>1, <2>3, <3>1
  <2>4. QED
    BY <2>1, <2>2, <2>3
<1>4. \A id \in approving'[p] : s = "considered" /\ id = CallId(c)
  BY DEF AtPage
<1>5. ASSUME NEW i \in 1 .. Len(toServer'[p]), toServer'[p][i].type # "auth"
      PROVE  /\ s = "answered" /\ toServer'[p][i].type = "reply" /\ toServer'[p][i].id = CallId(c)
             /\ \A j \in 1 .. Len(toServer'[p]) : toServer'[p][j].type # "auth" => i = j
  <2>1. CASE toServer' = toServer
    BY <1>5, <2>1 DEF AtPage
  <2>2. CASE Takes(p)
    <3>1. \A k \in 1 .. Len(toServer'[p]) :
            k + 1 \in 1 .. Len(toServer[p]) /\ toServer'[p][k] = toServer[p][k + 1]
      BY <1>1, <2>2, TakesEffect
    <3>2. /\ s = "answered" /\ toServer'[p][i].type = "reply" /\ toServer'[p][i].id = CallId(c)
          /\ \A j \in 1 .. Len(toServer[p]) : toServer[p][j].type # "auth" => i + 1 = j
      BY <1>5, <3>1 DEF AtPage
    <3>3. ASSUME NEW j \in 1 .. Len(toServer'[p]), toServer'[p][j].type # "auth"
          PROVE  i = j
      <4>1. i + 1 = j + 1
        BY <3>1, <3>2, <3>3
      <4>2. QED
        BY <4>1
    <3>4. QED
      BY <3>2, <3>3
  <2>3. QED
    BY <2>1, <2>2
<1>6. QED
  BY <1>1, <1>3, <1>4, <1>5 DEF AtPage

LEMMA AnswersClient ==
  ASSUME Inv, NEW c \in Clients, NEW s, AtClient(c, s), NEW m \in Received,
         Sends(c, m), calls'[c] = calls[c], at'[c] = at[c],
         Takes(c) \/ (at[c] # "joining" /\ toServer' = toServer),
         at[c] = "joining" => handler'[c] = handler[c],
         at[c] # "joining" => m.type = "reply" /\ m.error
  PROVE  AtClient(c, s)'
<1>1. CallId(c)' = CallId(c) /\ Waiting(c)' = Waiting(c) /\ c \in Ends
  BY DEF CallId, Waiting, Ends
<1>2. CASE at[c] = "joining"
  <2>1. Takes(c)
    BY <1>2
  <2>2. Len(toServer[c]) + Len(toEnd[c]) <= 1 /\ ~handler'[c].busy
    BY <1>2 DEF AtClient
  <2>3. /\ Len(toServer'[c]) = 0 /\ Len(toEnd[c]) = 0
    <3>1. 1 \in 1 .. Len(toServer[c]) /\ Len(toServer[c]) \in Nat
          /\ Len(toServer'[c]) = Len(toServer[c]) - 1
      BY <1>1, <2>1, TakesEffect
    <3>2. Len(toEnd[c]) \in Nat
      BY <1>1, SendsEffect
    <3>3. \A a, b \in Nat : 1 \in 1 .. a /\ a + b <= 1 => a - 1 = 0 /\ b = 0
      OBVIOUS
    <3>4. Len(toServer[c]) + Len(toEnd[c]) <= 1
      BY <2>2
    <3>5. Len(toServer[c]) - 1 = 0 /\ Len(toEnd[c]) = 0
      BY <3>1, <3>2, <3>3, <3>4
    <3>6. QED
      BY <3>1, <3>5
  <2>4. Len(toEnd'[c]) \in {0, 1}
    <3>1. CASE toEnd'[c] = toEnd[c]
      <4>1. Len(toEnd'[c]) = Len(toEnd[c])
        BY <3>1
      <4>2. QED
        BY <2>3, <4>1
    <3>2. CASE Len(toEnd'[c]) = Len(toEnd[c]) + 1
      BY <2>3, <3>2
    <3>3. toEnd'[c] = toEnd[c] \/ Len(toEnd'[c]) = Len(toEnd[c]) + 1
      BY <1>1, SendsEffect
    <3>4. QED
      BY <3>1, <3>2, <3>3
  <2>6. s = "none"
    BY <1>2 DEF AtClient, Waiting
  <2>7. Len(toServer'[c]) + Len(toEnd'[c]) <= 1
    <3>1. \A a, b : a = 0 /\ b \in {0, 1} => a + b <= 1
      OBVIOUS
    <3>2. QED
      BY <2>3, <2>4, <3>1
  <2>8. QED
    BY <1>1, <1>2, <2>2, <2>3, <2>6, <2>7 DEF AtClient
<1>3. CASE at[c] # "joining"
  <2>1. s # "none" => Waiting(c)
    BY DEF AtClient
  <2>2. ASSUME NEW i \in 1 .. Len(toServer'[c])
        PROVE  /\ i = 1
               /\ toServer'[c][i].type = "request" /\ toServer'[c][i].id = CallId(c) /\ s = "asked"
    <3>1. CASE toServer' = toServer
      BY <1>3, <2>2, <3>1 DEF AtClient
    <3>2. CASE Takes(c)
      <4>1. i + 1 \in 1 .. Len(toServer[c])
        BY <1>1, <2>2, <3>2, TakesEffect
      <4>2. i + 1 = 1
        BY <4>1 DEF AtClient
      <4>3. i \in Nat /\ i >= 1
        OBVIOUS
      <4>4. QED
        BY <4>2, <4>3
    <3>3. QED
      BY <3>1, <3>2
  <2>3. \A i \in 1 .. Len(toEnd'[c]) :
          \/ i \in 1 .. Len(toEnd[c]) /\ toEnd'[c][i] = toEnd[c][i]
          \/ toEnd'[c][i] = m
    BY <1>1, SendsEffect
  <2>4. ASSUME NEW i \in 1 .. Len(toEnd'[c])
        PROVE  /\ toEnd'[c][i].type = "reply"
               /\ toEnd'[c][i].error \/ (toEnd'[c][i].id = CallId(c) /\ s = "told")
    BY <1>3, <2>3, <2>4 DEF AtClient
  <2>5. ASSUME NEW i \in 1 .. Len(toEnd'[c]), NEW j \in 1 .. Len(toEnd'[c])
        PROVE  toEnd'[c][i].error \/ toEnd'[c][j].error \/ i = j
    BY <1>3, <2>3, <2>5 DEF AtClient
  <2>6. QED
    BY <1>1, <1>3, <2>1, <2>2, <2>4, <2>5 DEF AtClient
<1>4. QED
  BY <1>2, <1>3

LEMMA ServerAnswers ==
  ASSUME Inv, Base, NEW c \in Clients, AloneWithOnePage(c), NEW s, Orderly(c, s),
         NEW e \in Ends, at[e] # "away", NEW m \in Received, m.type # "request", Sends(e, m),
         UNCHANGED ends, NobodyLeft',
         Takes(e) \/ ((e = c => at[c] # "joining") /\ toServer' = toServer),
         e # c \/ at[c] = "joining" => handler'[c] = handler[c],
         e = c /\ at[c] # "joining" => m.type = "reply" /\ m.error
  PROVE  Orderly(c, s)'
<1>1. /\ at' = at /\ calls' = calls /\ approving' = approving /\ answer' = answer
      /\ c \in Ends
  BY DEF ends, Ends
<1>2. \A f \in Ends \ {e} : toServer'[f] = toServer[f] /\ toEnd'[f] = toEnd[f]
  BY SendsEffect, TakesEffect
<1>3. AtClient(c, s) /\ (\A p \in Pages : AtPage(c, p, s)) /\ AnswersItself(c)
  BY DEF Orderly
<1>4. AtClient(c, s)'
  <2>1. CASE e = c
    BY <1>1, <1>3, <2>1, AnswersClient
  <2>2. CASE e # c
    BY <1>1, <1>2, <1>3, <2>2, ClientSame
  <2>3. QED
    BY <2>1, <2>2
<1>5. ASSUME NEW p \in Pages PROVE AtPage(c, p, s)'
  <2>1. CASE p = e
    BY <1>1, <1>3, <2>1, AnswersPage
  <2>2. CASE p # e
    <3>1. p \in Ends
      BY DEF Ends
    <3>2. QED
      BY <1>1, <1>2, <1>3, <2>2, <3>1, PageSame
  <2>3. QED
    BY <2>1, <2>2
<1>6. AnswersItself(c)'
  BY <1>1, <1>3 DEF AnswersItself, CallId
<1>7. QED
  BY <1>4, <1>5, <1>6 DEF Orderly

\* Alone with one page, there is at most one other session to relay to.
LEMMA OneOther ==
  ASSUME Inv, Base, NEW c \in Clients, AloneWithOnePage(c), NEW e \in Ends, at[e] # "away",
         Others(e) # <<>>
  PROVE  \E f \in Ends : /\ Others(e) = <<f>> /\ f # e
                         /\ e = c => f \in Pages
                         /\ e # c => f = c
<1> DEFINE o == Others(e)
<1>1. o \in Seq(Ends) /\ TypeOK /\ SessionsOnce
  BY OthersType DEF Inv, Base
<1>2. \A i \in 1 .. Len(o) : o[i] \in Ends /\ o[i] # e /\ Registered(o[i])
  BY <1>1, OthersOnce
<1>3. \A i \in 1 .. Len(o) : at[o[i]] # "away"
  BY <1>2 DEF Base, AwayIsQuiet
<1>4. \A i \in 1 .. Len(o) : (e = c => o[i] \in Pages) /\ (e # c => o[i] = c)
  <2> SUFFICES ASSUME NEW i \in 1 .. Len(o)
               PROVE  (e = c => o[i] \in Pages) /\ (e # c => o[i] = c)
    OBVIOUS
  <2> DEFINE g == o[i]
  <2>1. g \in Ends /\ g # e /\ at[g] # "away"
    BY <1>2, <1>3
  <2> HIDE DEF g, o
  <2>2. g = c \/ (g \in Pages /\ \A q \in Pages \ {g} : at[q] = "away")
    BY <2>1, Company
  <2>3. e = c \/ e \in Pages
    BY Company
  <2>4. QED
    BY <2>1, <2>2, <2>3 DEF g
<1>5. \A i, j \in 1 .. Len(o) : o[i] = o[j]
  <2> SUFFICES ASSUME NEW i \in 1 .. Len(o), NEW j \in 1 .. Len(o) PROVE o[i] = o[j]
    OBVIOUS
  <2> DEFINE g == o[i]
             h == o[j]
  <2>1. g \in Ends /\ h \in Ends /\ at[g] # "away" /\ at[h] # "away"
    BY <1>2, <1>3
  <2>2. (e = c => g \in Pages /\ h \in Pages) /\ (e # c => g = c /\ h = c)
    BY <1>4
  <2> HIDE DEF g, h, o
  <2>3. e = c => g = h
    BY <2>1, <2>2 DEF AloneWithOnePage
  <2>4. QED
    BY <2>2, <2>3 DEF g, h
<1>6. Len(o) = 1
  <2>1. \A i, j \in 1 .. Len(o) : i = j
    BY <1>1, <1>5, OthersOnce
  <2>2. Len(o) \in Nat /\ Len(o) # 0
    BY <1>1
  <2>3. \A n \in Nat : n # 0 /\ (\A i, j \in 1 .. n : i = j) => n = 1
    <3> SUFFICES ASSUME NEW n \in Nat, n # 0, \A i, j \in 1 .. n : i = j PROVE n = 1
      OBVIOUS
    <3>1. 1 \in 1 .. n /\ n \in 1 .. n
      OBVIOUS
    <3>2. QED
      BY <3>1
  <2> HIDE DEF o
  <2>4. QED
    BY <2>1, <2>2, <2>3
<1>7. o = <<o[1]>> /\ o[1] \in Ends
  BY <1>1, <1>6
<1>8. 1 \in 1 .. Len(o)
  BY <1>6
<1>9. QED
  BY <1>2, <1>4, <1>7, <1>8

\* A message that a client or a page has sent is of the call that is under way.
LEMMA SentBy ==
  ASSUME Inv, NEW c \in Clients, NEW s, Orderly(c, s), NEW e \in Ends, Takes(e),
         e = c \/ e \in Pages, Head(toServer[e]).type # "auth"
  PROVE  /\ Waiting(c)
         /\ Head(toServer[e]).id = CallId(c)
         /\ IF e = c THEN /\ s = "asked" /\ Head(toServer[e]).type = "request"
                          /\ toServer'[c] = <<>>
            ELSE /\ s = "answered" /\ Head(toServer[e]).type = "reply"
                 /\ \A i \in 1 .. Len(toServer'[e]) : toServer'[e][i].type = "auth"
<1>1. /\ toServer[e] # <<>>
      /\ 1 \in 1 .. Len(toServer[e]) /\ Head(toServer[e]) = toServer[e][1]
      /\ \A i \in 1 .. Len(toServer'[e]) :
           i + 1 \in 1 .. Len(toServer[e]) /\ toServer'[e][i] = toServer[e][i + 1]
  BY TakesEffect
<1>2. AtClient(c, s) /\ (\A p \in Pages : AtPage(c, p, s))
  BY DEF Orderly
<1>3. CASE e = c
  <2>1. /\ s = "asked" /\ toServer[c][1].type = "request" /\ toServer[c][1].id = CallId(c)
        /\ \A i \in 1 .. Len(toServer[c]) : i = 1
    BY <1>1, <1>2, <1>3 DEF AtClient
  <2>2. toServer'[c] = <<>>
    <3>1. toServer'[c] \in Seq(Sent)
      BY <1>3, TakesKeeps
    <3>2. \A i \in 1 .. Len(toServer'[c]) : i + 1 = 1 /\ i >= 1
      BY <1>1, <1>3, <2>1
    <3>3. 1 \notin 1 .. Len(toServer'[c])
      BY <3>2
    <3>4. QED
      BY <3>1, <3>3
  <2>3. Waiting(c)
    BY <1>2, <2>1 DEF AtClient
  <2>4. QED
    BY <1>1, <1>3, <2>1, <2>2, <2>3
<1>4. CASE e # c
  <2>1. e \in Pages /\ AtPage(c, e, s)
    BY <1>2, <1>4
  <2>2. /\ s = "answered" /\ toServer[e][1].type = "reply" /\ toServer[e][1].id = CallId(c)
        /\ \A j \in 1 .. Len(toServer[e]) : toServer[e][j].type # "auth" => 1 = j
    BY <1>1, <2>1 DEF AtPage
  <2>3. ASSUME NEW i \in 1 .. Len(toServer'[e]) PROVE toServer'[e][i].type = "auth"
    <3>1. i + 1 # 1
      OBVIOUS
    <3>2. QED
      BY <1>1, <2>2, <3>1
  <2>4. Waiting(c)
    BY <1>2, <2>2 DEF AtClient
  <2>5. QED
    BY <1>1, <1>4, <2>2, <2>3, <2>4
<1>5. QED
  BY <1>3, <1>4

----------------------------------------------------------------------------
(* The server's steps keep the calls of a client in order. *)

LEMMA AuthWhenJoining ==
  ASSUME Inv, NEW c \in Clients, NEW s, AtClient(c, s), Takes(c), Head(toServer[c]).type = "auth"
  PROVE  at[c] = "joining"
<1>1. 1 \in 1 .. Len(toServer[c]) /\ toServer[c][1].type = "auth"
  BY TakesEffect DEF Ends
<1>2. QED
  BY <1>1 DEF AtClient

LEMMA IdleFrees ==
  ASSUME Inv, NobodyLeft, NEW e \in Ends, NEW h, h.busy => h.left = <<>>,
         handler' = [handler EXCEPT ![e] = h]
  PROVE  NobodyLeft' /\ \A f \in Ends \ {e} : handler'[f] = handler[f]
<1>1. \A f \in Ends : handler'[f] = IF f = e THEN h ELSE handler[f]
  BY DEF Inv, TypeOK
<1>2. QED
  BY <1>1 DEF NobodyLeft

LEMMA AuthenticateOrderly ==
  ASSUME Inv, Base, NEW c \in Clients, AloneWithOnePage(c), NEW s \in Stages, Orderly(c, s),
         NEW e \in Ends, Authenticate(e) \/ Reject(e)
  PROVE  Orderly(c, s)'
<1>1. PICK m \in {Welcome, ErrorReply(NoId)} : Sends(e, m)
  BY DEF Authenticate, Reject
<1>2. Takes(e) /\ Head(toServer[e]).type = "auth" /\ handler' = handler /\ UNCHANGED ends
  BY DEF Authenticate, Reject
<1>3. m \in Received /\ m.type # "request"
  BY ErrorReplyType DEF Welcome, Received, Messages, Auths
<1>4. at[e] # "away"
  BY <1>2, TakesEffect DEF Base, AwayIsQuiet
<1>5. NobodyLeft'
  BY <1>2 DEF Orderly, NobodyLeft
<1>6. e = c => at[c] = "joining"
  BY <1>2, AuthWhenJoining DEF Orderly
<1>7. handler'[c] = handler[c]
  BY <1>2
<1>8. QED
  BY <1>1, <1>2, <1>3, <1>4, <1>5, <1>6, <1>7, ServerAnswers

LEMMA RefuseRequestOrderly ==
  ASSUME Inv, Base, NEW c \in Clients, AloneWithOnePage(c), NEW s \in Stages, Orderly(c, s),
         NEW e \in Ends, RefuseRequest(e)
  PROVE  Orderly(c, s)'
<1> DEFINE m == ErrorReply(Head(toServer[e]).id)
<1>1. /\ Takes(e) /\ Head(toServer[e]).type # "auth" /\ Sends(e, m)
      /\ handler' = handler /\ UNCHANGED ends
  BY DEF RefuseRequest
<1>2. at[e] # "away"
  BY <1>1, TakesEffect DEF Base, AwayIsQuiet
<1>3. m \in Received /\ m.type = "reply" /\ m.error
  <2>1. Head(toServer[e]) \in Sent
    BY <1>1, TakesEffect
  <2>2. Head(toServer[e]).id \in Ids \union {NoId}
    BY <1>1, <2>1 DEF Sent, Auths, Requests, Replies
  <2>3. QED
    BY <2>2, ErrorReplyType DEF ErrorReply
<1>4. NobodyLeft'
  BY <1>1 DEF Orderly, NobodyLeft
<1>5. handler'[c] = handler[c]
  BY <1>1
<1> HIDE DEF m
<1>6. QED
  BY <1>1, <1>2, <1>3, <1>4, <1>5, ServerAnswers

LEMMA RelayTimesOutOrderly ==
  ASSUME Inv, Base, NEW c \in Clients, AloneWithOnePage(c), NEW s \in Stages, Orderly(c, s),
         NEW e \in Ends, RelayTimesOut(e)
  PROVE  Orderly(c, s)'
<1> DEFINE m == ErrorReply(handler[e].msg.id)
<1>1. handler[e].busy /\ handler[e].left = <<>>
  BY DEF RelayTimesOut, Orderly, NobodyLeft
<1>2. /\ handler' = [handler EXCEPT ![e] = Idle] /\ Sends(e, m)
      /\ toServer' = toServer /\ UNCHANGED ends
  BY <1>1 DEF RelayTimesOut, TryNext
<1>3. at[e] # "away"
  BY <1>1 DEF Base, AwayIsQuiet
<1>4. m \in Received /\ m.type = "reply" /\ m.error
  <2>1. handler[e].msg.id \in Ids \union {NoId}
    BY <1>1, HandlerType DEF Requests, Replies
  <2>2. QED
    BY <2>1, ErrorReplyType DEF ErrorReply
<1>5. NobodyLeft' /\ \A f \in Ends \ {e} : handler'[f] = handler[f]
  BY <1>2, IdleFrees DEF Idle, Orderly
<1>6. e = c => at[c] # "joining"
  BY <1>1 DEF Orderly, AtClient
<1>7. c \in Ends
  BY DEF Ends
<1> HIDE DEF m
<1>8. QED
  BY <1>2, <1>3, <1>4, <1>5, <1>6, <1>7, ServerAnswers

\* The request reaches the page.
LEMMA RequestRelayed ==
  ASSUME Inv, Base, NEW c \in Clients, AloneWithOnePage(c), NEW s \in Stages, Orderly(c, s),
         Relay(c), NEW f \in Ends, Others(c) = <<f>>, f # c, f \in Pages
  PROVE  Orderly(c, "carried")'
<1> DEFINE m == Head(toServer[c])
           h == IF f \in open THEN [busy |-> TRUE, msg |-> m, left |-> <<>>] ELSE Idle
<1>1. /\ Takes(c) /\ m.type # "auth" /\ UNCHANGED ends /\ c \in Ends
      /\ handler' = [handler EXCEPT ![c] = h] /\ Sends(f, m)
  <2>1. Others(c) # <<>> /\ Head(Others(c)) = f /\ Tail(Others(c)) = <<>>
    OBVIOUS
  <2>2. QED
    BY <2>1 DEF Relay, TryNext, Ends
<1>2. /\ Waiting(c) /\ s = "asked" /\ m.type = "request" /\ m.id = CallId(c)
      /\ toServer'[c] = <<>>
  BY <1>1, SentBy
<1>3. m \in Received
  <2>1. m \in Sent
    BY <1>1, TakesEffect
  <2>2. QED
    BY <1>2, <2>1 DEF Sent, Received, Messages, Auths, Requests, Replies
<1>4. /\ at' = at /\ calls' = calls /\ approving' = approving /\ answer' = answer
      /\ CallId(c)' = CallId(c) /\ Waiting(c)' = Waiting(c)
  BY <1>1 DEF ends, CallId, Waiting
<1>5. NobodyLeft'
  <2>1. h.busy => h.left = <<>>
    BY DEF Idle
  <2> HIDE DEF h
  <2>2. QED
    BY <1>1, <2>1, IdleFrees DEF Orderly
<1>6. AtClient(c, s) /\ (\A p \in Pages : AtPage(c, p, s)) /\ AnswersItself(c)
  BY DEF Orderly
<1> HIDE DEF m, h
<1>7. AtClient(c, "carried")'
  <2>1. toEnd'[c] = toEnd[c]
    BY <1>1, <1>3, SendsEffect
  <2>2. at[c] # "joining"
    BY <1>2 DEF Waiting
  <2>3. \A i \in 1 .. Len(toServer'[c]) : FALSE
    BY <1>2
  <2>4. \A i \in 1 .. Len(toEnd[c]) : toEnd[c][i].type = "reply" /\ toEnd[c][i].error
    BY <1>2, <1>6, <2>2 DEF AtClient
  <2>5. QED
    BY <1>2, <1>4, <2>1, <2>2, <2>3, <2>4 DEF AtClient
<1>8. ASSUME NEW p \in Pages PROVE AtPage(c, p, "carried")'
  <2>1. p \in Ends /\ p # c
    BY EndsAssumption DEF Ends, Clients
  <2>2. toServer'[p] = toServer[p]
    BY <1>1, <2>1, TakesEffect
  <2>3. CASE p # f
    <3>1. toEnd'[p] = toEnd[p]
      BY <1>1, <1>3, <2>1, <2>3, SendsEffect
    <3>2. QED
      BY <1>2, <1>4, <1>6, <2>2, <3>1, PageSame
  <2>4. CASE p = f
    <3>1. /\ \A i \in 1 .. Len(toEnd[p]) : toEnd[p][i].type # "request"
          /\ approving[p] = {}
          /\ \A i \in 1 .. Len(toServer[p]) : toServer[p][i].type = "auth"
      BY <1>2, <1>6 DEF AtPage
    <3>2. /\ Len(toEnd[p]) \in Nat
          /\ \A i \in 1 .. Len(toEnd'[p]) : toEnd'[p][i].type = "request" =>
               i = Len(toEnd[p]) + 1 /\ toEnd'[p][i] = m
      BY <1>1, <1>3, <2>1, <2>4, <3>1, SendsEffect
    <3>3. QED
      BY <1>2, <1>4, <2>2, <3>1, <3>2 DEF AtPage
  <2>5. QED
    BY <2>3, <2>4
<1>9. AnswersItself(c)'
  BY <1>4, <1>6 DEF AnswersItself
<1>10. QED
  BY <1>5, <1>7, <1>8, <1>9 DEF Orderly

\* The reply reaches the client.
LEMMA ReplyRelayed ==
  ASSUME Inv, Base, NEW c \in Clients, AloneWithOnePage(c), NEW s \in Stages, Orderly(c, s),
         NEW e \in Pages, at[e] # "away", Relay(e), Others(e) = <<c>>
  PROVE  Orderly(c, "told")'
<1> DEFINE m == Head(toServer[e])
           h == IF c \in open THEN [busy |-> TRUE, msg |-> m, left |-> <<>>] ELSE Idle
<1>0. c \in Ends /\ e \in Ends /\ e # c
  BY EndsAssumption DEF Ends, Clients
<1>1. /\ Takes(e) /\ m.type # "auth" /\ UNCHANGED ends
      /\ handler' = [handler EXCEPT ![e] = h] /\ Sends(c, m)
  <2>1. Others(e) # <<>> /\ Head(Others(e)) = c /\ Tail(Others(e)) = <<>>
    OBVIOUS
  <2>2. QED
    BY <2>1 DEF Relay, TryNext
<1>2. /\ Waiting(c) /\ s = "answered" /\ m.type = "reply" /\ m.id = CallId(c)
      /\ \A i \in 1 .. Len(toServer'[e]) : toServer'[e][i].type = "auth"
  BY <1>0, <1>1, SentBy
<1>3. m \in Received
  <2>1. m \in Sent
    BY <1>0, <1>1, TakesEffect
  <2>2. QED
    BY <1>2, <2>1 DEF Sent, Received, Messages, Auths, Requests, Replies
<1>4. /\ at' = at /\ calls' = calls /\ approving' = approving /\ answer' = answer
      /\ CallId(c)' = CallId(c) /\ Waiting(c)' = Waiting(c)
  BY <1>1 DEF ends, CallId, Waiting
<1>5. NobodyLeft'
  <2>1. h.busy => h.left = <<>>
    BY DEF Idle
  <2> HIDE DEF h
  <2>2. QED
    BY <1>0, <1>1, <2>1, IdleFrees DEF Orderly
<1>6. AtClient(c, s) /\ (\A p \in Pages : AtPage(c, p, s)) /\ AnswersItself(c)
  BY DEF Orderly
<1> HIDE DEF m, h
<1>7. AtClient(c, "told")'
  <2>1. toServer'[c] = toServer[c]
    BY <1>0, <1>1, TakesEffect
  <2>2. at[c] # "joining"
    BY <1>2 DEF Waiting
  <2>3. \A i \in 1 .. Len(toServer'[c]) : FALSE
    BY <1>2, <1>6, <2>1, <2>2 DEF AtClient
  <2>4. \A i \in 1 .. Len(toEnd[c]) : toEnd[c][i].type = "reply" /\ toEnd[c][i].error
    BY <1>2, <1>6, <2>2 DEF AtClient
  <2>5. /\ Len(toEnd[c]) \in Nat
        /\ \A i \in 1 .. Len(toEnd'[c]) :
             \/ toEnd'[c][i].type = "reply" /\ toEnd'[c][i].error
             \/ i = Len(toEnd[c]) + 1 /\ toEnd'[c][i] = m
    BY <1>0, <1>1, <1>3, <2>4, SendsEffect
  <2>6. QED
    BY <1>2, <1>4, <2>2, <2>3, <2>5 DEF AtClient
<1>8. ASSUME NEW p \in Pages PROVE AtPage(c, p, "told")'
  <2>1. p \in Ends /\ p # c
    BY EndsAssumption DEF Ends, Clients
  <2>2. toEnd'[p] = toEnd[p]
    BY <1>1, <1>3, <2>1, SendsEffect
  <2>3. CASE p # e
    <3>1. toServer'[p] = toServer[p]
      BY <1>0, <1>1, <2>1, <2>3, TakesEffect
    <3>2. at[p] = "away"
      BY <1>0, <2>3, Company
    <3>3. AtPage(c, p, "told")
      BY <3>2, AwayPage
    <3>4. QED
      BY <1>4, <2>2, <3>1, <3>3, PageSame
  <2>4. CASE p = e
    <3>1. /\ \A i \in 1 .. Len(toEnd[p]) : toEnd[p][i].type # "request"
          /\ approving[p] = {}
      BY <1>2, <1>6 DEF AtPage
    <3>2. QED
      BY <1>2, <1>4, <2>2, <2>4, <3>1 DEF AtPage
  <2>5. QED
    BY <2>3, <2>4
<1>9. AnswersItself(c)'
  BY <1>4, <1>6 DEF AnswersItself
<1>10. QED
  BY <1>5, <1>7, <1>8, <1>9 DEF Orderly

\* Nobody else is there: the end gets an error.
LEMMA NobodyToRelayTo ==
  ASSUME Inv, Base, NEW c \in Clients, AloneWithOnePage(c), NEW s \in Stages, Orderly(c, s),
         NEW e \in Ends, at[e] # "away", Relay(e), Others(e) = <<>>
  PROVE  Orderly(c, s)'
<1> DEFINE m == ErrorReply(Head(toServer[e]).id)
<1>1. /\ Takes(e) /\ Head(toServer[e]).type # "auth" /\ UNCHANGED ends
      /\ handler' = [handler EXCEPT ![e] = Idle] /\ Sends(e, m)
  BY DEF Relay, TryNext
<1>2. m \in Received /\ m.type = "reply" /\ m.error
  <2>1. Head(toServer[e]) \in Sent
    BY <1>1, TakesEffect
  <2>2. Head(toServer[e]).id \in Ids \union {NoId}
    BY <1>1, <2>1 DEF Sent, Auths, Requests, Replies
  <2>3. QED
    BY <2>2, ErrorReplyType DEF ErrorReply
<1>3. NobodyLeft' /\ \A f \in Ends \ {e} : handler'[f] = handler[f]
  BY <1>1, IdleFrees DEF Idle, Orderly
<1>4. c \in Ends
  BY DEF Ends
<1>5. e = c => at[c] # "joining"
  BY <1>1, SentBy DEF Waiting
<1> HIDE DEF m
<1>6. QED
  BY <1>1, <1>2, <1>3, <1>4, <1>5, ServerAnswers

LEMMA RelayOrderly ==
  ASSUME Inv, Base, NEW c \in Clients, AloneWithOnePage(c), NEW s \in Stages, Orderly(c, s),
         NEW e \in Ends, Relay(e)
  PROVE  \E t \in Stages : Orderly(c, t)'
<1>1. at[e] # "away"
  BY TakesEffect DEF Relay, Base, AwayIsQuiet
<1>2. CASE Others(e) = <<>>
  BY <1>1, <1>2, NobodyToRelayTo
<1>3. CASE Others(e) # <<>>
  <2>1. PICK f \in Ends : /\ Others(e) = <<f>> /\ f # e
                          /\ e = c => f \in Pages
                          /\ e # c => f = c
    BY <1>1, <1>3, OneOther
  <2>2. CASE e = c
    <3>1. Orderly(c, "carried")'
      BY <2>1, <2>2, RequestRelayed
    <3>2. QED
      BY <3>1 DEF Stages
  <2>3. CASE e # c
    <3>1. e \in Pages
      BY <1>1, <2>3, Company
    <3>2. Orderly(c, "told")'
      BY <1>1, <2>1, <2>3, <3>1, ReplyRelayed
    <3>3. QED
      BY <3>2 DEF Stages
  <2>4. QED
    BY <2>2, <2>3
<1>4. QED
  BY <1>2, <1>3

----------------------------------------------------------------------------
(* The steps of the ends keep the calls of a client in order. *)

LEMMA Unmoved ==
  ASSUME NEW c \in Clients, NEW s \in Stages, Orderly(c, s),
         UNCHANGED <<handler, toServer, toEnd, at, calls, approving, answer>>
  PROVE  Orderly(c, s)'
<1>1. AtClient(c, s)'
  BY ClientSame DEF Orderly
<1>2. \A p \in Pages : AtPage(c, p, s)'
  BY PageSame DEF Orderly
<1>3. NobodyLeft' /\ AnswersItself(c)'
  BY DEF Orderly, NobodyLeft, AnswersItself, CallId
<1>4. QED
  BY <1>1, <1>2, <1>3 DEF Orderly

LEMMA ForgetOrderly ==
  ASSUME NEW c \in Clients, NEW s \in Stages, Orderly(c, s), NEW e \in Ends, Forget(e)
  PROVE  Orderly(c, s)'
  BY Unmoved DEF Forget, queues, ends

LEMMA JoinOrderly ==
  ASSUME Inv, Base, NEW c \in Clients, AloneWithOnePage(c)', NEW s \in Stages, Orderly(c, s),
         NEW e \in Ends, Join(e)
  PROVE  Orderly(c, s)'
<1> DEFINE m == [type |-> "auth", ok |-> token[e]]
<1>1. /\ at[e] = "away"
      /\ at' = [at EXCEPT ![e] = IF e \in Clients THEN "joining" ELSE "ready"]
      /\ toServer' = [toServer EXCEPT ![e] = <<m>>]
      /\ UNCHANGED <<handler, toEnd, calls, approving, answer>>
  BY DEF Join
<1>2. /\ at'[e] = IF e \in Clients THEN "joining" ELSE "ready"
      /\ toServer'[e] = <<m>>
      /\ \A f \in Ends : f # e => at'[f] = at[f] /\ toServer'[f] = toServer[f]
      /\ c \in Ends
  BY <1>1 DEF Inv, TypeOK, Ends
<1>3. AtClient(c, s) /\ (\A p \in Pages : AtPage(c, p, s)) /\ AnswersItself(c)
  BY DEF Orderly
<1>4. m.type = "auth" /\ Len(<<m>>) = 1 /\ <<m>>[1] = m
  OBVIOUS
<1> HIDE DEF m
<1>5. AtClient(c, s)'
  <2>1. CASE e = c
    <3>1. s = "none"
      BY <1>1, <1>3, <2>1 DEF AtClient, Waiting
    <3>2. toEnd'[c] = <<>> /\ ~handler'[c].busy
      BY <1>1, <1>2, <2>1 DEF Base, AwayIsQuiet
    <3>3. Len(toServer'[c]) + Len(toEnd'[c]) <= 1
      <4>1. Len(toServer'[c]) = 1 /\ Len(toEnd'[c]) = 0
        BY <1>2, <1>4, <2>1, <3>2
      <4>2. \A a, b : a = 1 /\ b = 0 => a + b <= 1
        OBVIOUS
      <4>3. QED
        BY <4>1, <4>2
    <3>4. at'[c] = "joining"
      BY <1>2, <2>1
    <3>5. \A i \in 1 .. Len(toServer'[c]) : i = 1 /\ toServer'[c][i].type = "auth"
      <4>1. toServer'[c] = <<m>> /\ (\A i \in 1 .. 1 : i = 1)
        BY <1>2, <2>1
      <4>2. QED
        BY <1>4, <4>1
    <3>6. QED
      BY <3>1, <3>2, <3>3, <3>4, <3>5 DEF AtClient
  <2>2. CASE e # c
    BY <1>1, <1>2, <1>3, <2>2, ClientSame
  <2>3. QED
    BY <2>1, <2>2
<1>6. ASSUME NEW p \in Pages PROVE AtPage(c, p, s)'
  <2>1. p \in Ends
    BY DEF Ends
  <2>2. CASE p = e
    <3>1. toEnd'[p] = <<>> /\ approving'[p] = {}
      BY <1>1, <2>1, <2>2 DEF Base, AwayIsQuiet
    <3>2. \A i \in 1 .. Len(toServer'[p]) : toServer'[p][i].type = "auth"
      BY <1>2, <1>4, <2>2
    <3>3. QED
      BY <3>1, <3>2 DEF AtPage
  <2>3. CASE p # e
    BY <1>1, <1>2, <1>3, <2>1, <2>3, PageSame
  <2>4. QED
    BY <2>2, <2>3
<1>7. NobodyLeft' /\ AnswersItself(c)'
  BY <1>1, <1>3 DEF Orderly, NobodyLeft, AnswersItself, CallId
<1>8. QED
  BY <1>5, <1>6, <1>7 DEF Orderly

LEMMA ReceiveWelcomeOrderly ==
  ASSUME Inv, Base, NEW c \in Clients, NEW s \in Stages, Orderly(c, s), ReceiveWelcome(c)
  PROVE  Orderly(c, s)'
<1>1. /\ at[c] = "joining" /\ toEnd[c] # <<>>
      /\ toEnd' = [toEnd EXCEPT ![c] = Tail(@)]
      /\ UNCHANGED <<handler, toServer, calls, approving, answer>>
      /\ c \in Ends
  BY DEF ReceiveWelcome, Server, Ends
<1>2. at'[c] \in {"ready", "rejected"}
  BY <1>1 DEF ReceiveWelcome, AfterError, Inv, TypeOK
<1>3. AtClient(c, s) /\ (\A p \in Pages : AtPage(c, p, s)) /\ AnswersItself(c)
  BY DEF Orderly
<1>4. AtClient(c, s)'
  <2>1. s = "none" /\ Len(toServer[c]) + Len(toEnd[c]) <= 1
    BY <1>1, <1>3 DEF AtClient, Waiting
  <2>2. /\ 1 \in 1 .. Len(toEnd[c]) /\ Len(toEnd[c]) \in Nat
        /\ Len(toEnd'[c]) = Len(toEnd[c]) - 1
    BY <1>1, EndTakesEffect
  <2>3. Len(toServer[c]) \in Nat
    BY <1>1 DEF Inv, TypeOK
  <2>4. \A a, b \in Nat : 1 \in 1 .. b /\ a + b <= 1 => a = 0 /\ b - 1 = 0
    OBVIOUS
  <2>5. Len(toServer[c]) = 0 /\ Len(toEnd[c]) - 1 = 0
    BY <2>1, <2>2, <2>3, <2>4
  <2>6. /\ \A i \in 1 .. Len(toServer'[c]) : FALSE
        /\ \A i \in 1 .. Len(toEnd'[c]) : FALSE
    <3>1. Len(toServer'[c]) = 0 /\ Len(toEnd'[c]) = 0
      BY <1>1, <2>2, <2>5
    <3>2. QED
      BY <3>1
  <2>7. QED
    BY <1>2, <2>1, <2>6 DEF AtClient
<1>5. ASSUME NEW p \in Pages PROVE AtPage(c, p, s)'
  <2>1. p \in Ends /\ p # c
    BY EndsAssumption DEF Ends, Clients
  <2>2. toEnd'[p] = toEnd[p]
    BY <1>1, <2>1, EndTakesEffect
  <2>3. QED
    BY <1>1, <1>3, <2>2, PageSame
<1>6. NobodyLeft' /\ AnswersItself(c)'
  BY <1>1, <1>3 DEF Orderly, NobodyLeft, AnswersItself, CallId
<1>7. QED
  BY <1>4, <1>5, <1>6 DEF Orderly

LEMMA CallOrderly ==
  ASSUME Inv, Base, NEW c \in Clients, NEW s \in Stages, Orderly(c, s), Call(c)
  PROVE  Orderly(c, "asked")'
<1> DEFINE m == [type |-> "request", id |-> <<c, calls[c] + 1>>]
<1>1. /\ at[c] = "ready" /\ calls[c] < MaxCalls
      /\ at' = [at EXCEPT ![c] = "waiting"]
      /\ calls' = [calls EXCEPT ![c] = @ + 1]
      /\ answer' = [answer EXCEPT ![c] = Idle]
      /\ toServer' = [toServer EXCEPT ![c] = Append(@, m)]
      /\ UNCHANGED <<handler, toEnd, approving>>
      /\ c \in Ends
  BY DEF Call, Server, Ends
<1>2. at'[c] = "waiting" /\ calls'[c] = calls[c] + 1 /\ answer'[c] = Idle
  BY <1>1 DEF Inv, TypeOK
<1>3. m \in Sent /\ m.type = "request" /\ m.id = CallId(c)'
  <2>1. calls[c] + 1 \in 1 .. MaxCalls
    BY <1>1, MaxCallsAssumption DEF Inv, TypeOK
  <2>2. QED
    BY <1>2, <2>1 DEF Sent, Requests, Ids, CallId
<1>4. AtClient(c, s) /\ (\A p \in Pages : AtPage(c, p, s)) /\ s = "none"
  BY <1>1 DEF Orderly, AtClient, Waiting
<1> HIDE DEF m
<1>5. AtClient(c, "asked")'
  <2>1. /\ \A i \in 1 .. Len(toServer[c]) : FALSE
        /\ \A i \in 1 .. Len(toEnd[c]) : toEnd[c][i].type = "reply" /\ toEnd[c][i].error
    BY <1>1, <1>4 DEF AtClient
  <2>2. /\ Len(toServer[c]) \in Nat
        /\ \A i \in 1 .. Len(toServer'[c]) :
             \/ i \in 1 .. Len(toServer[c])
             \/ i = Len(toServer[c]) + 1 /\ toServer'[c][i] = m
    BY <1>1, <1>3, EndSendsEffect
  <2>3. Len(toServer[c]) = 0
    <3>1. \A n \in Nat : (\A i \in 1 .. n : FALSE) => n = 0
      <4> SUFFICES ASSUME NEW n \in Nat, n # 0 PROVE \E i \in 1 .. n : TRUE
        OBVIOUS
      <4>1. 1 \in 1 .. n
        OBVIOUS
      <4>2. QED
        BY <4>1
    <3>2. QED
      BY <2>1, <2>2, <3>1
  <2>4. \A i \in 1 .. Len(toServer'[c]) : i = 1 /\ toServer'[c][i] = m
    BY <2>1, <2>2, <2>3
  <2>5. toEnd'[c] = toEnd[c] /\ Waiting(c)'
    BY <1>1, <1>2 DEF Waiting
  <2>6. QED
    BY <1>2, <1>3, <2>1, <2>4, <2>5 DEF AtClient
<1>6. ASSUME NEW p \in Pages PROVE AtPage(c, p, "asked")'
  <2>1. p \in Ends /\ p # c
    BY EndsAssumption DEF Ends, Clients
  <2>2. /\ \A i \in 1 .. Len(toEnd[p]) : toEnd[p][i].type # "request"
        /\ approving[p] = {}
        /\ \A i \in 1 .. Len(toServer[p]) : toServer[p][i].type = "auth"
    BY <1>4 DEF AtPage
  <2>3. toServer'[p] = toServer[p]
    BY <1>1, <1>3, <2>1, EndSendsEffect
  <2>4. QED
    BY <1>1, <2>2, <2>3 DEF AtPage
<1>7. NobodyLeft' /\ AnswersItself(c)'
  BY <1>1, <1>2 DEF Orderly, NobodyLeft, AnswersItself
<1>8. QED
  BY <1>5, <1>6, <1>7 DEF Orderly

LEMMA ReceiveReplyOrderly ==
  ASSUME Inv, Base, NEW c \in Clients, NEW s \in Stages, Orderly(c, s), ReceiveReply(c),
         c \notin troubled'
  PROVE  Orderly(c, "none")'
<1> DEFINE m == Head(toEnd[c])
<1>1. /\ Waiting(c) /\ toEnd[c] # <<>>
      /\ toEnd' = [toEnd EXCEPT ![c] = Tail(@)]
      /\ at' = [at EXCEPT ![c] = "ready"]
      /\ UNCHANGED <<handler, toServer, calls, approving>>
      /\ c \in Ends
  BY DEF ReceiveReply, Server, Ends
<1>2. at'[c] = "ready" /\ at[c] # "joining" /\ CallId(c)' = CallId(c)
  BY <1>1 DEF Inv, TypeOK, Waiting, CallId
<1>3. /\ 1 \in 1 .. Len(toEnd[c]) /\ m = toEnd[c][1] /\ Len(toEnd[c]) \in Nat
      /\ \A i \in 1 .. Len(toEnd'[c]) :
           i + 1 \in 1 .. Len(toEnd[c]) /\ toEnd'[c][i] = toEnd[c][i + 1]
      /\ \A f \in Ends \ {c} : toEnd'[f] = toEnd[f]
  BY <1>1, EndTakesEffect
<1>4. AtClient(c, s) /\ (\A p \in Pages : AtPage(c, p, s))
  BY DEF Orderly
<1>5. m.type = "reply" /\ ~m.error
  <2>1. m.type = "reply"
    BY <1>2, <1>3, <1>4 DEF AtClient
  <2>2. ~(m.type = "reply" /\ m.error)
    BY DEF ReceiveReply
  <2>3. QED
    BY <2>1, <2>2
<1>6. answer'[c] = m
  <2>1. answer' = [answer EXCEPT ![c] = IF m.type = "reply" /\ m.error THEN Idle ELSE m]
    BY DEF ReceiveReply
  <2>2. answer' = [answer EXCEPT ![c] = m]
    BY <1>5, <2>1
  <2>3. QED
    BY <2>2 DEF Inv, TypeOK
<1>7. m.id = CallId(c) /\ s = "told"
  BY <1>2, <1>3, <1>4, <1>5 DEF AtClient
<1>8. AtClient(c, "none")'
  <2>1. \A i \in 1 .. Len(toServer'[c]) : FALSE
    BY <1>1, <1>2, <1>4, <1>7 DEF AtClient
  <2>2. ASSUME NEW i \in 1 .. Len(toEnd'[c])
        PROVE  toEnd'[c][i].type = "reply" /\ toEnd'[c][i].error
    <3>1. i + 1 # 1 /\ i + 1 \in 1 .. Len(toEnd[c]) /\ toEnd'[c][i] = toEnd[c][i + 1]
      BY <1>3
    <3>2. toEnd[c][i + 1].type = "reply"
      BY <1>2, <1>4, <3>1 DEF AtClient
    <3>3. toEnd[c][1].error \/ toEnd[c][i + 1].error \/ 1 = i + 1
      BY <1>2, <1>3, <1>4, <3>1 DEF AtClient
    <3>4. QED
      BY <1>3, <1>5, <3>1, <3>2, <3>3
  <2>3. QED
    BY <1>2, <2>1, <2>2 DEF AtClient
<1>9. ASSUME NEW p \in Pages PROVE AtPage(c, p, "none")'
  <2>1. p \in Ends /\ p # c
    BY EndsAssumption DEF Ends, Clients
  <2>2. toEnd'[p] = toEnd[p]
    BY <1>3, <2>1
  <2>3. QED
    BY <1>1, <1>4, <1>7, <2>2, PageSame
<1>10. NobodyLeft' /\ AnswersItself(c)'
  BY <1>1, <1>2, <1>5, <1>6, <1>7 DEF Orderly, NobodyLeft, AnswersItself
<1>11. QED
  BY <1>8, <1>9, <1>10 DEF Orderly

LEMMA PageReceivesOrderly ==
  ASSUME Inv, Base, NEW c \in Clients, AloneWithOnePage(c), NEW s \in Stages, Orderly(c, s),
         NEW p \in Pages, PageReceives(p)
  PROVE  \E t \in Stages : Orderly(c, t)'
<1> DEFINE m == Head(toEnd[p])
<1>0. p \in Ends /\ c \in Ends /\ p # c
  BY EndsAssumption DEF Ends, Clients
<1>1. /\ toEnd[p] # <<>>
      /\ toEnd' = [toEnd EXCEPT ![p] = Tail(@)]
      /\ approving' = [approving EXCEPT ![p] =
            IF m.type = "request" THEN @ \union {m.id} ELSE @]
      /\ UNCHANGED <<handler, toServer, at, calls, answer>>
  BY DEF PageReceives, Server
<1>2. /\ 1 \in 1 .. Len(toEnd[p]) /\ m = toEnd[p][1]
      /\ \A i \in 1 .. Len(toEnd'[p]) :
           i + 1 \in 1 .. Len(toEnd[p]) /\ toEnd'[p][i] = toEnd[p][i + 1]
      /\ \A f \in Ends \ {p} : toEnd'[f] = toEnd[f]
  BY <1>0, <1>1, EndTakesEffect
<1>3. at[p] # "away"
  BY <1>0, <1>1 DEF Base, AwayIsQuiet
<1>4. AtClient(c, s) /\ (\A q \in Pages : AtPage(c, q, s)) /\ AnswersItself(c)
  BY DEF Orderly
<1>5. /\ approving'[p] = IF m.type = "request" THEN approving[p] \union {m.id} ELSE approving[p]
      /\ \A q \in Pages \ {p} : approving'[q] = approving[q]
  BY <1>1 DEF Inv, TypeOK
<1>6. NobodyLeft' /\ AnswersItself(c)' /\ CallId(c)' = CallId(c)
  BY <1>1, <1>4 DEF Orderly, NobodyLeft, AnswersItself, CallId
<1>7. \A q \in Pages \ {p} : \A t : AtPage(c, q, t)'
  <2> SUFFICES ASSUME NEW q \in Pages \ {p}, NEW t PROVE AtPage(c, q, t)'
    OBVIOUS
  <2>1. at[q] = "away" /\ q \in Ends
    BY <1>0, <1>3, Company DEF Ends
  <2>2. AtPage(c, q, t)
    BY <2>1, AwayPage
  <2>3. QED
    BY <1>1, <1>2, <1>5, <2>1, <2>2, PageSame
<1> HIDE DEF m
<1>8. CASE m.type = "request"
  <2>1. /\ s = "carried" /\ m.id = CallId(c) /\ approving[p] = {}
        /\ \A j \in 1 .. Len(toEnd[p]) : toEnd[p][j].type = "request" => 1 = j
        /\ \A i \in 1 .. Len(toServer[p]) : toServer[p][i].type = "auth"
    BY <1>2, <1>4, <1>8 DEF AtPage
  <2>2. ASSUME NEW i \in 1 .. Len(toEnd'[p]) PROVE toEnd'[p][i].type # "request"
    <3>1. i + 1 # 1
      OBVIOUS
    <3>2. QED
      BY <1>2, <2>1, <3>1
  <2>3. AtPage(c, p, "considered")'
    BY <1>1, <1>5, <1>6, <1>8, <2>1, <2>2 DEF AtPage
  <2>4. AtClient(c, "considered")'
    BY <1>0, <1>1, <1>2, <1>4, <2>1, ClientSame
  <2>5. Orderly(c, "considered")'
    BY <1>6, <1>7, <2>3, <2>4 DEF Orderly
  <2>6. QED
    BY <2>5 DEF Stages
<1>9. CASE m.type # "request"
  <2>1. ASSUME NEW i \in 1 .. Len(toEnd'[p]), toEnd'[p][i].type = "request"
        PROVE  /\ s = "carried" /\ toEnd'[p][i].id = CallId(c)
               /\ \A j \in 1 .. Len(toEnd'[p]) : toEnd'[p][j].type = "request" => i = j
    <3>1. /\ s = "carried" /\ toEnd'[p][i].id = CallId(c)
          /\ \A j \in 1 .. Len(toEnd[p]) : toEnd[p][j].type = "request" => i + 1 = j
      BY <1>2, <1>4, <2>1 DEF AtPage
    <3>2. ASSUME NEW j \in 1 .. Len(toEnd'[p]), toEnd'[p][j].type = "request" PROVE i = j
      <4>1. i + 1 = j + 1
        BY <1>2, <3>1, <3>2
      <4>2. QED
        BY <4>1
    <3>3. QED
      BY <3>1, <3>2
  <2>2. AtPage(c, p, s)'
    <3>1. /\ \A id \in approving[p] : s = "considered" /\ id = CallId(c)
          /\ \A i \in 1 .. Len(toServer[p]) : toServer[p][i].type # "auth" =>
              /\ s = "answered" /\ toServer[p][i].type = "reply" /\ toServer[p][i].id = CallId(c)
              /\ \A j \in 1 .. Len(toServer[p]) : toServer[p][j].type # "auth" => i = j
      BY <1>4 DEF AtPage
    <3>2. approving'[p] = approving[p] /\ toServer'[p] = toServer[p]
      BY <1>1, <1>5, <1>9
    <3>3. QED
      BY <1>6, <2>1, <3>1, <3>2 DEF AtPage
  <2>3. AtClient(c, s)'
    BY <1>0, <1>1, <1>2, <1>4, ClientSame
  <2>4. Orderly(c, s)'
    BY <1>6, <1>7, <2>2, <2>3 DEF Orderly
  <2>5. QED
    BY <2>4
<1>10. QED
  BY <1>8, <1>9

LEMMA PageRespondsOrderly ==
  ASSUME Inv, Base, NEW c \in Clients, AloneWithOnePage(c), NEW s \in Stages, Orderly(c, s),
         NEW p \in Pages, PageResponds(p)
  PROVE  Orderly(c, "answered")'
<1>0. p \in Ends /\ c \in Ends /\ p # c
  BY EndsAssumption DEF Ends, Clients
<1>1. PICK id \in approving[p], failed \in BOOLEAN :
        /\ approving' = [approving EXCEPT ![p] = @ \ {id}]
        /\ toServer' = [toServer EXCEPT ![p] =
                Append(@, [type |-> "reply", id |-> id, error |-> failed])]
        /\ p \in open
        /\ UNCHANGED <<handler, toEnd, at, calls, answer>>
  BY DEF PageResponds, Server
<1> DEFINE m == [type |-> "reply", id |-> id, error |-> failed]
<1>2. m \in Sent /\ m.type = "reply" /\ m.id = id
  BY DEF Sent, Replies, Inv, TypeOK
<1>3. toServer' = [toServer EXCEPT ![p] = Append(@, m)]
  BY <1>1
<1> HIDE DEF m
<1>4. /\ \A f \in Ends \ {p} : toServer'[f] = toServer[f]
      /\ Len(toServer[p]) \in Nat
      /\ \A i \in 1 .. Len(toServer'[p]) :
           \/ i \in 1 .. Len(toServer[p]) /\ toServer'[p][i] = toServer[p][i]
           \/ i = Len(toServer[p]) + 1 /\ toServer'[p][i] = m
  BY <1>0, <1>2, <1>3, EndSendsEffect
<1>5. at[p] # "away"
  BY <1>0, <1>1 DEF Base, AwayIsQuiet
<1>6. AtClient(c, s) /\ (\A q \in Pages : AtPage(c, q, s)) /\ AnswersItself(c)
  BY DEF Orderly
<1>7. /\ approving'[p] = approving[p] \ {id}
      /\ \A q \in Pages \ {p} : approving'[q] = approving[q]
  BY <1>1 DEF Inv, TypeOK
<1>8. NobodyLeft' /\ AnswersItself(c)' /\ CallId(c)' = CallId(c)
  BY <1>1, <1>6 DEF Orderly, NobodyLeft, AnswersItself, CallId
<1>9. ASSUME NEW q \in Pages, q # p PROVE AtPage(c, q, "answered")'
  <2>1. at[q] = "away" /\ q \in Ends
    BY <1>0, <1>5, <1>9, Company DEF Ends
  <2>2. AtPage(c, q, "answered")
    BY <2>1, AwayPage
  <2>3. QED
    BY <1>1, <1>4, <1>7, <1>9, <2>1, <2>2, PageSame
<1>10. /\ s = "considered" /\ id = CallId(c)
       /\ \A i \in approving[p] : i = CallId(c)
       /\ \A i \in 1 .. Len(toEnd[p]) : toEnd[p][i].type # "request"
       /\ \A i \in 1 .. Len(toServer[p]) : toServer[p][i].type = "auth"
  BY <1>6 DEF AtPage
<1>11. AtPage(c, p, "answered")'
  <2>1. approving'[p] = {} /\ toEnd'[p] = toEnd[p]
    BY <1>1, <1>7, <1>10
  <2>2. \A i \in 1 .. Len(toServer'[p]) : toServer'[p][i].type # "auth" =>
          i = Len(toServer[p]) + 1 /\ toServer'[p][i] = m
    BY <1>4, <1>10
  <2>3. QED
    BY <1>2, <1>8, <1>10, <2>1, <2>2 DEF AtPage
<1>12. AtClient(c, "answered")'
  BY <1>0, <1>1, <1>4, <1>6, <1>10, ClientSame
<1>13. QED
  BY <1>8, <1>9, <1>11, <1>12 DEF Orderly

LEMMA CloseOrderly ==
  ASSUME Inv, Base, NEW c \in Clients, NEW s \in Stages, Orderly(c, s), NEW e \in Ends, Close(e)
  PROVE  Orderly(c, s)'
<1>1. /\ at[e] \in {"rejected", "ready"}
      /\ at' = [at EXCEPT ![e] = "over"]
      /\ toEnd' = [toEnd EXCEPT ![e] = <<>>]
      /\ approving' = [p \in Pages |-> IF p = e THEN {} ELSE approving[p]]
      /\ UNCHANGED <<handler, toServer, calls, answer>>
  BY DEF Close
<1>2. /\ at'[e] = "over" /\ toEnd'[e] = <<>> /\ c \in Ends
      /\ \A f \in Ends : f # e => at'[f] = at[f] /\ toEnd'[f] = toEnd[f]
  BY <1>1 DEF Inv, TypeOK, Ends
<1>3. AtClient(c, s) /\ (\A p \in Pages : AtPage(c, p, s)) /\ AnswersItself(c)
  BY DEF Orderly
<1>4. CallId(c)' = CallId(c)
  BY <1>1 DEF CallId
<1>5. AtClient(c, s)'
  <2>1. CASE e = c
    <3>1. s = "none"
      BY <1>1, <1>3, <2>1 DEF AtClient, Waiting
    <3>2. \A i \in 1 .. Len(toServer'[c]) : FALSE
      BY <1>1, <1>3, <2>1, <3>1 DEF AtClient
    <3>3. \A i \in 1 .. Len(toEnd'[c]) : FALSE
      BY <1>2, <2>1
    <3>4. at'[c] # "joining"
      BY <1>2, <2>1
    <3>5. QED
      BY <3>1, <3>2, <3>3, <3>4 DEF AtClient
  <2>2. CASE e # c
    BY <1>1, <1>2, <1>3, <2>2, ClientSame
  <2>3. QED
    BY <2>1, <2>2
<1>6. ASSUME NEW p \in Pages PROVE AtPage(c, p, s)'
  <2>1. p \in Ends
    BY DEF Ends
  <2>2. CASE p = e
    <3>1. toEnd'[p] = <<>> /\ approving'[p] = {} /\ toServer'[p] = toServer[p]
      BY <1>1, <1>2, <2>2
    <3>2. AtPage(c, p, s)
      BY <1>3
    <3>3. QED
      BY <1>4, <3>1, <3>2 DEF AtPage
  <2>3. CASE p # e
    BY <1>1, <1>2, <1>3, <2>1, <2>3, PageSame
  <2>4. QED
    BY <2>2, <2>3
<1>7. NobodyLeft' /\ AnswersItself(c)'
  BY <1>1, <1>3, <1>4 DEF Orderly, NobodyLeft, AnswersItself
<1>8. QED
  BY <1>5, <1>6, <1>7 DEF Orderly

----------------------------------------------------------------------------

\* An end that has come does not become one that has not, nor trouble undone.
LEMMA ShelteredBefore ==
  ASSUME Inv, [Next]_vars, NEW c \in Clients, Sheltered(c)'
  PROVE  Sheltered(c)
<1>1. at \in [Ends -> {"away", "joining", "rejected", "ready", "waiting", "over"}]
      /\ Clients \subseteq Ends /\ Pages \subseteq Ends
  BY DEF Inv, TypeOK, Ends
<1>2. troubled \subseteq troubled' /\ \A e \in Ends : at'[e] = "away" => at[e] = "away"
  <2>1. CASE at' = at /\ troubled' = troubled
    BY <2>1
  <2>2. CASE \E e \in Ends : Serve(e)
    BY <2>2 DEF Serve, Authenticate, Reject, RefuseRequest, Relay, RelayTimesOut, Forget, ends
  <2>3. CASE \E e \in Ends : Join(e) \/ Close(e)
    <3>1. PICK e \in Ends : Join(e) \/ Close(e)
      BY <2>3
    <3>2. troubled' = troubled /\ \E v \in {"joining", "ready", "over"} : at' = [at EXCEPT ![e] = v]
      BY <3>1 DEF Join, Close
    <3>3. QED
      BY <1>1, <3>2
  <2>4. CASE \E d \in Clients : ClientStep(d) \/ Call(d)
    <3>1. PICK d \in Clients : ClientStep(d) \/ Call(d)
      BY <2>4
    <3>2. troubled \subseteq troubled'
      BY <3>1 DEF ClientStep, Call, ReceiveWelcome, ReceiveReply, GiveUp
    <3>3. \E v \in {"ready", "rejected", "waiting"} : at' = [at EXCEPT ![d] = v]
      BY <1>1, <3>1 DEF ClientStep, Call, ReceiveWelcome, ReceiveReply, GiveUp, AfterError
    <3>4. QED
      BY <1>1, <3>2, <3>3
  <2>5. CASE \E p \in Pages : PageReceives(p) \/ PageResponds(p)
    BY <2>5 DEF PageReceives, PageResponds
  <2>6. QED
    BY <2>1, <2>2, <2>3, <2>4, <2>5 DEF vars, Next
<1>3. QED
  BY <1>1, <1>2 DEF Sheltered, AloneWithOnePage

LEMMA OneCallInit == Init => OneCallAtATime
<1> SUFFICES ASSUME Init, NEW c \in Clients PROVE \E s \in Stages : Orderly(c, s)
  BY DEF OneCallAtATime
<1>1. /\ \A e \in Ends : at[e] = "away" /\ toServer[e] = <<>> /\ toEnd[e] = <<>> /\ ~handler[e].busy
      /\ \A p \in Pages : approving[p] = {}
      /\ answer[c] = Idle
      /\ c \in Ends /\ Pages \subseteq Ends
  BY DEF Init, Ends, Idle
<1>2. AtClient(c, "none")
  <2>1. at[c] = "away" /\ toServer[c] = <<>> /\ toEnd[c] = <<>>
    BY <1>1
  <2>2. QED
    BY <2>1 DEF AtClient
<1>3. \A p \in Pages : AtPage(c, p, "none")
  BY <1>1 DEF AtPage
<1>4. Orderly(c, "none")
  BY <1>1, <1>2, <1>3 DEF Orderly, NobodyLeft, AnswersItself
<1>5. QED
  BY <1>4 DEF Stages

LEMMA OneCallStep == Inv /\ Base /\ OneCallAtATime /\ [Next]_vars => OneCallAtATime'
<1> SUFFICES ASSUME Inv, Base, OneCallAtATime, [Next]_vars, NEW c \in Clients, Sheltered(c)'
             PROVE  \E t \in Stages : Orderly(c, t)'
  BY DEF OneCallAtATime
<1>1. Sheltered(c) /\ AloneWithOnePage(c) /\ AloneWithOnePage(c)' /\ c \notin troubled'
  BY ShelteredBefore DEF Sheltered
<1>2. PICK s \in Stages : Orderly(c, s)
  BY <1>1 DEF OneCallAtATime
<1>3. ASSUME NEW e \in Ends, Serve(e) PROVE \E t \in Stages : Orderly(c, t)'
  <2>1. CASE Relay(e)
    BY <1>1, <1>2, <2>1, RelayOrderly
  <2>2. CASE ~Relay(e)
    <3>1. Orderly(c, s)'
      BY <1>1, <1>2, <1>3, <2>2, AuthenticateOrderly, RefuseRequestOrderly,
         RelayTimesOutOrderly, ForgetOrderly DEF Serve
    <3>2. QED
      BY <3>1
  <2>3. QED
    BY <2>1, <2>2
<1>4. ASSUME NEW e \in Ends, Join(e) \/ Close(e) PROVE \E t \in Stages : Orderly(c, t)'
  <2>1. Orderly(c, s)'
    BY <1>1, <1>2, <1>4, JoinOrderly, CloseOrderly
  <2>2. QED
    BY <2>1
<1>5. ASSUME NEW d \in Clients, ClientStep(d) \/ Call(d) PROVE \E t \in Stages : Orderly(c, t)'
  <2>1. at[d] # "away" /\ d \in Ends
    BY <1>5 DEF ClientStep, Call, ReceiveWelcome, ReceiveReply, GiveUp, Waiting, Ends
  <2>2. d = c
    BY <1>1, <2>1 DEF AloneWithOnePage
  <2>3. CASE ReceiveWelcome(c)
    BY <1>2, <2>3, ReceiveWelcomeOrderly
  <2>4. CASE Call(c)
    <3>1. Orderly(c, "asked")'
      BY <1>2, <2>4, CallOrderly
    <3>2. QED
      BY <3>1 DEF Stages
  <2>5. CASE ReceiveReply(c)
    <3>1. Orderly(c, "none")'
      BY <1>1, <1>2, <2>5, ReceiveReplyOrderly
    <3>2. QED
      BY <3>1 DEF Stages
  <2>6. ~GiveUp(c)
    BY <1>1 DEF GiveUp
  <2>7. QED
    BY <1>5, <2>2, <2>3, <2>4, <2>5, <2>6 DEF ClientStep
<1>6. ASSUME NEW p \in Pages, PageReceives(p) \/ PageResponds(p)
      PROVE  \E t \in Stages : Orderly(c, t)'
  <2>1. CASE PageReceives(p)
    BY <1>1, <1>2, <2>1, PageReceivesOrderly
  <2>2. CASE PageResponds(p)
    <3>1. Orderly(c, "answered")'
      BY <1>1, <1>2, <2>2, PageRespondsOrderly
    <3>2. QED
      BY <3>1 DEF Stages
  <2>3. QED
    BY <1>6, <2>1, <2>2
<1>7. CASE UNCHANGED vars
  <2>1. Orderly(c, s)'
    BY <1>2, <1>7, Unmoved DEF vars
  <2>2. QED
    BY <2>1
<1>8. QED
  BY <1>3, <1>4, <1>5, <1>6, <1>7 DEF Next

\* However many ends there may be and however many calls a client makes: while
\* no other client and no second page has come, what it reads is the result of
\* the call it is in (client.py:97-114, bridge.py:237-266).
THEOREM OwnResults == Spec => []OwnResultUntilTrouble
<1>1. OneCallAtATime => OwnResultUntilTrouble
  BY DEF OneCallAtATime, OwnResultUntilTrouble, Sheltered, Orderly, AnswersItself
<1>2. QED
  BY <1>1, InvInit, InvStep, BaseInit, BaseStep, OneCallInit, OneCallStep, PTL DEF Spec
=============================================================================
