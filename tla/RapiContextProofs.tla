-------------------------- MODULE RapiContextProofs --------------------------
(***************************************************************************)
(* A proof about RapiContext, for every table of functions in which the    *)
(* command decides how many messages answer it, and every set of versions  *)
(* whose protocol is chosen right: a call is never answered with the reply *)
(* to another.                                                             *)
(***************************************************************************)
EXTENDS RapiContext, TLAPS

----------------------------------------------------------------------------
(* The inductive invariant: on a connection there is at most the call that *)
(* waits, and what is still to come for it.                                *)

Commands == [n : Nat, cmd : {Ops[b][f].cmd : b \in Backends, f \in Names}, name : Names]
Texts == {<<>>} \cup UNION {TextsOf(b, f, ok) : b \in Backends, f \in Names, ok \in BOOLEAN}
Replies == [n : Nat, words : Texts, whole : BOOLEAN, came : BOOLEAN]

\* The variables that are records, as far as the argument needs them.
ContextShape ==
    /\ DOMAIN context = {"is_initialized", "rapi_ops", "socket", "rapi_error", "last_error"}
    /\ context.is_initialized \in BOOLEAN
CallShape ==
    /\ DOMAIN call = {"n", "name", "got"}
    /\ call.n \in Nat
    /\ calls \in Nat

WireTypes ==
    /\ requests \in Seq(Commands) /\ replies \in Seq(Replies)
    /\ alive \in BOOLEAN
    /\ alive => peer \in Backends

\* An initialized context speaks what the device at the other end understands.
SameProtocol ==
    /\ context.is_initialized => context.rapi_ops \in Backends
    /\ alive /\ context.is_initialized => peer = context.rapi_ops

\* The messages that the call still expects.
Expected == IF call.got = <<>> THEN Row.messages ELSE 1

Conversation ==
    /\ ~Waiting => requests = <<>> /\ replies = <<>>
    /\ Waiting =>
         /\ context.is_initialized /\ call.name \in Names
         /\ \/ requests = <<>> /\ Len(replies) <= Expected
            \/ Len(requests) = 1 /\ replies = <<>> /\ call.got = <<>>
         /\ \A i \in DOMAIN requests : requests[i].n = call.n /\ requests[i].cmd = Row.cmd
         /\ \A i \in DOMAIN replies : replies[i].n = call.n
         /\ call.got # <<>> => call.got[2] = call.n

OwnInv ==
    /\ ContextShape
    /\ CallShape
    /\ WireTypes
    /\ SameProtocol
    /\ Conversation
    /\ AnswerIsOwn

----------------------------------------------------------------------------
(* Steps without a waiting call.                                           *)

\* A sequence without elements is the empty one.
LEMMA NothingLeft == ASSUME NEW S, NEW s \in Seq(S), Len(s) = 0 PROVE s = <<>>
  OBVIOUS

\* Error codes are all that a call changes in an open context.
LEMMA ErrorsShape ==
    ASSUME ContextShape, NEW r, NEW l
    PROVE  /\ Errors(r, l).is_initialized = context.is_initialized
           /\ Errors(r, l).rapi_ops = context.rapi_ops
           /\ Errors(r, l).socket = context.socket
           /\ DOMAIN Errors(r, l) = DOMAIN context
  BY DEF ContextShape, Errors

\* Connecting finds no call under way, and leaves none.
LEMMA ConnectOwn == ASSUME OwnInv, Connect PROVE OwnInv'
<1> USE DEF OwnInv, ContextShape, CallShape, WireTypes, SameProtocol, Conversation,
            Waiting, NoCall
<1>1. call.n = 0 /\ requests = <<>> /\ replies = <<>>
      /\ UNCHANGED <<calls, call, result>>
  BY DEF Connect
<1>2. PICK t \in Transports, os \in OsVersions :
         ConnectSucceeds(t, os) \/ ConnectDenied(os) \/ ConnectFails(t)
  BY DEF Connect
<1>3. Speaks(t, os) \in Backends /\ Chosen(t, os) = Speaks(t, os)
      /\ Speaks("ppp", os) \in Backends
  BY VersionsAssumption
<1>4. AnswerIsOwn'
  BY <1>1 DEF AnswerIsOwn
<1>5. CASE ConnectSucceeds(t, os)
  BY <1>1, <1>3, <1>4, <1>5 DEF ConnectSucceeds, Connected
<1>6. CASE ConnectDenied(os)
  BY <1>1, <1>3, <1>4, <1>6 DEF ConnectDenied, Connected, Connect
<1>7. CASE ConnectFails(t)
  BY <1>1, <1>4, <1>7 DEF ConnectFails, SocketClosed, Connect
<1> QED
  BY <1>2, <1>5, <1>6, <1>7

\* So does disconnecting.
LEMMA DisconnectOwn == ASSUME OwnInv, Disconnect PROVE OwnInv'
  BY DEF Disconnect, SocketClosed, AnswerIsOwn, OwnInv, ContextShape, CallShape, WireTypes,
     SameProtocol, Conversation, Waiting

\* A call that is answered without a message.
LEMMA AnsweredOwn ==
    ASSUME OwnInv, ~Waiting, NEW f, NEW b, NEW value, NEW r, NEW l,
           Answered(f, b, value, r, l)
    PROVE  OwnInv'
<1>1. /\ context' = Errors(r, l) /\ calls' = calls + 1 /\ call' = NoCall
      /\ result'.from = 0 /\ UNCHANGED <<requests, replies, peer, alive>>
  BY DEF Answered, Return, wire
<1>2. ContextShape /\ UNCHANGED <<context.is_initialized, context.rapi_ops>> /\ ContextShape'
  BY <1>1, ErrorsShape DEF OwnInv, ContextShape
<1> QED
  BY <1>1, <1>2 DEF OwnInv, CallShape, WireTypes, SameProtocol, Conversation, Waiting, NoCall,
     AnswerIsOwn

\* A command is written on a connection with nothing on it.
LEMMA SentOwn == ASSUME OwnInv, ~Waiting, NEW f \in Names, SentCall(f) PROVE OwnInv'
<1> DEFINE row == Ops[context.rapi_ops][f]
<1>1. /\ context.is_initialized /\ calls' = calls + 1
      /\ call' = [n |-> calls + 1, name |-> f, got |-> <<>>] /\ result' = NoResult
      /\ context' = Errors(ErrorOf(row, E_UNEXPECTED), Kept)
      /\ requests' = IF alive THEN Append(requests, [n |-> calls + 1, cmd |-> row.cmd, name |-> f])
                     ELSE requests
      /\ UNCHANGED <<replies, peer, alive>>
  BY DEF SentCall
<1>2. /\ ContextShape' /\ context'.is_initialized = context.is_initialized
      /\ context'.rapi_ops = context.rapi_ops
  BY <1>1, ErrorsShape DEF OwnInv, ContextShape
<1>3. requests = <<>> /\ replies = <<>> /\ context.rapi_ops \in Backends /\ calls \in Nat
  BY <1>1 DEF OwnInv, Conversation, SameProtocol, CallShape
<1>4. call'.n = calls + 1 /\ call'.name = f /\ call'.got = <<>> /\ Row' = row
  BY <1>1, <1>2 DEF Row
<1>5. [n |-> calls + 1, cmd |-> row.cmd, name |-> f] \in Commands
  BY <1>3 DEF Commands
<1>6. requests' \in Seq(Commands)
      /\ (requests' = <<>> \/ requests' = <<[n |-> calls + 1, cmd |-> row.cmd, name |-> f]>>)
  BY <1>1, <1>3, <1>5
<1>7. row.messages \in {1, 2}
  BY <1>3, RapiAssumption
<1>8. Conversation'
  BY <1>1, <1>2, <1>3, <1>4, <1>6, <1>7 DEF Conversation, Waiting, Expected
<1>9. AnswerIsOwn'
  BY <1>1 DEF AnswerIsOwn, NoResult
<1> QED
  BY <1>1, <1>2, <1>3, <1>4, <1>6, <1>8, <1>9 DEF OwnInv, CallShape, WireTypes, SameProtocol

\* A command that could not be written closes the socket.
LEMMA UnsentOwn == ASSUME OwnInv, ~Waiting, NEW f, UnsentCall(f) PROVE OwnInv'
<1> DEFINE errors == Errors(ErrorOf(Ops[context.rapi_ops][f], E_FAIL), Kept)
<1>1. /\ calls' = calls + 1 /\ call' = NoCall /\ result'.from = 0
      /\ context' = [errors EXCEPT !.socket = "closed"]
      /\ requests' = <<>> /\ replies' = <<>> /\ alive' = FALSE
  BY DEF UnsentCall, Return, SocketClosed
<1>2. /\ ContextShape' /\ context'.is_initialized = context.is_initialized
      /\ context'.rapi_ops = context.rapi_ops
  BY <1>1, ErrorsShape DEF OwnInv, ContextShape
<1> HIDE DEF errors
<1>3. CallShape' /\ Conversation' /\ AnswerIsOwn'
  BY <1>1, <1>2 DEF OwnInv, CallShape, Conversation, Waiting, NoCall, AnswerIsOwn
<1>4. WireTypes' /\ SameProtocol'
  <2>1. alive' \in BOOLEAN /\ ~alive'
    BY <1>1, Zenon
  <2>2. WireTypes'
    BY <1>1, <2>1 DEF WireTypes
  <2> QED
    BY <1>2, <2>1, <2>2 DEF OwnInv, SameProtocol
<1> QED
  BY <1>2, <1>3, <1>4 DEF OwnInv

\* A call that is made, in any of the three ways, keeps it.
LEMMA MakeCallOwn == ASSUME OwnInv, MakeCall PROVE OwnInv'
<1>1. ~Waiting
  BY DEF MakeCall
<1>2. PICK f \in IF calls = 0 THEN Names ELSE Followers :
          \/ \E a \in Apis : NotConnectedCall(a, f)
          \/ NotImplementedCall(f)
          \/ RefusedCall(f)
          \/ SentCall(f)
          \/ UnsentCall(f)
  BY DEF MakeCall
<1>3. f \in Names
  BY <1>2, RapiAssumption
<1>4. CASE \E a \in Apis : NotConnectedCall(a, f)
  BY <1>1, <1>4, AnsweredOwn DEF NotConnectedCall
<1>5. CASE NotImplementedCall(f)
  BY <1>1, <1>5, AnsweredOwn DEF NotImplementedCall
<1>6. CASE RefusedCall(f)
  BY <1>1, <1>6, AnsweredOwn DEF RefusedCall
<1> QED
  BY <1>1, <1>2, <1>3, <1>4, <1>5, <1>6, SentOwn, UnsentOwn

----------------------------------------------------------------------------
(* A waiting call.                                                         *)

\* What is read while a call waits is a message for it.
LEMMA CameOwn ==
    ASSUME OwnInv, Waiting, Came
    PROVE  /\ requests = <<>> /\ replies \in Seq(Replies)
           /\ Len(replies) \in 1..Expected /\ Head(replies).n = call.n
           /\ Row.messages \in {1, 2} /\ call.n \in Nat \ {0}
           /\ Tail(replies) \in Seq(Replies) /\ Len(Tail(replies)) = Len(replies) - 1
           /\ \A i \in DOMAIN Tail(replies) : Tail(replies)[i].n = call.n
<1>1. replies # <<>> /\ replies \in Seq(Replies) /\ call.n \in Nat
  BY DEF Came, OwnInv, WireTypes, CallShape
<1>2. /\ requests = <<>> /\ Len(replies) <= Expected
      /\ \A i \in DOMAIN replies : replies[i].n = call.n
  BY <1>1 DEF OwnInv, Conversation
<1>3. Row.messages \in {1, 2}
  BY RapiAssumption DEF OwnInv, Conversation, SameProtocol, Row
<1>4. Len(replies) \in Nat \ {0} /\ Head(replies) = replies[1]
  BY <1>1
<1>5. Expected \in {1, 2}
  BY <1>3 DEF Expected
<1>6. /\ Tail(replies) \in Seq(Replies) /\ Len(Tail(replies)) = Len(replies) - 1
      /\ \A i \in DOMAIN Tail(replies) : Tail(replies)[i] = replies[i + 1]
  BY <1>1, <1>4
<1>7. \A i \in DOMAIN Tail(replies) : i + 1 \in DOMAIN replies
  BY <1>1, <1>4, <1>6
<1> QED
  BY <1>1, <1>2, <1>3, <1>4, <1>5, <1>6, <1>7 DEF Waiting

\* The first of two messages leaves the second to come.
LEMMA ReadFirstOwn == ASSUME OwnInv, ReadFirst PROVE OwnInv'
<1> DEFINE errors == Errors(Kept, LastErrorRead(Row, Head(replies).words, Kept))
<1>1. Waiting /\ Came /\ Row.messages = 2 /\ call.got = <<>>
  BY DEF ReadFirst
<1>2. PICK value : call' = [call EXCEPT !.got = <<value, Head(replies).n, Head(replies).whole>>]
  BY DEF ReadFirst
<1>3. context' = errors /\ replies' = Tail(replies)
      /\ UNCHANGED <<calls, result, requests, peer, alive>>
  BY DEF ReadFirst
<1>4. /\ ContextShape' /\ context'.is_initialized = context.is_initialized
      /\ context'.rapi_ops = context.rapi_ops
  BY <1>3, ErrorsShape DEF OwnInv, ContextShape
<1> HIDE DEF errors
<1>5. call'.n = call.n /\ call'.name = call.name /\ DOMAIN call' = {"n", "name", "got"}
      /\ call'.got = <<value, Head(replies).n, Head(replies).whole>>
  BY <1>2 DEF OwnInv, CallShape
<1>6. call'.got # <<>> /\ call'.got[2] = Head(replies).n
  BY <1>5
<1>7. Row' = Row
  BY <1>4, <1>5 DEF Row
<1>8. Conversation'
  BY <1>1, <1>3, <1>4, <1>5, <1>6, <1>7, CameOwn
  DEF OwnInv, Conversation, Waiting, Expected
<1>9. CallShape' /\ AnswerIsOwn'
  BY <1>3, <1>5 DEF OwnInv, CallShape, AnswerIsOwn
<1>10. WireTypes' /\ SameProtocol'
  BY <1>1, <1>3, <1>4, CameOwn DEF OwnInv, WireTypes, SameProtocol
<1> QED
  BY <1>4, <1>8, <1>9, <1>10 DEF OwnInv

\* The second is the last.
LEMMA ReadSecondOwn == ASSUME OwnInv, ReadSecond PROVE OwnInv'
<1>1. Waiting /\ Came /\ call.got # <<>>
  BY DEF ReadSecond
<1>2. /\ call' = NoCall /\ result'.n = call.n /\ result'.from = call.got[2]
      /\ replies' = Tail(replies) /\ UNCHANGED <<context, calls, requests, peer, alive>>
  BY DEF ReadSecond, Return
<1>3. call.got[2] = call.n
  BY <1>1 DEF OwnInv, Conversation
<1>4. requests = <<>> /\ replies' \in Seq(Replies) /\ Len(replies') = 0
  <2>1. Expected = 1
    BY <1>1 DEF Expected
  <2>2. /\ requests = <<>> /\ Len(replies) \in 1..Expected
        /\ Tail(replies) \in Seq(Replies) /\ Len(Tail(replies)) = Len(replies) - 1
    BY <1>1, CameOwn
  <2> QED
    BY <1>2, <2>1, <2>2
<1>5. replies' = <<>>
  BY <1>4
<1> QED
  BY <1>2, <1>3, <1>4, <1>5 DEF OwnInv, ContextShape, CallShape, WireTypes, SameProtocol,
     Conversation, Waiting, NoCall, AnswerIsOwn

\* So is the only one.
LEMMA ReadReplyOwn == ASSUME OwnInv, ReadReply PROVE OwnInv'
<1>1. Waiting /\ Came /\ Row.messages = 1
  BY DEF ReadReply
<1>2. /\ call' = NoCall /\ result'.n = call.n /\ result'.from = Head(replies).n
      /\ replies' = Tail(replies) /\ UNCHANGED <<calls, requests, peer, alive>>
  BY DEF ReadReply, Return
<1>3. PICK r, l : context' = Errors(r, l)
  BY DEF ReadReply
<1>4. /\ ContextShape' /\ context'.is_initialized = context.is_initialized
      /\ context'.rapi_ops = context.rapi_ops
  BY <1>3, ErrorsShape DEF OwnInv, ContextShape
<1>5. requests = <<>> /\ replies' \in Seq(Replies) /\ Len(replies') = 0
      /\ Head(replies).n = call.n
  BY <1>1, <1>2, CameOwn DEF Expected
<1>6. replies' = <<>>
  BY <1>5
<1>7. CallShape' /\ Conversation' /\ AnswerIsOwn'
  BY <1>2, <1>5, <1>6 DEF OwnInv, CallShape, Conversation, Waiting, NoCall, AnswerIsOwn
<1>8. WireTypes' /\ SameProtocol'
  BY <1>2, <1>4, <1>5 DEF OwnInv, WireTypes, SameProtocol
<1> QED
  BY <1>4, <1>7, <1>8 DEF OwnInv

\* A call that is given up closes the socket, and what was on it is gone.
LEMMA NoAnswerOwn == ASSUME OwnInv, NoAnswer PROVE OwnInv'
<1> DEFINE errors == Errors(ErrorOf(Row, E_FAIL), Kept)
<1>1. /\ call' = NoCall /\ result'.from = 0 /\ calls' = calls
      /\ context' = [errors EXCEPT !.socket = "closed"]
      /\ requests' = <<>> /\ replies' = <<>> /\ alive' = FALSE
  BY DEF NoAnswer, Return, SocketClosed
<1>2. /\ ContextShape' /\ context'.is_initialized = context.is_initialized
      /\ context'.rapi_ops = context.rapi_ops
  BY <1>1, ErrorsShape DEF OwnInv, ContextShape
<1> HIDE DEF errors
<1>3. CallShape' /\ Conversation' /\ AnswerIsOwn'
  BY <1>1, <1>2 DEF OwnInv, CallShape, Conversation, Waiting, NoCall, AnswerIsOwn
<1>4. WireTypes' /\ SameProtocol'
  <2>1. alive' \in BOOLEAN /\ ~alive'
    BY <1>1, Zenon
  <2>2. WireTypes'
    BY <1>1, <2>1 DEF WireTypes
  <2> QED
    BY <1>2, <2>1, <2>2 DEF OwnInv, SameProtocol
<1> QED
  BY <1>2, <1>3, <1>4 DEF OwnInv

----------------------------------------------------------------------------
(* The device and the link.                                                *)

\* A command that the device takes is answered with as many messages as the call
\* expects.
LEMMA ServeOwn == ASSUME OwnInv, Serve PROVE OwnInv'
<1>1. alive /\ requests # <<>> /\ peer \in Backends
  BY DEF Serve, OwnInv, WireTypes
<1>2. /\ Waiting /\ context.is_initialized /\ call.name \in Names
      /\ Len(requests) = 1 /\ replies = <<>> /\ call.got = <<>>
      /\ requests[1].n = call.n /\ requests[1].cmd = Row.cmd
  BY <1>1 DEF OwnInv, Conversation, WireTypes
<1>3. peer = context.rapi_ops /\ Head(requests) = requests[1] /\ Tail(requests) = <<>>
  <2>1. peer = context.rapi_ops
    BY <1>1, <1>2 DEF OwnInv, SameProtocol
  <2>2. requests \in Seq(Commands)
    BY DEF OwnInv, WireTypes
  <2>3. Tail(requests) \in Seq(Commands) /\ Len(Tail(requests)) = 0
    BY <1>2, <2>2, SMTT(30)
  <2>4. Tail(requests) = <<>>
    BY <2>3, NothingLeft
  <2> QED
    BY <1>2, <2>1, <2>2, <2>4
<1>4. PICK f \in Names, ok \in BOOLEAN, came \in BOOLEAN :
        /\ Ops[peer][f].cmd = Head(requests).cmd
        /\ \E words \in TextsOf(peer, f, ok) :
              replies' = replies \o Messages(Head(requests), f, words,
                                             words \in Wholes(peer, f, ok), came)
  BY Zenon DEF Serve
<1> DEFINE wholes == Wholes(peer, f, ok)
<1>5. PICK words \in TextsOf(peer, f, ok) :
          replies' = replies \o Messages(Head(requests), f, words, words \in wholes, came)
  BY <1>4, Zenon
<1>6. words \in Texts
  BY <1>1, <1>4, <1>5 DEF Texts
<1> HIDE DEF wholes
<1> DEFINE whole == words \in wholes
<1>7. whole \in BOOLEAN
  OBVIOUS
<1> DEFINE first == [n |-> call.n, words |-> words, whole |-> whole, came |-> came]
           messages == Messages(Head(requests), f, words, whole, came)
<1> HIDE DEF whole
<1>8. first \in Replies /\ [first EXCEPT !.came = TRUE] \in Replies
      /\ [first EXCEPT !.words = <<>>] \in Replies
  <2>1. call.n \in Nat /\ came \in BOOLEAN /\ TRUE \in BOOLEAN /\ <<>> \in Texts
    BY <1>4 DEF Texts, OwnInv, CallShape
  <2>2. first \in Replies
    BY <1>6, <1>7, <2>1 DEF Replies
  <2>3. [first EXCEPT !.came = TRUE] \in Replies
    BY <1>6, <1>7, <2>1 DEF Replies
  <2>4. [first EXCEPT !.words = <<>>] \in Replies
    BY <1>6, <1>7, <2>1 DEF Replies
  <2> QED
    BY <2>2, <2>3, <2>4
<1>9. Ops[peer][f].messages = Row.messages /\ Row.messages \in {1, 2}
  BY <1>1, <1>2, <1>3, <1>4, RapiAssumption DEF Row
<1> DEFINE begun == [first EXCEPT !.came = TRUE]
           second == [first EXCEPT !.words = <<>>]
<1>10. messages = IF Row.messages = 1 THEN <<first>> ELSE <<begun, second>>
  BY <1>2, <1>3, <1>9 DEF Messages
<1>11. first.n = call.n /\ begun.n = call.n /\ second.n = call.n
  OBVIOUS
<1>12. replies' = <<>> \o messages
  BY <1>2, <1>5 DEF whole
<1> HIDE DEF first, begun, second, messages
<1>13. /\ replies' \in Seq(Replies) /\ Len(replies') <= Row.messages
       /\ \A i \in DOMAIN replies' : replies'[i].n = call.n
  <2>1. CASE Row.messages = 1
    <3>1. messages = <<first>> /\ <<first>> \in Seq(Replies)
      BY <1>8, <1>10, <2>1 DEF begun, second
    <3>2. replies' = <<first>>
      BY <1>12, <3>1
    <3> QED
      BY <1>11, <2>1, <3>1, <3>2
  <2>2. CASE Row.messages = 2
    <3>1. messages = <<begun, second>>
      BY <1>10, <2>2
    <3>2. begun \in Replies /\ second \in Replies
      BY <1>8 DEF begun, second
    <3>3. <<begun, second>> \in Seq(Replies)
      BY <3>2
    <3>4. replies' = <<begun, second>>
      BY <1>12, <3>1, <3>3
    <3> QED
      BY <1>11, <2>2, <3>3, <3>4
  <2> QED
    BY <1>9, <2>1, <2>2
<1>14. requests' = <<>> /\ UNCHANGED <<context, calls, call, result, peer, alive>>
  BY <1>3 DEF Serve
<1>15. Conversation'
  BY <1>2, <1>13, <1>14 DEF Conversation, Waiting, Expected, Row
<1>16. WireTypes'
  BY <1>13, <1>14 DEF OwnInv, WireTypes
<1> QED
  BY <1>14, <1>15, <1>16 DEF OwnInv, ContextShape, CallShape, SameProtocol, AnswerIsOwn

\* The rest of a message belongs to the call its beginning belongs to.
LEMMA RestArrivesOwn == ASSUME OwnInv, RestArrives PROVE OwnInv'
<1>1. /\ replies # <<>> /\ replies \in Seq(Replies)
      /\ replies' = [replies EXCEPT ![1].came = TRUE]
      /\ UNCHANGED <<context, calls, call, result, requests, peer, alive>>
  BY DEF RestArrives, OwnInv, WireTypes
<1>2. 1 \in DOMAIN replies /\ replies[1] \in Replies
  BY <1>1
<1>3. [replies[1] EXCEPT !.came = TRUE] \in Replies
      /\ [replies[1] EXCEPT !.came = TRUE].n = replies[1].n
  BY <1>2 DEF Replies
<1>4. replies' = [replies EXCEPT ![1] = [replies[1] EXCEPT !.came = TRUE]]
  BY <1>1
<1>5. replies' \in Seq(Replies) /\ Len(replies') = Len(replies)
      /\ DOMAIN replies' = DOMAIN replies
      /\ \A i \in DOMAIN replies : replies'[i].n = replies[i].n
  BY <1>1, <1>2, <1>3, <1>4
<1>6. Conversation'
  BY <1>1, <1>5 DEF OwnInv, Conversation, Waiting, Expected, Row
<1>7. WireTypes'
  BY <1>1, <1>5 DEF OwnInv, WireTypes
<1> QED
  BY <1>1, <1>6, <1>7 DEF OwnInv, ContextShape, CallShape, SameProtocol, AnswerIsOwn

\* A link that breaks takes the command along.
LEMMA LinkBreaksOwn == ASSUME OwnInv, LinkBreaks PROVE OwnInv'
<1>1. /\ alive' \in BOOLEAN /\ ~alive'
      /\ requests' = <<>> /\ UNCHANGED <<context, calls, call, result, replies, peer>>
  BY Zenon DEF LinkBreaks
<1>2. Conversation'
  <2>1. Waiting => Row.messages \in {1, 2}
    BY RapiAssumption DEF OwnInv, Conversation, SameProtocol, Row
  <2> QED
    BY <1>1, <2>1 DEF OwnInv, Conversation, Waiting, Expected, Row
<1>3. WireTypes'
  BY <1>1 DEF OwnInv, WireTypes
<1> QED
  BY <1>1, <1>2, <1>3 DEF OwnInv, ContextShape, CallShape, SameProtocol, AnswerIsOwn

----------------------------------------------------------------------------
(* The invariant, and what follows.                                        *)

\* Without a connection there is nothing on it.
LEMMA InitOwn == Init => OwnInv
<1> SUFFICES ASSUME Init PROVE OwnInv
  OBVIOUS
<1>1. alive \in BOOLEAN /\ ~alive
  BY Zenon DEF Init
<1>2. ContextShape
  BY DEF Init, ContextShape
<1> QED
  BY <1>1, <1>2 DEF Init, OwnInv, CallShape, WireTypes, SameProtocol, Conversation, Waiting,
     NoCall, NoResult, AnswerIsOwn

\* Commands of connections that were closed do nothing to the call.
LEMMA FrameOwn ==
    ASSUME OwnInv, UNCHANGED <<context, calls, call, result, requests, replies, peer, alive>>
    PROVE  OwnInv'
  BY DEF OwnInv, ContextShape, CallShape, WireTypes, SameProtocol, Conversation, Waiting,
     Expected, Row, AnswerIsOwn

\* Every step keeps it.
LEMMA NextOwn == OwnInv /\ [Next]_vars => OwnInv'
<1> SUFFICES ASSUME OwnInv, [Next]_vars PROVE OwnInv'
  OBVIOUS
<1>1. CASE ServeOrphan
  BY <1>1, FrameOwn DEF ServeOrphan
<1>2. CASE UNCHANGED vars
  BY <1>2, FrameOwn DEF vars
<1> QED
  BY <1>1, <1>2, ConnectOwn, DisconnectOwn, MakeCallOwn, ReadFirstOwn, ReadSecondOwn,
     ReadReplyOwn, NoAnswerOwn, ServeOwn, RestArrivesOwn, LinkBreaksOwn
     DEF Next, Answer, Device

\* AnswerIsOwn: the reply to a call that was given up is never taken for that of
\* a later one, for any number of calls and any table of functions.
THEOREM RepliesAreOwn == Spec => []AnswerIsOwn
<1>1. OwnInv => AnswerIsOwn
  BY DEF OwnInv
<1> QED
  BY <1>1, InitOwn, NextOwn, PTL DEF Spec

\* A context that makes no call has nothing on its connection: the next call
\* begins with a clean one.
Quiet == ~Waiting => requests = <<>> /\ replies = <<>>
THEOREM QuietBetweenCalls == Spec => []Quiet
<1>1. OwnInv => Quiet
  BY DEF OwnInv, Conversation, Quiet
<1> QED
  BY <1>1, InitOwn, NextOwn, PTL DEF Spec
=============================================================================
