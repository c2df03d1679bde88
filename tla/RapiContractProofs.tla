-------------------------- MODULE RapiContractProofs --------------------------
(***************************************************************************)
(* Proofs about RapiContext, for every table of functions whose readers    *)
(* fit the devices (ReadersAssumption): its calls keep the promise of      *)
(* RemoteCall, a caller is not told that what was done had failed, and one *)
(* that is told failure can find out why (when the rows that fail say so:  *)
(* ExplanationsAssumption).                                                *)
(***************************************************************************)
EXTENDS RapiContextProofs

----------------------------------------------------------------------------
(* The invariant, beside the one that says which reply is whose.           *)

\* Calls are numbered in order; one that was not made or that waits has been
\* told nothing.
NumbersInv ==
    /\ calls <= MaxCalls
    /\ told \in [1..MaxCalls -> Contract!Verdicts]
    /\ \A i \in 1..MaxCalls :
          i > calls \/ (Waiting /\ i = call.n) => told[i] = "nothing"
    /\ Waiting => call.n \in 1..calls
    /\ served \subseteq 1..calls /\ done \subseteq served

\* The commands that a device may still take.
Pending == orphans \cup {requests[i] : i \in DOMAIN requests}

\* There is one of each call, which no device has taken.
OnceInv ==
    /\ \A r \in Pending : r.n \in 1..calls /\ r.n \notin served
    /\ \A r, s \in Pending : r.n = s.n => r = s
    /\ \A r \in orphans, i \in DOMAIN requests : r.n # requests[i].n
    /\ \A i \in DOMAIN requests : requests[i].name = call.name

\* A message is what a device wrote that executed a function with this command;
\* the call is done when that was the function called and it worked.
TrueReply(m) ==
    \E g \in Names, ok \in BOOLEAN :
        /\ Ops[context.rapi_ops][g].cmd = Row.cmd
        /\ m.words \in TextsOf(context.rapi_ops, g, ok)
        /\ m.whole => m.words \in Wholes(context.rapi_ops, g, ok)
        /\ call.n \in done <=> ok /\ g = call.name

\* A value fits what the device did.
TrueValue(b, f, n, whole, v) ==
    /\ n \notin done /\ Trusted(b, f) => Fails(Type(f), v)
    /\ n \in done /\ whole /\ <<b, f>> \notin Misread => ~Fails(Type(f), v)

\* So is what came for the call that waits, and what was read of it.
TruthInv ==
    /\ Waiting =>
         /\ Row.through # Local
         /\ call.got = <<>> /\ replies # <<>> => call.n \in served /\ TrueReply(replies[1])
         /\ call.got # <<>> =>
              /\ call.n \in served /\ Row.messages = 2
              /\ TrueValue(context.rapi_ops, call.name, call.n, call.got[3], call.got[1])
    /\ result.reply = "whole" => result.n \in served
    /\ DoneIsTold

PromiseInv == NumbersInv /\ OnceInv /\ TruthInv

ContractStep == [Contract!Next]_(Contract!vars)

----------------------------------------------------------------------------
(* What the numbers and the contract make of a step.                       *)

\* A verdict tells success of trusted functions only.
LEMMA Verdicts ==
    ASSUME NEW b, NEW f, NEW v
    PROVE  /\ Verdict(b, f, v) \in Contract!Verdicts \ {"nothing"}
           /\ Verdict(b, f, v) = "success" => Trusted(b, f) /\ ~Fails(Type(f), v)
           /\ Verdict(b, f, v) = "failure" => Fails(Type(f), v)
  BY DEF Verdict, Contract!Verdicts, Trusted

\* The call that waits is told.
LEMMA TellsOne ==
    ASSUME NumbersInv, CallShape, Waiting, call' = NoCall,
           NEW v \in Contract!Verdicts \ {"nothing"}, v = "success" => call.n \in done,
           told' = [told EXCEPT ![call.n] = v], UNCHANGED <<calls, device>>
    PROVE  NumbersInv' /\ ContractStep
<1>1. call.n \in 1..MaxCalls /\ call.n <= calls /\ told[call.n] = "nothing" /\ calls \in Nat
  BY RapiAssumption DEF NumbersInv, CallShape
<1>2. NumbersInv'
  BY <1>1 DEF NumbersInv, Waiting, NoCall, device, CallShape
<1>3. Contract!Tell(call.n, v)
  BY <1>1 DEF Contract!Tell, device
<1>4. ContractStep
  BY <1>1, <1>3 DEF ContractStep, Contract!Next
<1> QED
  BY <1>2, <1>4

\* A call is answered at once, with anything but success.
LEMMA RefusesOne ==
    ASSUME NumbersInv, CallShape, ~Waiting, calls < MaxCalls, call' = NoCall,
           NEW v \in Contract!Verdicts \ {"nothing"}, v # "success",
           calls' = calls + 1, told' = [told EXCEPT ![calls + 1] = v], UNCHANGED device
    PROVE  NumbersInv' /\ ContractStep
<1>1. calls + 1 \in 1..MaxCalls /\ calls \in Nat
  BY RapiAssumption DEF CallShape
<1>2. NumbersInv'
  BY <1>1, RapiAssumption DEF NumbersInv, Waiting, NoCall, device
<1>3. Contract!Refuse(v)
  BY <1>1 DEF Contract!Refuse, device
<1>4. ContractStep
  BY <1>3 DEF ContractStep, Contract!Next
<1> QED
  BY <1>2, <1>4

\* Nothing is called, executed or told.
LEMMA NobodyHears ==
    ASSUME NumbersInv, UNCHANGED <<calls, device, told>>, call'.n = call.n
    PROVE  NumbersInv' /\ ContractStep
  BY DEF NumbersInv, Waiting, device, ContractStep, Contract!vars

\* Commands leave the connection, or move to those of closed ones.
LEMMA OnlyFewer ==
    ASSUME OnceInv, CallShape, Pending' \subseteq Pending, UNCHANGED served,
           calls' = calls \/ calls' = calls + 1,
           \/ requests' = <<>>
           \/ requests' = requests /\ orphans' \subseteq orphans /\ call'.name = call.name
    PROVE  OnceInv'
<1> HIDE DEF Pending
<1> QED
  BY DEF OnceInv, CallShape

\* What was pending is, when the connection closes.
LEMMA Orphaned ==
    ASSUME orphans' = orphans \cup {requests[i] : i \in DOMAIN requests}, requests' = <<>>
    PROVE  Pending' \subseteq Pending
  BY DEF Pending

\* What is returned without a reply tells no success.
LEMMA LostIsFailure ==
    ASSUME NEW b \in Backends, NEW f \in Names, Trusted(b, f)
    PROVE  Fails(Type(f), Ops[b][f].lost)
  BY ReadersAssumption

----------------------------------------------------------------------------
(* Between calls.                                                          *)

\* Connecting and disconnecting.
LEMMA ConnectKeeps ==
    ASSUME OwnInv, PromiseInv, Connect \/ Disconnect PROVE PromiseInv' /\ ContractStep
<1>1. /\ ~Waiting /\ UNCHANGED <<calls, call, result, device, told>>
      /\ requests = <<>>
  BY DEF Connect, Disconnect, OwnInv, Conversation
<1>2. Pending' \subseteq Pending /\ requests' = <<>>
  BY <1>1, Orphaned, Zenon DEF Connect, Disconnect, ConnectSucceeds, ConnectDenied, ConnectFails, Connected,
     SocketClosed
<1>3. OnceInv'
  BY <1>1, <1>2, OnlyFewer DEF PromiseInv, OwnInv, device
<1>4. TruthInv'
  BY <1>1 DEF PromiseInv, TruthInv, Waiting, DoneIsTold, device
<1> QED
  BY <1>1, <1>3, <1>4, NobodyHears DEF PromiseInv

\* The answers that need no device are not success.
LEMMA AnsweredKeeps ==
    ASSUME OwnInv, PromiseInv, ~Waiting, calls < MaxCalls,
           NEW f \in Names, NEW b, NEW value, NEW r, NEW l,
           Answered(f, b, value, r, l), Trusted(b, f) => Fails(Type(f), value)
    PROVE  PromiseInv' /\ ContractStep
<1> DEFINE v == Verdict(b, f, value)
<1>1. /\ calls' = calls + 1 /\ call' = NoCall /\ told' = [told EXCEPT ![calls + 1] = v]
      /\ result'.reply = "none" /\ UNCHANGED <<wire, device>>
  BY DEF Answered, Return
<1>2. v \in Contract!Verdicts \ {"nothing"} /\ v # "success"
  BY Verdicts
<1> HIDE DEF v
<1>3. NumbersInv' /\ ContractStep
  BY <1>1, <1>2, RefusesOne DEF PromiseInv, OwnInv
<1>4. requests' = <<>> /\ Pending' = Pending
  BY <1>1 DEF wire, OwnInv, Conversation, Pending
<1>5. OnceInv'
  BY <1>1, <1>4, OnlyFewer DEF PromiseInv, OwnInv, device
<1>6. TruthInv'
  BY <1>1 DEF TruthInv, Waiting, NoCall, DoneIsTold
<1> QED
  BY <1>3, <1>5, <1>6 DEF PromiseInv

\* A command is written.
LEMMA SentKeeps ==
    ASSUME OwnInv, PromiseInv, ~Waiting, calls < MaxCalls, NEW f \in Names, SentCall(f)
    PROVE  PromiseInv' /\ ContractStep
<1> DEFINE row == Ops[context.rapi_ops][f]
           request == [n |-> calls + 1, cmd |-> row.cmd, name |-> f]
<1>1. /\ calls' = calls + 1 /\ call' = [n |-> calls + 1, name |-> f, got |-> <<>>]
      /\ result' = NoResult /\ UNCHANGED <<orphans, replies, device, told>>
      /\ row.through # Local
  BY DEF SentCall
<1>2. requests = <<>> /\ replies = <<>> /\ calls \in Nat
  BY DEF OwnInv, Conversation, CallShape
<1>3. requests' = <<request>> \/ requests' = <<>>
  BY <1>2 DEF SentCall
<1>4. context'.rapi_ops = context.rapi_ops
  <2>1. context' = Errors(ErrorOf(row, E_UNEXPECTED), Kept)
    BY DEF SentCall
  <2> QED
    BY <2>1, ErrorsShape DEF OwnInv
<1>5. Row' = row
  BY <1>1, <1>4 DEF Row
<1> HIDE DEF row
<1>6. NumbersInv'
  <2>1. call'.n = calls + 1 /\ calls' = calls + 1 /\ calls + 1 <= MaxCalls
    BY <1>1, <1>2, RapiAssumption
  <2> QED
    BY <1>1, <1>2, <2>1 DEF PromiseInv, NumbersInv, Waiting, device
<1>7. OnceInv'
  <2>1. Pending' \subseteq orphans \cup {request}
    BY <1>1, <1>3 DEF Pending
  <2>2. \A q \in orphans : q.n \in 1..calls /\ q.n \notin served
    BY DEF PromiseInv, OnceInv, Pending
  <2>3. \A q, s \in orphans : q.n = s.n => q = s
    BY DEF PromiseInv, OnceInv, Pending
  <2>4. request.n = calls + 1 /\ request.name = f /\ calls + 1 \notin served
    BY <1>2 DEF PromiseInv, NumbersInv
  <2>5. \A i \in DOMAIN requests' : requests'[i] = request /\ call'.name = f
    BY <1>1, <1>3
  <2> HIDE DEF request
  <2> QED
    BY <1>1, <1>2, <2>1, <2>2, <2>3, <2>4, <2>5 DEF OnceInv, device
<1>8. TruthInv'
  BY <1>1, <1>2, <1>5 DEF TruthInv, DoneIsTold, NoResult
<1>9. Contract!Make
  BY <1>1, <1>2 DEF Contract!Make, device
<1> QED
  BY <1>6, <1>7, <1>8, <1>9 DEF PromiseInv, ContractStep, Contract!Next

\* The connection is found dead: the call is told so.
LEMMA UnsentKeeps ==
    ASSUME OwnInv, PromiseInv, ~Waiting, calls < MaxCalls, NEW f \in Names, UnsentCall(f)
    PROVE  PromiseInv' /\ ContractStep
<1> DEFINE v == Verdict(context.rapi_ops, f, Ops[context.rapi_ops][f].lost)
<1>1. /\ calls' = calls + 1 /\ call' = NoCall /\ told' = [told EXCEPT ![calls + 1] = v]
      /\ result'.reply = "none" /\ UNCHANGED device /\ context.is_initialized /\ SocketClosed
  BY DEF UnsentCall, Return
<1>2. v \in Contract!Verdicts \ {"nothing"} /\ v # "success"
  BY <1>1, Verdicts, LostIsFailure DEF OwnInv, SameProtocol
<1> HIDE DEF v
<1>3. NumbersInv' /\ ContractStep
  BY <1>1, <1>2, RefusesOne DEF PromiseInv, OwnInv
<1>4. requests' = <<>> /\ Pending' \subseteq Pending
  BY <1>1, Orphaned DEF SocketClosed
<1>5. OnceInv'
  BY <1>1, <1>4, OnlyFewer DEF PromiseInv, OwnInv, device
<1>6. TruthInv'
  BY <1>1 DEF TruthInv, Waiting, NoCall, DoneIsTold
<1> QED
  BY <1>3, <1>5, <1>6 DEF PromiseInv

\* Every call begins in one of these ways.
LEMMA MakeCallKeeps ==
    ASSUME OwnInv, PromiseInv, MakeCall PROVE PromiseInv' /\ ContractStep
<1>1. ~Waiting /\ calls < MaxCalls
  BY DEF MakeCall
<1>2. PICK f \in Names :
        \/ \E a \in Apis : NotConnectedCall(a, f)
        \/ NotImplementedCall(f) \/ RefusedCall(f) \/ SentCall(f) \/ UnsentCall(f)
  BY RapiAssumption DEF MakeCall
<1> DEFINE b == context.rapi_ops
           row == Ops[b][f]
<1>3. ASSUME NEW a \in Apis, NotConnectedCall(a, f) PROVE PromiseInv' /\ ContractStep
  BY <1>1, <1>3, AnsweredKeeps, AnswersAssumption DEF NotConnectedCall
<1>4. ASSUME context.is_initialized, Trusted(b, f)
      PROVE  /\ Fails(Type(f), row.lost)
             /\ row.bad # <<>> => Fails(Type(f), row.bad[1])
  <2>1. b \in Backends
    BY <1>4 DEF OwnInv, SameProtocol
  <2> HIDE DEF b
  <2> QED
    BY <1>4, <2>1, ReadersAssumption
<1>5. CASE NotImplementedCall(f)
  <2>1. context.is_initialized /\ Answered(f, b, row.lost, E_NOTIMPL, ERROR_SUCCESS)
    BY <1>5 DEF NotImplementedCall
  <2> QED
    BY <1>1, <1>4, <2>1, AnsweredKeeps
<1>6. CASE RefusedCall(f)
  <2>1. /\ context.is_initialized /\ row.bad # <<>>
        /\ Answered(f, b, row.bad[1], row.bad[2], row.bad[3])
    BY <1>6 DEF RefusedCall
  <2>2. Trusted(b, f) => Fails(Type(f), row.bad[1])
    BY <1>4, <2>1
  <2> HIDE DEF b, row
  <2> QED
    BY <1>1, <2>1, <2>2, AnsweredKeeps
<1> QED
  BY <1>1, <1>2, <1>3, <1>5, <1>6, SentKeeps, UnsentKeeps

----------------------------------------------------------------------------
(* Reading the reply.                                                      *)

\* What is read from a true reply fits what the device did.
LEMMA ReadsTrue ==
    ASSUME OwnInv, TruthInv, Waiting, call.got = <<>>, replies # <<>>,
           NEW v \in Values(context.rapi_ops, call.name, replies[1].words)
    PROVE  TrueValue(context.rapi_ops, call.name, call.n, replies[1].whole, v)
<1> DEFINE b == context.rapi_ops
           name == call.name
           w == replies[1].words
<1>1. b \in Backends /\ name \in Names /\ Ops[b][name].through # Local
  BY DEF OwnInv, Conversation, SameProtocol, TruthInv, Row
<1>2. PICK g \in Names, ok \in BOOLEAN :
        /\ Ops[b][g].cmd = Ops[b][name].cmd
        /\ w \in TextsOf(b, g, ok)
        /\ replies[1].whole => w \in Wholes(b, g, ok)
        /\ call.n \in done <=> ok /\ g = name
  BY Zenon DEF TruthInv, TrueReply, Row
<1> HIDE DEF b, name, w
<1>3. v \in Values(b, name, w)
  BY DEF b, name, w
<1>4. ASSUME call.n \notin done, Trusted(b, name) PROVE Fails(Type(name), v)
  <2>1. ~(ok /\ g = name)
    BY <1>2, <1>4, Zenon
  <2> QED
    BY <1>1, <1>2, <1>3, <1>4, <2>1, ReadersAssumption, Zenon
<1>5. ASSUME call.n \in done, replies[1].whole, <<b, name>> \notin Misread
      PROVE  ~Fails(Type(name), v)
  <2>1. ok = TRUE /\ g = name /\ w \in Wholes(b, g, ok)
    BY <1>2, <1>5, Zenon
  <2>2. w \in Wholes(b, name, TRUE)
    BY <2>1
  <2> QED
    BY <1>1, <1>3, <1>5, <2>2, ReadersAssumption, Zenon
<1> QED
  BY <1>4, <1>5, Zenon DEF TrueValue, b, name

\* A caller that is told such a value is told the truth.
LEMMA ReturnKeeps ==
    ASSUME OwnInv, PromiseInv, Waiting, requests = <<>>, call.n \in served,
           NEW v, NEW whole,
           TrueValue(context.rapi_ops, call.name, call.n, whole, v),
           NEW r, NEW l, NEW from, NEW reply, reply = "whole" => whole,
           Return(call.n, call.name, context.rapi_ops, v, r, l, from, reply),
           UNCHANGED <<calls, requests, orphans, device>>
    PROVE  PromiseInv' /\ ContractStep
<1> DEFINE said == Verdict(context.rapi_ops, call.name, v)
<1>1. /\ call' = NoCall /\ told' = [told EXCEPT ![call.n] = said]
      /\ result'.n = call.n /\ result'.name = call.name /\ result'.backend = context.rapi_ops
      /\ result'.told = said /\ result'.reply = reply
  BY DEF Return
<1>2. /\ said \in Contract!Verdicts \ {"nothing"}
      /\ said = "success" => call.n \in done
      /\ said = "failure" => Fails(Type(call.name), v)
  BY Verdicts, Zenon DEF TrueValue
<1>3. reply = "whole" /\ call.n \in done /\ <<context.rapi_ops, call.name>> \notin Misread
        => said # "failure"
  BY <1>2, Zenon DEF TrueValue
<1> HIDE DEF said
<1>4. NumbersInv' /\ ContractStep
  BY <1>1, <1>2, TellsOne DEF PromiseInv, OwnInv
<1>5. OnceInv'
  <2>1. requests' = <<>> /\ Pending' \subseteq Pending
    BY DEF Pending
  <2> QED
    BY <2>1, OnlyFewer DEF PromiseInv, OwnInv, device
<1>6. TruthInv'
  BY <1>1, <1>3 DEF TruthInv, Waiting, NoCall, DoneIsTold, device
<1> QED
  BY <1>4, <1>5, <1>6 DEF PromiseInv

\* The first of two messages decides.
LEMMA ReadFirstKeeps ==
    ASSUME OwnInv, PromiseInv, ReadFirst PROVE PromiseInv' /\ ContractStep
<1> DEFINE m == replies[1]
<1>1. Waiting /\ Came /\ call.got = <<>> /\ replies # <<>> /\ Head(replies) = m
  BY DEF ReadFirst, Came, OwnInv, WireTypes
<1>2. PICK v \in Values(context.rapi_ops, call.name, m.words) :
        call' = [call EXCEPT !.got = <<v, m.n, m.whole>>]
  BY <1>1 DEF ReadFirst, Values, Row
<1>3. TrueValue(context.rapi_ops, call.name, call.n, m.whole, v) /\ call.n \in served
  BY <1>1, ReadsTrue DEF PromiseInv, TruthInv
<1>4. /\ requests = <<>> /\ UNCHANGED <<calls, result, requests, orphans, device, told>>
      /\ context'.rapi_ops = context.rapi_ops
  BY <1>1, CameOwn, ErrorsShape DEF ReadFirst, OwnInv
<1>5. call'.n = call.n /\ call'.name = call.name /\ call'.got # <<>>
      /\ call'.got[1] = v /\ call'.got[3] = m.whole
  BY <1>2 DEF OwnInv, CallShape
<1> HIDE DEF m
<1>6. NumbersInv' /\ ContractStep
  BY <1>4, <1>5, NobodyHears DEF PromiseInv
<1>7. OnceInv'
  <2>1. Pending' \subseteq Pending
    BY <1>4 DEF Pending
  <2> QED
    BY <1>4, <2>1, OnlyFewer DEF PromiseInv, OwnInv, device
<1>8. TruthInv'
  <2>1. Row' = Row
    BY <1>4, <1>5 DEF Row
  <2>2. TrueValue(context.rapi_ops, call.name, call.n, call.got[3], call.got[1])'
    <3>1. done' = done
      BY <1>4 DEF device
    <3> QED
      BY <1>3, <1>4, <1>5, <3>1, Zenon DEF TrueValue
  <2>3. (Row.through # Local)' /\ (Row.messages = 2)' /\ (DoneIsTold)' /\ (call.n \in served)'
        /\ (result.reply = "whole" => result.n \in served)'
    BY <1>1, <1>3, <1>4, <1>5, <2>1 DEF ReadFirst, PromiseInv, TruthInv, DoneIsTold, device
  <2> QED
    BY <1>5, <2>2, <2>3, Zenon DEF TruthInv
<1> QED
  BY <1>6, <1>7, <1>8 DEF PromiseInv

\* The second ends the call with it.
LEMMA ReadSecondKeeps ==
    ASSUME OwnInv, PromiseInv, ReadSecond PROVE PromiseInv' /\ ContractStep
<1> DEFINE reply == IF call.got[3] THEN "whole" ELSE "cut"
<1>1. Waiting /\ Came /\ call.got # <<>> /\ requests = <<>>
  BY CameOwn DEF ReadSecond
<1>2. /\ call.n \in served
      /\ TrueValue(context.rapi_ops, call.name, call.n, call.got[3], call.got[1])
  BY <1>1, Zenon DEF PromiseInv, TruthInv
<1>3. reply = "whole" => call.got[3]
  OBVIOUS
<1>4. /\ Return(call.n, call.name, context.rapi_ops, call.got[1], Kept, Kept, call.got[2], reply)
      /\ UNCHANGED <<calls, requests, orphans, device>>
  BY DEF ReadSecond
<1> HIDE DEF reply
<1> QED
  BY <1>1, <1>2, <1>3, <1>4, ReturnKeeps

\* Of a call with one message nothing was read before it.
LEMMA OneMessage ==
    ASSUME OwnInv, PromiseInv, Waiting, Row.messages = 1
    PROVE  call.got = <<>>
  BY DEF PromiseInv, TruthInv

\* The only message of other calls.
LEMMA ReadReplyKeeps ==
    ASSUME OwnInv, PromiseInv, ReadReply PROVE PromiseInv' /\ ContractStep
<1> DEFINE m == replies[1]
           header == HeaderSays(Row, m.words)
           last_error == LastErrorSaid(Row, m.words)
           reply == IF m.whole THEN "whole" ELSE "cut"
<1>1. Waiting /\ Came /\ replies # <<>> /\ Head(replies) = m /\ Row.messages = 1
      /\ requests = <<>>
  BY CameOwn DEF ReadReply, Came, OwnInv, WireTypes
<1>2. call.got = <<>>
  BY <1>1, OneMessage
<1>3. PICK v \in Values(context.rapi_ops, call.name, m.words) :
        Return(call.n, call.name, context.rapi_ops, v, header, last_error, m.n, reply)
  BY <1>1, Zenon DEF ReadReply, Values, Row
<1>4. UNCHANGED <<calls, requests, orphans, device>>
  BY DEF ReadReply
<1>5. TrueValue(context.rapi_ops, call.name, call.n, m.whole, v) /\ call.n \in served
  BY <1>1, <1>2, ReadsTrue DEF PromiseInv, TruthInv
<1>6. reply = "whole" => m.whole
  OBVIOUS
<1> HIDE DEF m, header, last_error, reply
<1> QED
  BY <1>1, <1>3, <1>4, <1>5, <1>6, ReturnKeeps

\* A call that is given up is not told success.
LEMMA NoAnswerKeeps ==
    ASSUME OwnInv, PromiseInv, NoAnswer PROVE PromiseInv' /\ ContractStep
<1> DEFINE v == Verdict(context.rapi_ops, call.name, Row.lost)
<1>1. /\ Waiting /\ call' = NoCall /\ told' = [told EXCEPT ![call.n] = v]
      /\ result'.reply = "none" /\ UNCHANGED <<calls, device>> /\ SocketClosed
  BY DEF NoAnswer, Return
<1>2. v \in Contract!Verdicts \ {"nothing"} /\ v # "success"
  BY <1>1, Verdicts, LostIsFailure DEF OwnInv, Conversation, SameProtocol, Row
<1> HIDE DEF v
<1>3. NumbersInv' /\ ContractStep
  BY <1>1, <1>2, TellsOne DEF PromiseInv, OwnInv
<1>4. requests' = <<>> /\ Pending' \subseteq Pending
  BY <1>1, Orphaned DEF SocketClosed
<1>5. OnceInv'
  BY <1>1, <1>4, OnlyFewer DEF PromiseInv, OwnInv, device
<1>6. TruthInv'
  BY <1>1 DEF TruthInv, Waiting, NoCall, DoneIsTold
<1> QED
  BY <1>3, <1>5, <1>6 DEF PromiseInv

----------------------------------------------------------------------------
(* The device and the link.                                                *)

\* A command is taken once.
LEMMA ServesOne ==
    ASSUME NumbersInv, CallShape, NEW n \in 1..calls, n \notin served,
           served' = served \cup {n}, done' = done \/ done' = done \cup {n},
           UNCHANGED <<calls, told, call>>
    PROVE  NumbersInv' /\ ContractStep
<1>1. n \in 1..MaxCalls /\ n <= calls
  BY RapiAssumption DEF NumbersInv, CallShape
<1>2. Contract!Serve(n)
  BY <1>1 DEF Contract!Serve
<1>3. NumbersInv'
  BY DEF NumbersInv, Waiting
<1> QED
  BY <1>1, <1>2, <1>3 DEF ContractStep, Contract!Next

\* A command that the device takes is the waiting call's, the only one there is.
LEMMA ServeFacts ==
    ASSUME OwnInv, OnceInv, Serve
    PROVE  /\ alive /\ Waiting /\ call.got = <<>> /\ peer = context.rapi_ops
           /\ Len(requests) = 1 /\ Head(requests) = requests[1] /\ requests[1].n = call.n
           /\ requests[1].cmd = Row.cmd /\ requests[1].name = call.name
           /\ replies = <<>> /\ requests' = <<>>
<1>1. alive /\ requests # <<>> /\ requests \in Seq(Commands)
  BY DEF Serve, OwnInv, WireTypes
<1>2. /\ Waiting /\ context.is_initialized /\ Len(requests) = 1 /\ replies = <<>>
      /\ call.got = <<>> /\ requests[1].n = call.n /\ requests[1].cmd = Row.cmd
  BY <1>1 DEF OwnInv, Conversation
<1>3. peer = context.rapi_ops
  BY <1>1, <1>2 DEF OwnInv, SameProtocol
<1>4. Tail(requests) \in Seq(Commands) /\ Len(Tail(requests)) = 0
  BY <1>1, <1>2
<1>5. requests' = <<>>
  BY <1>4, NothingLeft DEF Serve
<1> QED
  BY <1>1, <1>2, <1>3, <1>5 DEF OnceInv

\* What its first message says.
LEMMA FirstMessage ==
    ASSUME NEW request, NEW f, NEW words, NEW whole \in BOOLEAN, NEW came
    PROVE  LET ms == <<>> \o Messages(request, f, words, whole, came)
           IN  ms[1].words = words /\ ms[1].whole = whole
  BY DEF Messages

\* A command that is taken makes its call served, and the reply true.
LEMMA ServeKeeps ==
    ASSUME OwnInv, PromiseInv, Serve PROVE PromiseInv' /\ ContractStep
<1> DEFINE b == context.rapi_ops
<1>1. /\ alive /\ Waiting /\ call.got = <<>> /\ peer = b /\ Len(requests) = 1
      /\ Head(requests) = requests[1] /\ requests[1].n = call.n
      /\ requests[1].cmd = Row.cmd /\ requests[1].name = call.name
      /\ replies = <<>> /\ requests' = <<>>
  BY ServeFacts DEF PromiseInv, OnceInv
<1>2. PICK f \in Names, ok \in BOOLEAN, came \in BOOLEAN :
        /\ Ops[peer][f].cmd = Head(requests).cmd
        /\ Executes(Head(requests), f, ok)
        /\ \E words \in TextsOf(peer, f, ok) :
              replies' = replies \o Messages(Head(requests), f, words,
                                             words \in Wholes(peer, f, ok), came)
  BY Zenon DEF Serve
<1>3. PICK words \in TextsOf(b, f, ok) :
        replies' = replies \o Messages(requests[1], f, words, words \in Wholes(b, f, ok), came)
  BY <1>1, <1>2, Zenon
<1>4. /\ served' = served \cup {call.n}
      /\ done' = IF ok /\ f = call.name THEN done \cup {call.n} ELSE done
      /\ UNCHANGED <<context, calls, call, result, orphans, told>>
  BY <1>1, <1>2 DEF Executes, Serve
<1>5. call.n \in 1..calls /\ call.n \notin served /\ call.n \notin done
  BY <1>1 DEF PromiseInv, NumbersInv, OnceInv, Pending
<1>6. NumbersInv' /\ ContractStep
  BY <1>4, <1>5, ServesOne DEF PromiseInv, OwnInv
<1>7. OnceInv'
  <2>1. \A r \in Pending' : r \in orphans /\ r \in Pending /\ r.n # call.n
    BY <1>1, <1>4 DEF Pending, PromiseInv, OnceInv
  <2> QED
    BY <1>1, <1>4, <2>1 DEF PromiseInv, OnceInv
<1>8. replies'[1].words = words /\ (replies'[1].whole => words \in Wholes(b, f, ok))
  <2> DEFINE whole == words \in Wholes(b, f, ok)
  <2>1. whole \in BOOLEAN
    OBVIOUS
  <2>2. replies' = <<>> \o Messages(requests[1], f, words, whole, came)
    BY <1>1, <1>3
  <2> HIDE DEF whole
  <2>3. replies'[1].words = words /\ replies'[1].whole = whole
    BY <2>1, <2>2, FirstMessage
  <2> QED
    BY <2>3, Zenon DEF whole
<1>9. TrueReply(replies[1])'
  <2>1. call.n \in done' <=> ok /\ f = call.name
    BY <1>4, <1>5
  <2>2. Ops[b][f].cmd = Row.cmd
    BY <1>1, <1>2
  <2>3. Row' = Row
    BY <1>4 DEF Row
  <2> QED
    BY <1>4, <1>8, <2>1, <2>2, <2>3, Zenon DEF TrueReply
<1>10. TruthInv'
  <2>1. Row'.through # Local /\ call'.got = <<>> /\ call'.n \in served'
    BY <1>1, <1>4 DEF PromiseInv, TruthInv, Row
  <2>2. result.reply = "whole" => result.n \in served /\ result.n # call.n
    BY <1>5 DEF PromiseInv, TruthInv
  <2>3. DoneIsTold'
    BY <1>4, <2>2 DEF PromiseInv, TruthInv, DoneIsTold
  <2> QED
    BY <1>4, <1>9, <2>1, <2>2, <2>3 DEF TruthInv
<1> QED
  BY <1>6, <1>7, <1>10 DEF PromiseInv

\* The rest of a message changes nothing of what it says.
LEMMA RestArrivesKeeps ==
    ASSUME OwnInv, PromiseInv, RestArrives PROVE PromiseInv' /\ ContractStep
<1>1. /\ replies # <<>> /\ replies \in Seq(Replies)
      /\ replies' = [replies EXCEPT ![1].came = TRUE]
      /\ UNCHANGED <<context, calls, call, result, requests, peer, alive, orphans, device, told>>
  BY DEF RestArrives, OwnInv, WireTypes
<1>2. replies[1] \in Replies /\ 1 \in DOMAIN replies
  BY <1>1
<1>3. replies'[1].words = replies[1].words /\ replies'[1].whole = replies[1].whole
  BY <1>1, <1>2 DEF Replies
<1>4. NumbersInv' /\ ContractStep
  BY <1>1, NobodyHears DEF PromiseInv
<1>5. OnceInv'
  BY <1>1 DEF PromiseInv, OnceInv, Pending, device
<1>6. Row' = Row /\ done' = done
  BY <1>1 DEF Row, device
<1>7. TrueReply(replies[1]) => TrueReply(replies[1])'
  BY <1>1, <1>3, <1>6, Zenon DEF TrueReply
<1>8. TrueValue(context.rapi_ops, call.name, call.n, call.got[3], call.got[1])'
      <=> TrueValue(context.rapi_ops, call.name, call.n, call.got[3], call.got[1])
  BY <1>1, <1>6, Zenon DEF TrueValue
<1>9. TruthInv'
  BY <1>1, <1>6, <1>7, <1>8 DEF PromiseInv, TruthInv, Waiting, DoneIsTold, device
<1> QED
  BY <1>4, <1>5, <1>9 DEF PromiseInv

\* A command of a closed connection is not that of the call that waits, if
\* something came for that.
LEMMA ServeOrphanKeeps ==
    ASSUME OwnInv, PromiseInv, ServeOrphan PROVE PromiseInv' /\ ContractStep
<1>1. PICK r \in orphans, ok \in BOOLEAN :
        Executes(r, r.name, ok) /\ orphans' = orphans \ {r}
  BY DEF ServeOrphan
<1>2. UNCHANGED <<context, calls, call, result, requests, replies, told>>
  BY DEF ServeOrphan
<1>3. /\ served' = served \cup {r.n}
      /\ done' = done \/ done' = done \cup {r.n}
  BY <1>1 DEF Executes
<1>4. r.n \in 1..calls /\ r.n \notin served
  BY DEF PromiseInv, OnceInv, Pending
<1>5. NumbersInv' /\ ContractStep
  BY <1>2, <1>3, <1>4, ServesOne DEF PromiseInv, OwnInv
<1>6. OnceInv'
  <2>1. \A s \in Pending' : s \in Pending /\ s.n # r.n
    BY <1>1, <1>2 DEF PromiseInv, OnceInv, Pending
  <2> QED
    BY <1>1, <1>2, <1>3, <2>1 DEF PromiseInv, OnceInv
<1>7. \A n \in served : n \in served' /\ (n \in done' <=> n \in done)
  BY <1>3, <1>4
<1>8. Row' = Row
  BY <1>2 DEF Row
<1>9. call.n \in served /\ TrueReply(replies[1]) => TrueReply(replies[1])'
  BY <1>2, <1>7, <1>8, Zenon DEF TrueReply
<1>10. call.n \in served =>
         (TrueValue(context.rapi_ops, call.name, call.n, call.got[3], call.got[1])'
          <=> TrueValue(context.rapi_ops, call.name, call.n, call.got[3], call.got[1]))
  BY <1>2, <1>7, Zenon DEF TrueValue
<1>11. DoneIsTold' /\ (result'.reply = "whole" => result'.n \in served')
  BY <1>2, <1>7 DEF PromiseInv, TruthInv, DoneIsTold
<1>12. TruthInv'
  BY <1>2, <1>7, <1>8, <1>9, <1>10, <1>11 DEF PromiseInv, TruthInv, Waiting
<1> QED
  BY <1>5, <1>6, <1>12 DEF PromiseInv

\* Commands that were on the link may still be taken.
LEMMA LinkBreaksKeeps ==
    ASSUME OwnInv, PromiseInv, LinkBreaks PROVE PromiseInv' /\ ContractStep
<1>1. /\ UNCHANGED <<context, calls, call, result, replies, device, told>>
      /\ requests' = <<>> /\ Pending' \subseteq Pending
  BY Orphaned DEF LinkBreaks
<1>2. NumbersInv' /\ ContractStep
  BY <1>1, NobodyHears DEF PromiseInv
<1>3. OnceInv'
  BY <1>1, OnlyFewer DEF PromiseInv, OwnInv, device
<1>4. TruthInv'
  BY <1>1 DEF PromiseInv, TruthInv, TrueReply, TrueValue, Row, Waiting, DoneIsTold, device
<1> QED
  BY <1>2, <1>3, <1>4 DEF PromiseInv

----------------------------------------------------------------------------
(* The promise.                                                           *)

\* The initial state.
LEMMA InitKeeps == Init => PromiseInv /\ Contract!Init
<1> SUFFICES ASSUME Init PROVE PromiseInv /\ Contract!Init
  OBVIOUS
<1>1. Contract!Init
  BY DEF Init, Contract!Init
<1>2. NumbersInv
  BY RapiAssumption DEF Init, NumbersInv, Waiting, NoCall, Contract!Verdicts
<1>3. OnceInv
  BY DEF Init, OnceInv, Pending
<1>4. TruthInv
  BY DEF Init, TruthInv, Waiting, NoCall, NoResult, DoneIsTold
<1> QED
  BY <1>1, <1>2, <1>3, <1>4 DEF PromiseInv

\* Every step.
LEMMA NextKeeps ==
    ASSUME OwnInv, PromiseInv, [Next]_vars PROVE PromiseInv' /\ ContractStep
<1>1. CASE UNCHANGED vars
  <2>1. UNCHANGED <<context, calls, call, result, requests, replies, orphans, device, told>>
    BY <1>1 DEF vars, device
  <2>2. NumbersInv' /\ ContractStep
    BY <2>1, NobodyHears DEF PromiseInv
  <2>3. OnceInv'
    BY <2>1 DEF PromiseInv, OnceInv, Pending, device
  <2>4. TruthInv'
    BY <2>1 DEF PromiseInv, TruthInv, TrueReply, TrueValue, Row, Waiting, DoneIsTold, device
  <2> QED
    BY <2>2, <2>3, <2>4 DEF PromiseInv
<1> QED
  BY <1>1, ConnectKeeps, MakeCallKeeps, ReadFirstKeeps, ReadSecondKeeps, ReadReplyKeeps,
     NoAnswerKeeps, ServeKeeps, RestArrivesKeeps, ServeOrphanKeeps, LinkBreaksKeeps
     DEF Next, Answer, Device

----------------------------------------------------------------------------
(* The types.  What is new in them: the error codes stay numbers whatever  *)
(* a reply holds, and there is a table exactly in an initialized context.  *)

Numbers == context.rapi_error \in Int /\ context.last_error \in Int

StateInv ==
    /\ ~context.is_initialized => context.rapi_ops = 0
    /\ context.socket \in {"open", "closed"}
    /\ peer \in Backends \cup {0}

CodesInv == Numbers /\ StateInv

\* A reply holds words that are numbers.
LEMMA WordsAreNumbers == ASSUME NEW m \in Replies PROVE m.words \in Seq(Int)
<1>1. m.words \in Texts
  BY DEF Replies
<1>2. CASE m.words = <<>>
  BY <1>2
<1>3. CASE m.words \in UNION {TextsOf(b, f, ok) : b \in Backends, f \in Names, ok \in BOOLEAN}
  BY <1>3, CodesAssumption
<1> QED
  BY <1>1, <1>2, <1>3 DEF Texts

\* So is what the context takes from it as an error.
LEMMA ErrorsRead ==
    ASSUME NEW b \in Backends, NEW f \in Names, NEW w \in Seq(Int)
    PROVE  /\ HeaderSays(Ops[b][f], w) \in Int
           /\ LastErrorRead(Ops[b][f], w, Kept) \in Int
           /\ LastErrorSaid(Ops[b][f], w) \in Int
<1> DEFINE row == Ops[b][f]
           read == ReadsOf(row, w, "last_error")
<1>1. DOMAIN row.reads \subseteq Nat \ {0}
  BY CodesAssumption
<1> HIDE DEF row
<1>2. HeaderWords(row, w) \in {0, 1, 2} /\ Len(w) \in Nat
  BY DEF HeaderWords
<1>3. HeaderSays(row, w) \in Int
  <2>1. CASE Len(w) < HeaderWords(row, w)
    BY <2>1 DEF HeaderSays, E_FAIL
  <2>2. CASE ~(Len(w) < HeaderWords(row, w)) /\ HeaderWords(row, w) = 2
    <3>1. w[2] \in Int
      BY <1>2, <2>2
    <3> QED
      BY <2>2, <3>1 DEF HeaderSays
  <2>3. CASE ~(Len(w) < HeaderWords(row, w)) /\ HeaderWords(row, w) # 2
    BY <2>3 DEF HeaderSays, S_OK
  <2> QED
    BY <2>1, <2>2, <2>3
<1>4. LastErrorRead(row, w, Kept) \in Int
  <2>1. CASE read = {}
    BY <2>1 DEF LastErrorRead, Kept
  <2>2. CASE read # {}
    <3>1. PICK i \in read : i = CHOOSE j \in read : TRUE
      BY <2>2
    <3>2. i \in Nat \ {0} /\ i <= Len(w) - HeaderWords(row, w)
      BY <1>1, <3>1 DEF ReadsOf, Got
    <3>3. HeaderWords(row, w) + i \in 1..Len(w)
      BY <1>2, <3>2
    <3>4. w[HeaderWords(row, w) + i] \in Int
      BY <3>3
    <3> QED
      BY <2>2, <3>1, <3>4 DEF LastErrorRead, Word
  <2> QED
    BY <2>1, <2>2
<1>5. LastErrorSaid(row, w) \in Int
  BY <1>4 DEF LastErrorSaid, Kept
<1> QED
  BY <1>3, <1>4, <1>5 DEF row

\* Codes that are numbers, or kept, leave numbers.
LEMMA ErrorsKeep ==
    ASSUME ContextShape, CodesInv, NEW r \in Int, NEW l \in Int
    PROVE  /\ Errors(r, l).rapi_error \in Int /\ Errors(r, l).last_error \in Int
           /\ Errors(r, l).is_initialized = context.is_initialized
           /\ Errors(r, l).rapi_ops = context.rapi_ops
           /\ Errors(r, l).socket = context.socket
           /\ DOMAIN Errors(r, l) = DOMAIN context
<1>1. Errors(r, l).rapi_error \in {context.rapi_error, r}
  BY DEF Errors, ContextShape
<1>2. Errors(r, l).last_error \in {context.last_error, l}
  BY DEF Errors, ContextShape
<1> QED
  BY <1>1, <1>2, ErrorsShape DEF CodesInv, Numbers

\* A call that ends, or goes on, leaves errors that are numbers.
LEMMA CodesSet ==
    ASSUME ContextShape, CodesInv, NEW r \in Int, NEW l \in Int,
           \/ context' = Errors(r, l)
           \/ context' = [Errors(r, l) EXCEPT !.socket = "closed"],
           peer' = peer \/ peer' = 0
    PROVE  CodesInv'
<1> DEFINE errors == Errors(r, l)
<1>1. /\ errors.rapi_error \in Int /\ errors.last_error \in Int
      /\ errors.is_initialized = context.is_initialized /\ errors.rapi_ops = context.rapi_ops
      /\ errors.socket = context.socket
      /\ DOMAIN errors = {"is_initialized", "rapi_ops", "socket", "rapi_error", "last_error"}
  BY ErrorsKeep DEF ContextShape
<1>2. context' = errors \/ context' = [errors EXCEPT !.socket = "closed"]
  OBVIOUS
<1> HIDE DEF errors
<1>3. /\ context'.rapi_error \in Int /\ context'.last_error \in Int
      /\ context'.is_initialized = context.is_initialized /\ context'.rapi_ops = context.rapi_ops
      /\ context'.socket = context.socket \/ context'.socket = "closed"
  BY <1>1, <1>2
<1> QED
  BY <1>3 DEF CodesInv, Numbers, StateInv

\* The errors that the context sets by itself are numbers.
LEMMA OwnCodes ==
    /\ S_OK \in Int /\ ERROR_SUCCESS \in Int /\ E_FAIL \in Int /\ E_UNEXPECTED \in Int
    /\ E_NOTIMPL \in Int /\ Kept \in Int
    /\ \A row : ErrorOf(row, E_FAIL) \in Int /\ ErrorOf(row, E_UNEXPECTED) \in Int
  BY DEF S_OK, ERROR_SUCCESS, E_FAIL, E_UNEXPECTED, E_NOTIMPL, Kept, ErrorOf

\* Connections.
LEMMA ConnectCodes == ASSUME OwnInv, CodesInv, Connect PROVE CodesInv'
<1> USE DEF CodesInv, Numbers, StateInv, OwnInv, ContextShape
<1>1. PICK t \in Transports, os \in OsVersions :
         ConnectSucceeds(t, os) \/ ConnectDenied(os) \/ ConnectFails(t)
  BY DEF Connect
<1>2. Speaks(t, os) \in Backends /\ Speaks("ppp", os) \in Backends
  BY VersionsAssumption
<1>3. CASE ConnectSucceeds(t, os)
  BY <1>2, <1>3 DEF ConnectSucceeds, Connected
<1>4. CASE ConnectDenied(os)
  BY <1>2, <1>4 DEF ConnectDenied, Connected
<1>5. CASE ConnectFails(t)
  BY <1>5 DEF ConnectFails, SocketClosed
<1> QED
  BY <1>1, <1>3, <1>4, <1>5

LEMMA DisconnectCodes == ASSUME OwnInv, CodesInv, Disconnect PROVE CodesInv'
  BY DEF CodesInv, Numbers, StateInv, OwnInv, ContextShape, Disconnect, SocketClosed

\* Calls that begin.
LEMMA MakeCallCodes == ASSUME OwnInv, CodesInv, MakeCall PROVE CodesInv'
<1>1. PICK f \in Names :
        \/ \E a \in Apis : NotConnectedCall(a, f)
        \/ NotImplementedCall(f) \/ RefusedCall(f) \/ SentCall(f) \/ UnsentCall(f)
  BY RapiAssumption DEF MakeCall
<1>2. ContextShape /\ (context.is_initialized => context.rapi_ops \in Backends)
  BY DEF OwnInv, SameProtocol
<1> DEFINE row == Ops[context.rapi_ops][f]
<1>3. CASE \E a \in Apis : NotConnectedCall(a, f)
  <2>1. PICK a \in Apis : Answered(f, 0, Functions[a][f].value, Functions[a][f].rapi_error,
                                   Functions[a][f].last_error)
    BY <1>3 DEF NotConnectedCall
  <2>2. context' = Errors(Functions[a][f].rapi_error, Functions[a][f].last_error)
        /\ peer' = peer
    BY <2>1 DEF Answered, wire
  <2>3. Functions[a][f].rapi_error \in Int /\ Functions[a][f].last_error \in Int
    BY CodesAssumption
  <2> QED
    BY <1>2, <2>2, <2>3, CodesSet
<1>4. CASE NotImplementedCall(f)
  <2>1. context' = Errors(E_NOTIMPL, ERROR_SUCCESS) /\ peer' = peer
    BY <1>4 DEF NotImplementedCall, Answered, wire
  <2> QED
    BY <1>2, <2>1, CodesSet, OwnCodes
<1>5. CASE RefusedCall(f)
  <2>1. context.is_initialized /\ row.bad # <<>>
        /\ context' = Errors(row.bad[2], row.bad[3]) /\ peer' = peer
    BY <1>5 DEF RefusedCall, Answered, wire
  <2>2. row.bad[2] \in Int /\ row.bad[3] \in Int
    BY <1>2, <2>1, CodesAssumption
  <2> HIDE DEF row
  <2> QED
    BY <1>2, <2>1, <2>2, CodesSet
<1>6. CASE SentCall(f)
  <2>1. context' = Errors(ErrorOf(row, E_UNEXPECTED), Kept) /\ peer' = peer
    BY <1>6 DEF SentCall
  <2> HIDE DEF row
  <2> QED
    BY <1>2, <2>1, CodesSet, OwnCodes
<1>7. CASE UnsentCall(f)
  <2>1. context' = [Errors(ErrorOf(row, E_FAIL), Kept) EXCEPT !.socket = "closed"] /\ peer' = 0
    BY <1>7 DEF UnsentCall, SocketClosed
  <2> HIDE DEF row
  <2> QED
    BY <1>2, <2>1, CodesSet, OwnCodes
<1> QED
  BY <1>1, <1>3, <1>4, <1>5, <1>6, <1>7

\* The row of a call that waits is one of the tables'.
LEMMA WaitingRow ==
    ASSUME OwnInv, Waiting
    PROVE  /\ context.is_initialized /\ context.rapi_ops \in Backends /\ call.name \in Names
           /\ Row = Ops[context.rapi_ops][call.name]
  BY DEF OwnInv, Conversation, SameProtocol, Row

\* What a waiting call may read.
LEMMA CameWords ==
    ASSUME OwnInv, Came
    PROVE  replies # <<>> /\ Head(replies) \in Replies /\ Head(replies).words \in Seq(Int)
<1>1. replies # <<>> /\ replies \in Seq(Replies)
  BY DEF Came, OwnInv, WireTypes
<1>2. Head(replies) \in Replies
  BY <1>1
<1> QED
  BY <1>1, <1>2, WordsAreNumbers

\* Calls that wait, and end.
LEMMA AnswerCodes == ASSUME OwnInv, CodesInv, Answer PROVE CodesInv'
<1>1. ContextShape
  BY DEF OwnInv
<1>2. CASE ReadFirst
  <2>1. Waiting /\ Came /\ peer' = peer
        /\ context' = Errors(Kept, LastErrorRead(Row, Head(replies).words, Kept))
    BY <1>2 DEF ReadFirst
  <2>2. LastErrorRead(Row, Head(replies).words, Kept) \in Int
    BY <2>1, WaitingRow, CameWords, ErrorsRead
  <2> QED
    BY <1>1, <2>1, <2>2, CodesSet, OwnCodes
<1>3. CASE ReadSecond
  BY <1>3 DEF ReadSecond, CodesInv, Numbers, StateInv
<1>4. CASE ReadReply
  <2> DEFINE w == Head(replies).words
  <2>1. Waiting /\ Came /\ peer' = peer
        /\ context' = Errors(HeaderSays(Row, w), LastErrorSaid(Row, w))
    BY <1>4 DEF ReadReply
  <2>2. HeaderSays(Row, w) \in Int /\ LastErrorSaid(Row, w) \in Int
    BY <2>1, WaitingRow, CameWords, ErrorsRead
  <2> HIDE DEF w
  <2> QED
    BY <1>1, <2>1, <2>2, CodesSet
<1>5. CASE NoAnswer
  <2>1. context' = [Errors(ErrorOf(Row, E_FAIL), Kept) EXCEPT !.socket = "closed"] /\ peer' = 0
    BY <1>5 DEF NoAnswer, SocketClosed
  <2> QED
    BY <1>1, <2>1, CodesSet, OwnCodes
<1> QED
  BY <1>2, <1>3, <1>4, <1>5 DEF Answer

\* The device touches neither the context nor the protocol.
LEMMA NextCodes == ASSUME OwnInv, CodesInv, [Next]_vars PROVE CodesInv'
<1>1. CASE Device \/ UNCHANGED vars
  <2>1. UNCHANGED <<context, peer>>
    BY <1>1 DEF Device, Serve, RestArrives, ServeOrphan, LinkBreaks, vars
  <2> QED
    BY <2>1 DEF CodesInv, Numbers, StateInv
<1> QED
  BY <1>1, ConnectCodes, DisconnectCodes, MakeCallCodes, AnswerCodes DEF Next

\* Nothing is connected.
LEMMA InitCodes == Init => CodesInv
  BY DEF Init, CodesInv, Numbers, StateInv

\* The three invariants give the types.
LEMMA TypesFollow == ASSUME OwnInv, PromiseInv, CodesInv PROVE TypeOK
<1>1. /\ context.is_initialized \in BOOLEAN /\ context.rapi_ops \in Backends \cup {0}
      /\ context.is_initialized <=> context.rapi_ops # 0
  BY CodesAssumption DEF OwnInv, ContextShape, SameProtocol, CodesInv, StateInv
<1>2. /\ calls \in 0..MaxCalls /\ call.n \in 0..MaxCalls
      /\ done \subseteq served /\ served \subseteq 1..calls
  <2>1. calls \in Nat /\ MaxCalls \in Nat /\ calls <= MaxCalls
    BY RapiAssumption DEF OwnInv, CallShape, PromiseInv, NumbersInv
  <2>2. call.n = 0 \/ call.n \in 1..calls
    BY DEF PromiseInv, NumbersInv, Waiting
  <2> QED
    BY <2>1, <2>2 DEF PromiseInv, NumbersInv
<1>3. Waiting => call.name \in Names
  BY DEF OwnInv, Conversation
<1>4. \A i \in DOMAIN requests : requests[i].n \in 1..MaxCalls
  <2>1. \A i \in DOMAIN requests : requests[i].n \in 1..calls
    BY DEF PromiseInv, OnceInv, Pending
  <2> QED
    BY <1>2, <2>1, RapiAssumption
<1>5. \A i \in DOMAIN replies : replies[i].n \in 1..MaxCalls
  <2>1. ASSUME NEW i \in DOMAIN replies PROVE Waiting /\ replies[i].n = call.n
    <3>1. replies # <<>>
      BY <2>1
    <3> QED
      BY <2>1, <3>1 DEF OwnInv, Conversation
  <2> QED
    BY <1>2, <2>1, RapiAssumption DEF Waiting
<1>6. alive \in BOOLEAN
  BY DEF OwnInv, WireTypes
<1> QED
  BY <1>1, <1>2, <1>3, <1>4, <1>5, <1>6 DEF TypeOK, CodesInv, Numbers, StateInv

----------------------------------------------------------------------------
(* The reasons.  The reply of a call that ends is a true one (TruthInv),   *)
(* so the rows decide, each way to end a call by a part of its own.        *)

\* What a call returns carries its reason.
LEMMA ReturnExplains ==
    ASSUME NEW n, NEW f, NEW b, NEW value, NEW r, NEW l, NEW from, NEW reply,
           Return(n, f, b, value, r, l, from, reply),
           Explains(b, f) /\ reply # "cut" /\ Fails(Type(f), value) => SaysWhy(f, r, l)
    PROVE  FailureIsExplained'
<1>1. /\ result'.told = Verdict(b, f, value) /\ result'.reply = reply
      /\ result'.backend = b /\ result'.name = f
      /\ result'.explained = SaysWhy(f, r, l)
  BY DEF Return
<1>2. Verdict(b, f, value) = "failure" => Fails(Type(f), value)
  BY Verdicts
<1>3. Explains(result'.backend, result'.name) = Explains(b, f)
  BY <1>1
<1>4. ASSUME result'.told = "failure", result'.reply # "cut",
             Explains(result'.backend, result'.name)
      PROVE  result'.explained
  <2>1. Explains(b, f) /\ reply # "cut" /\ Fails(Type(f), value)
    BY <1>1, <1>2, <1>3, <1>4
  <2>2. SaysWhy(f, r, l)
    BY <2>1
  <2> QED
    BY <1>1, <2>2, Zenon
<1> QED
  BY <1>4, Zenon DEF FailureIsExplained, Explains

\* The errors of rapi_context_call say why; a function that does without it
\* returns an error.
LEMMA LostExplains ==
    ASSUME NEW b \in Backends, NEW f \in Names, Explains(b, f)
    PROVE  SaysWhy(f, ErrorOf(Ops[b][f], E_FAIL), Kept)
<1>1. CASE Ops[b][f].through = "rapi_buffer_send"
  BY <1>1, ExplanationsAssumption DEF ErrorOf
<1>2. CASE Ops[b][f].through # "rapi_buffer_send"
  BY <1>2 DEF ErrorOf, SaysWhy, E_FAIL, S_OK, Kept
<1> QED
  BY <1>1, <1>2

\* Calls that end where they begin.
LEMMA MakeCallExplains ==
    ASSUME OwnInv, FailureIsExplained, MakeCall PROVE FailureIsExplained'
<1>1. PICK f \in Names :
        \/ \E a \in Apis : NotConnectedCall(a, f)
        \/ NotImplementedCall(f) \/ RefusedCall(f) \/ SentCall(f) \/ UnsentCall(f)
  BY RapiAssumption DEF MakeCall
<1> DEFINE b == context.rapi_ops
           row == Ops[b][f]
<1>2. context.is_initialized => b \in Backends
  BY DEF OwnInv, SameProtocol
<1>3. CASE \E a \in Apis : NotConnectedCall(a, f)
  <2>1. PICK a \in Apis : Return(calls + 1, f, 0, Functions[a][f].value,
                                 Functions[a][f].rapi_error, Functions[a][f].last_error, 0, "none")
    BY <1>3 DEF NotConnectedCall, Answered
  <2>2. Explains(0, f) /\ Fails(Type(f), Functions[a][f].value)
        => SaysWhy(f, Functions[a][f].rapi_error, Functions[a][f].last_error)
    BY ExplanationsAssumption
  <2> QED
    BY <2>1, <2>2, ReturnExplains
<1>4. CASE NotImplementedCall(f)
  <2>1. Return(calls + 1, f, b, row.lost, E_NOTIMPL, ERROR_SUCCESS, 0, "none")
    BY <1>4 DEF NotImplementedCall, Answered
  <2>2. SaysWhy(f, E_NOTIMPL, ERROR_SUCCESS)
    BY DEF SaysWhy, E_NOTIMPL, S_OK, Kept
  <2> HIDE DEF b, row
  <2> QED
    BY <2>1, <2>2, ReturnExplains
<1>5. CASE RefusedCall(f)
  <2>1. /\ b \in Backends /\ row.bad # <<>>
        /\ Return(calls + 1, f, b, row.bad[1], row.bad[2], row.bad[3], 0, "none")
    BY <1>2, <1>5 DEF RefusedCall, Answered
  <2> HIDE DEF b
  <2>2. Explains(b, f) /\ Fails(Type(f), row.bad[1]) => SaysWhy(f, row.bad[2], row.bad[3])
    BY <2>1, ExplanationsAssumption
  <2> HIDE DEF row
  <2> QED
    BY <2>1, <2>2, ReturnExplains
<1>6. CASE SentCall(f)
  BY <1>6 DEF SentCall, FailureIsExplained, NoResult
<1>7. CASE UnsentCall(f)
  <2>1. b \in Backends
        /\ Return(calls + 1, f, b, row.lost, ErrorOf(row, E_FAIL), Kept, 0, "none")
    BY <1>2, <1>7 DEF UnsentCall
  <2> HIDE DEF b
  <2>2. Explains(b, f) => SaysWhy(f, ErrorOf(row, E_FAIL), Kept)
    BY <2>1, LostExplains
  <2> HIDE DEF row
  <2> QED
    BY <2>1, <2>2, ReturnExplains
<1> QED
  BY <1>1, <1>3, <1>4, <1>5, <1>6, <1>7

\* Calls that wait, and end.
LEMMA AnswerExplains ==
    ASSUME OwnInv, PromiseInv, FailureIsExplained, Answer PROVE FailureIsExplained'
<1> DEFINE b == context.rapi_ops
           f == call.name
<1>1. Waiting /\ b \in Backends /\ f \in Names /\ Row = Ops[b][f] /\ Row.through # Local
  <2>1. Waiting
    BY DEF Answer, ReadFirst, ReadSecond, ReadReply, NoAnswer
  <2> QED
    BY <2>1, WaitingRow DEF PromiseInv, TruthInv
<1>2. CASE ReadFirst
  BY <1>2 DEF ReadFirst, FailureIsExplained
<1>3. CASE ReadSecond
  <2> DEFINE reply == IF call.got[3] THEN "whole" ELSE "cut"
  <2>1. Return(call.n, f, b, call.got[1], Kept, Kept, call.got[2], reply)
    BY <1>3 DEF ReadSecond
  <2>2. Row.messages = 2
    BY <1>1, <1>3 DEF ReadSecond, PromiseInv, TruthInv
  <2> HIDE DEF b, f, reply
  <2>3. Explains(b, f) => SaysWhy(f, Kept, Kept)
    BY <1>1, <2>2, ExplanationsAssumption
  <2> QED
    BY <2>1, <2>3, ReturnExplains
<1>4. CASE ReadReply
  <2> DEFINE m == replies[1]
             reply == IF m.whole THEN "whole" ELSE "cut"
             header == HeaderSays(Row, m.words)
             last_error == LastErrorSaid(Row, m.words)
  <2>1. Came /\ Row.messages = 1 /\ replies # <<>> /\ Head(replies) = m
    BY <1>4 DEF ReadReply, Came, OwnInv, WireTypes
  <2>2. call.got = <<>>
    BY <1>1, <2>1, OneMessage
  <2>3. PICK v \in Values(b, f, m.words) :
          Return(call.n, f, b, v, header, last_error, m.n, reply)
    BY <1>4, <2>1, Zenon DEF ReadReply, Values, Row
  <2>4. PICK g \in Names, ok \in BOOLEAN :
          /\ Ops[b][g].cmd = Row.cmd
          /\ m.whole => m.words \in Wholes(b, g, ok)
    BY <1>1, <2>1, <2>2, Zenon DEF PromiseInv, TruthInv, TrueReply
  <2>5. reply # "cut" => m.whole
    OBVIOUS
  <2> HIDE DEF b, f, reply, header, last_error, m
  <2>6. Explains(b, f) /\ m.whole /\ Fails(Type(f), v) => SaysWhy(f, header, last_error)
    <3>1. ASSUME Explains(b, f), m.whole, Fails(Type(f), v)
          PROVE  SaysWhy(f, HeaderSays(Ops[b][f], m.words), LastErrorSaid(Ops[b][f], m.words))
      <4>1. m.words \in Wholes(b, g, ok) /\ Ops[b][g].cmd = Ops[b][f].cmd
            /\ Ops[b][f].through # Local
        BY <1>1, <2>4, <3>1
      <4> QED
        BY <1>1, <2>3, <3>1, <4>1, ExplanationsAssumption, Zenon
    <3> QED
      BY <1>1, <3>1, Zenon DEF header, last_error
  <2> QED
    BY <2>3, <2>5, <2>6, ReturnExplains
<1>5. CASE NoAnswer
  <2>1. Return(call.n, f, b, Row.lost, ErrorOf(Row, E_FAIL), Kept, 0, "none")
    BY <1>5 DEF NoAnswer
  <2> HIDE DEF b, f
  <2>2. Explains(b, f) => SaysWhy(f, ErrorOf(Row, E_FAIL), Kept)
    BY <1>1, LostExplains
  <2> QED
    BY <2>1, <2>2, ReturnExplains
<1> QED
  BY <1>2, <1>3, <1>4, <1>5 DEF Answer

\* Other steps leave the result alone.
LEMMA NextExplains ==
    ASSUME OwnInv, PromiseInv, FailureIsExplained, [Next]_vars PROVE FailureIsExplained'
<1>1. CASE Connect \/ Disconnect \/ Device \/ UNCHANGED vars
  <2>1. result' = result
    BY <1>1 DEF Connect, Disconnect, Device, Serve, RestArrives, ServeOrphan, LinkBreaks, vars
  <2> QED
    BY <2>1 DEF FailureIsExplained
<1> QED
  BY <1>1, MakeCallExplains, AnswerExplains DEF Next

----------------------------------------------------------------------------
(* The theorems.                                                           *)

\* KeepsContract: the device does what a call asks at most once, and who is told
\* success by a trusted function is told so after it was done; for any number of
\* calls, timeouts and broken links, and any table whose readers fit the devices.
THEOREM CallsKeepPromise == Spec => KeepsContract
<1>1. Init => OwnInv /\ PromiseInv /\ Contract!Init
  BY InitOwn, InitKeeps
<1>2. OwnInv /\ PromiseInv /\ [Next]_vars => OwnInv' /\ PromiseInv' /\ [Contract!Next]_(Contract!vars)
  BY NextOwn, NextKeeps DEF ContractStep
<1> QED
  BY <1>1, <1>2, PTL DEF Spec, KeepsContract, Contract!Spec

\* DoneIsTold: a caller is not told failure of what the device did and answered in
\* full.
THEOREM DoneNotDenied == Spec => []DoneIsTold
<1>1. Init => OwnInv /\ PromiseInv
  BY InitOwn, InitKeeps
<1>2. OwnInv /\ PromiseInv /\ [Next]_vars => OwnInv' /\ PromiseInv'
  BY NextOwn, NextKeeps
<1>3. PromiseInv => DoneIsTold
  BY DEF PromiseInv, TruthInv
<1> QED
  BY <1>1, <1>2, <1>3, PTL DEF Spec

\* TypeOK: after any calls, replies and broken links there is a table exactly in
\* an initialized context, the error codes are numbers, and nothing is done that
\* was not called.
THEOREM CallsTypeCorrect == Spec => []TypeOK
<1>1. Init => OwnInv /\ PromiseInv /\ CodesInv
  BY InitOwn, InitKeeps, InitCodes
<1>2. OwnInv /\ PromiseInv /\ CodesInv /\ [Next]_vars => OwnInv' /\ PromiseInv' /\ CodesInv'
  BY NextOwn, NextKeeps, NextCodes
<1>3. OwnInv /\ PromiseInv /\ CodesInv => TypeOK
  BY TypesFollow
<1> QED
  BY <1>1, <1>2, <1>3, PTL DEF Spec

\* FailureIsExplained: whoever is told failure, by a function that is not named
\* in Unexplained or Misread and not by half a reply, can find out why.
THEOREM FailuresExplained == Spec => []FailureIsExplained
<1>1. Init => OwnInv /\ PromiseInv /\ FailureIsExplained
  BY InitOwn, InitKeeps DEF Init, FailureIsExplained, NoResult
<1>2. OwnInv /\ PromiseInv /\ FailureIsExplained /\ [Next]_vars
      => OwnInv' /\ PromiseInv' /\ FailureIsExplained'
  BY NextOwn, NextKeeps, NextExplains
<1> QED
  BY <1>1, <1>2, PTL DEF Spec
=============================================================================
