----------------------------- MODULE RapiContext -----------------------------
(***************************************************************************)
(* A RAPI context (rapi_context.c, rapi_buffer.c): the connection to a     *)
(* device, the table of the functions its version understands, the two     *)
(* error codes, and the calls that one thread makes on it.  A call sends a *)
(* command and waits for the reply; the device, its link and the clock do  *)
(* what they like meanwhile.  What a single function sends and reads is a  *)
(* row of Ops, how it answers without a connection a row of Functions.     *)
(***************************************************************************)
EXTENDS RapiCalls

CONSTANTS
    Names,       \* the functions
    Backends,    \* 1: rapi_ops, 2: rapi2_ops
    Ops,         \* Ops[b][f]: the row of f in backend b
    Apis,        \* the interfaces
    Functions,   \* Functions[a][f]: f in front of the backends
    Transports,  \* how the device was found
    OsVersions,  \* of the device: <<major, minor>>
    Untrusted,   \* the <<b, f>> whose value says nothing of success
    Unexplained, \* the <<b, f>> that fail without saying why
    Misread,     \* the <<b, f>> that do not understand the device
    Followers,   \* bound: the functions called after the first call
    MaxCalls     \* bound: calls made in a behaviour

ASSUME RapiAssumption ==
    /\ MaxCalls \in Nat
    /\ Followers \subseteq Names
    /\ \A b \in Backends, f \in Names : Ops[b][f].messages \in {1, 2}
    /\ \A b \in Backends, f, g \in Names :
          Ops[b][f].cmd = Ops[b][g].cmd => Ops[b][f].messages = Ops[b][g].messages

VARIABLES
    context,   \* is_initialized, rapi_ops, whether the socket is open, errors
    calls,     \* calls made so far
    call,      \* the call that waits for its reply
    result,    \* what the last call returned
    requests,  \* commands on the connection, before the device took them
    replies,   \* messages on the connection, before the context read them
    peer,      \* the backend that the device at the other end understands
    alive,     \* the connection still reaches the device
    orphans,   \* commands that a device may take from a connection now closed
    served, done, told   \* the calls for RemoteCall

wire == <<requests, replies, peer, alive, orphans>>
device == <<served, done>>
vars == <<context, calls, call, result, requests, replies, peer, alive,
          orphans, served, done, told>>

NoCall == [n |-> 0, name |-> "none", got |-> <<>>]
NoResult == [n |-> 0, name |-> "none", backend |-> 0, told |-> "nothing",
             from |-> 0, reply |-> "none", explained |-> TRUE]
Waiting == call.n # 0
Row == Ops[context.rapi_ops][call.name]
Type(f) == Functions[CHOOSE a \in Apis : TRUE][f].type

\* What a device of backend b writes when it executes f: the whole, or a part.
Wholes(b, f, ok) == WholeReplies(b, Ops[b][f], Type(f), ok)
TextsOf(b, f, ok) == Wholes(b, f, ok) \cup CutReplies(Wholes(b, f, ok))

\* What a reader of f may return after the words w.
Values(b, f, w) == ValuesOf(Ops[b][f], Type(f), w)
Trusted(b, f) == <<b, f>> \notin Untrusted

\* The readers fit the devices: but for the named functions, a value that tells
\* success is never read after the device did not do what was asked, nor returned
\* without a reply; and a whole reply of one that did it is never read as failure.
ASSUME ReadersAssumption ==
    \A b \in Backends, f \in Names :
        /\ Trusted(b, f) =>
             /\ \A g \in Names, ok \in BOOLEAN :
                   Ops[b][g].cmd = Ops[b][f].cmd /\ ~(ok /\ g = f) =>
                     \A w \in TextsOf(b, g, ok) : \A v \in Values(b, f, w) : Fails(Type(f), v)
             /\ Fails(Type(f), Ops[b][f].lost)
             /\ Ops[b][f].bad # <<>> => Fails(Type(f), Ops[b][f].bad[1])
        /\ Ops[b][f].through # Local /\ <<b, f>> \notin Misread =>
             \A w \in Wholes(b, f, TRUE) : \A v \in Values(b, f, w) : ~Fails(Type(f), v)
ASSUME AnswersAssumption ==
    \A a \in Apis, f \in Names : Trusted(0, f) => Fails(Type(f), Functions[a][f].value)

\* The tables hold numbers, and so do the replies.
ASSUME CodesAssumption ==
    /\ 0 \notin Backends
    /\ \A a \in Apis, f \in Names :
          Functions[a][f].rapi_error \in Int /\ Functions[a][f].last_error \in Int
    /\ \A b \in Backends, f \in Names :
          /\ Ops[b][f].bad # <<>> => Ops[b][f].bad[2] \in Int /\ Ops[b][f].bad[3] \in Int
          /\ DOMAIN Ops[b][f].reads \subseteq Nat \ {0}
          /\ \A ok \in BOOLEAN : TextsOf(b, f, ok) \subseteq Seq(Int)

TypeOK ==
    /\ context.is_initialized \in BOOLEAN
    /\ context.rapi_ops \in Backends \cup {0}
    /\ context.socket \in {"open", "closed"}
    /\ context.rapi_error \in Int /\ context.last_error \in Int
    /\ calls \in 0..MaxCalls
    /\ call.n \in 0..MaxCalls
    /\ Waiting => call.name \in Names
    /\ peer \in Backends \cup {0}
    /\ alive \in BOOLEAN
    /\ context.is_initialized <=> context.rapi_ops # 0
    /\ \A i \in DOMAIN requests : requests[i].n \in 1..MaxCalls
    /\ \A i \in DOMAIN replies : replies[i].n \in 1..MaxCalls
    /\ done \subseteq served /\ served \subseteq 1..calls

Init ==
    /\ context = [is_initialized |-> FALSE, rapi_ops |-> 0,
                  socket |-> "closed", rapi_error |-> 0, last_error |-> 0]
    /\ calls = 0 /\ call = NoCall /\ result = NoResult
    /\ requests = <<>> /\ replies = <<>>
    /\ peer = 0 /\ alive = FALSE /\ orphans = {}
    /\ served = {} /\ done = {}
    /\ told = [i \in 1..MaxCalls |-> "nothing"]

-----------------------------------------------------------------------------
(* Connecting.                                                             *)

\* What was on the connection may still be taken by the device; its answers
\* are lost.
SocketClosed ==
    /\ orphans' = orphans \cup {requests[i] : i \in DOMAIN requests}
    /\ requests' = <<>> /\ replies' = <<>>
    /\ alive' = FALSE /\ peer' = 0

\* The backend that a device of this version understands (those on ppp are
\* older), and the one that rapi_context_connect chooses.
Speaks(transport, os) ==
    IF transport # "ppp" /\ (os[1] > 5 \/ (os[1] = 5 /\ os[2] > 0)) THEN 2 ELSE 1
Chosen(transport, os) ==
    IF transport # "ppp" /\ os[1] > 4 /\ os[2] > 0 THEN 2 ELSE 1

\* The versions are those on which the two agree.
ASSUME VersionsAssumption ==
    \A t \in Transports \cup {"ppp"}, os \in OsVersions :
        Speaks(t, os) \in Backends /\ Chosen(t, os) = Speaks(t, os)

\* A socket is connected in place of the old one.
Connected(transport, os) ==
    /\ orphans' = orphans \cup {requests[i] : i \in DOMAIN requests}
    /\ requests' = <<>> /\ replies' = <<>>
    /\ alive' = TRUE /\ peer' = Speaks(transport, os)

ConnectSucceeds(transport, os) ==
    /\ Connected(transport, os)
    /\ context' = [context EXCEPT !.is_initialized = TRUE, !.socket = "open",
                                  !.rapi_ops = Chosen(transport, os)]

\* The password is refused: the socket stays open in a context that is not
\* initialized.
ConnectDenied(os) ==
    /\ "ppp" \in Transports
    /\ Connected("ppp", os)
    /\ context' = [context EXCEPT !.socket = "open"]

\* The sockets of ppp and of the proxy are closed before they connect.
ConnectFails(transport) ==
    /\ transport \in {"ppp", "proxy"}
    /\ SocketClosed
    /\ context' = [context EXCEPT !.socket = "closed"]

\* (CERAPI_E_ALREADYINITIALIZED and the failures before there is a socket
\* change nothing.)
Connect ==
    /\ ~Waiting
    /\ ~context.is_initialized
    /\ \E t \in Transports, os \in OsVersions :
          ConnectSucceeds(t, os) \/ ConnectDenied(os) \/ ConnectFails(t)
    /\ UNCHANGED <<calls, call, result, device, told>>

\* (Mutant: the table of functions is kept.)
DisconnectKeepsOps ==
    /\ ~Waiting
    /\ context.is_initialized
    /\ SocketClosed
    /\ context' = [context EXCEPT !.is_initialized = FALSE, !.socket = "closed"]
    /\ UNCHANGED <<calls, call, result, device, told>>

Disconnect ==
    /\ ~Waiting
    /\ context.is_initialized
    /\ SocketClosed
    /\ context' = [context EXCEPT !.is_initialized = FALSE, !.rapi_ops = 0,
                                  !.socket = "closed"]
    /\ UNCHANGED <<calls, call, result, device, told>>

-----------------------------------------------------------------------------
(* What a call returns and what its caller makes of it.                    *)

Verdict(b, f, value) ==
    IF Fails(Type(f), value) THEN "failure"
    ELSE IF <<b, f>> \in Untrusted THEN "unclear" ELSE "success"

\* The last error that a reply brings: a header that refuses leaves it unread.
LastErrorSaid(row, w) ==
    IF HeaderSays(row, w) = S_OK THEN LastErrorRead(row, w, Kept) ELSE Kept

\* A failure is explained by the value itself or by an error code that this
\* call set.
SaysWhy(f, rapi_error, last_error) ==
    \/ Type(f) \in {"LONG", "HRESULT"}
    \/ rapi_error \notin {S_OK, Kept}
    \/ last_error \notin {ERROR_SUCCESS, Kept}

Explains(b, f) == <<b, f>> \notin Unexplained \cup Misread

\* The rows that are not named say why they fail: in their answer without a
\* connection, with arguments they refuse, when a whole reply is read as failure,
\* and, in the value, when rapi_context_call does not set an error for them.
ASSUME ExplanationsAssumption ==
    /\ \A a \in Apis, f \in Names :
          LET row == Functions[a][f] IN
            Explains(0, f) /\ Fails(Type(f), row.value) =>
               SaysWhy(f, row.rapi_error, row.last_error)
    /\ \A b \in Backends, f \in Names : Explains(b, f) =>
          LET row == Ops[b][f] IN
            /\ row.bad # <<>> /\ Fails(Type(f), row.bad[1]) => SaysWhy(f, row.bad[2], row.bad[3])
            /\ row.messages = 2 \/ row.through = "rapi_buffer_send" => SaysWhy(f, Kept, Kept)
            /\ row.through # Local =>
                 \A g \in Names, ok \in BOOLEAN : Ops[b][g].cmd = row.cmd =>
                    \A w \in Wholes(b, g, ok) : \A v \in Values(b, f, w) :
                       Fails(Type(f), v) => SaysWhy(f, HeaderSays(row, w), LastErrorSaid(row, w))

Errors(rapi_error, last_error) ==
    [context EXCEPT !.rapi_error = IF rapi_error = Kept THEN @ ELSE rapi_error,
                    !.last_error = IF last_error = Kept THEN @ ELSE last_error]

Return(n, f, b, value, rapi_error, last_error, from, reply) ==
    /\ result' = [n |-> n, name |-> f, backend |-> b,
                  told |-> Verdict(b, f, value), from |-> from, reply |-> reply,
                  explained |-> SaysWhy(f, rapi_error, last_error)]
    /\ told' = [told EXCEPT ![n] = Verdict(b, f, value)]
    /\ call' = NoCall

\* The calls that end without a message: not connected, not implemented, bad
\* arguments.
Answered(f, b, value, rapi_error, last_error) ==
    /\ calls' = calls + 1
    /\ Return(calls + 1, f, b, value, rapi_error, last_error, 0, "none")
    /\ context' = Errors(rapi_error, last_error)
    /\ UNCHANGED <<wire, device>>

NotConnectedCall(a, f) ==
    /\ ~context.is_initialized
    /\ Answered(f, 0, Functions[a][f].value, Functions[a][f].rapi_error,
                Functions[a][f].last_error)

NotImplementedCall(f) ==
    /\ context.is_initialized
    /\ Ops[context.rapi_ops][f].through = Local
    /\ Answered(f, context.rapi_ops, Ops[context.rapi_ops][f].lost,
                E_NOTIMPL, ERROR_SUCCESS)

RefusedCall(f) ==
    /\ context.is_initialized
    /\ LET bad == Ops[context.rapi_ops][f].bad IN
        /\ bad # <<>>
        /\ Answered(f, context.rapi_ops, bad[1], bad[2], bad[3])

\* (Mutant: no function sets rapi_error.)
ErrorOfNobody(row, error) == Kept

\* CeRapiInvoke leaves rapi_error alone in backend 1, where it does without
\* rapi_context_call.
ErrorOf(row, error) == IF row.through = "rapi_buffer_send" THEN Kept ELSE error

\* The command is written.  On a link that broke it may vanish.
SentCall(f) ==
    /\ context.is_initialized
    /\ context.socket = "open"
    /\ LET row == Ops[context.rapi_ops][f] IN
        /\ row.through # Local
        /\ calls' = calls + 1
        /\ call' = [n |-> calls + 1, name |-> f, got |-> <<>>]
        /\ result' = NoResult
        /\ context' = Errors(ErrorOf(row, E_UNEXPECTED), Kept)
        /\ requests' = IF alive
                       THEN Append(requests, [n |-> calls + 1, cmd |-> row.cmd,
                                              name |-> f])
                       ELSE requests
    /\ UNCHANGED <<replies, peer, alive, orphans, device, told>>

\* The command cannot be written: the socket is closed, or was.
UnsentCall(f) ==
    /\ context.is_initialized
    /\ context.socket = "closed" \/ ~alive
    /\ LET row == Ops[context.rapi_ops][f] IN
        /\ row.through # Local
        /\ calls' = calls + 1
        /\ Return(calls + 1, f, context.rapi_ops, row.lost,
                  ErrorOf(row, E_FAIL), Kept, 0, "none")
        /\ context' = [Errors(ErrorOf(row, E_FAIL), Kept)
                       EXCEPT !.socket = "closed"]
    /\ SocketClosed
    /\ UNCHANGED device

MakeCall ==
    /\ ~Waiting
    /\ calls < MaxCalls
    /\ \E f \in IF calls = 0 THEN Names ELSE Followers :
        \/ \E a \in Apis : NotConnectedCall(a, f)
        \/ NotImplementedCall(f)
        \/ RefusedCall(f)
        \/ SentCall(f)
        \/ UnsentCall(f)

-----------------------------------------------------------------------------
(* Waiting for the reply.                                                  *)

Came == replies # <<>> /\ Head(replies).came

\* The first of the two messages of CeRapiInvoke is read, the second only
\* waited for.
ReadFirst ==
    /\ Waiting /\ Came
    /\ Row.messages = 2 /\ call.got = <<>>
    /\ \E value \in ValuesOf(Row, Type(call.name), Head(replies).words) :
        call' = [call EXCEPT !.got = <<value, Head(replies).n, Head(replies).whole>>]
    /\ context' = Errors(Kept, LastErrorRead(Row, Head(replies).words, Kept))
    /\ replies' = Tail(replies)
    /\ UNCHANGED <<calls, result, requests, peer, alive, orphans, device, told>>

\* (Mutant: what the first message brought is lost.)
ReadSecondForgets ==
    /\ Waiting /\ Came
    /\ call.got # <<>>
    /\ Return(call.n, call.name, context.rapi_ops, Row.lost, Kept, Kept,
              call.got[2], IF call.got[3] THEN "whole" ELSE "cut")
    /\ replies' = Tail(replies)
    /\ UNCHANGED <<context, calls, requests, peer, alive, orphans, device>>

ReadSecond ==
    /\ Waiting /\ Came
    /\ call.got # <<>>
    /\ Return(call.n, call.name, context.rapi_ops, call.got[1], Kept, Kept,
              call.got[2], IF call.got[3] THEN "whole" ELSE "cut")
    /\ replies' = Tail(replies)
    /\ UNCHANGED <<context, calls, requests, peer, alive, orphans, device>>

\* The only message of every other call: a header that refuses, or the reads.
ReadReply ==
    /\ Waiting /\ Came
    /\ Row.messages = 1
    /\ LET m == Head(replies)
           header == HeaderSays(Row, m.words)
           last_error == LastErrorSaid(Row, m.words)
       IN
        /\ \E value \in ValuesOf(Row, Type(call.name), m.words) :
              Return(call.n, call.name, context.rapi_ops, value, header,
                     last_error, m.n, IF m.whole THEN "whole" ELSE "cut")
        /\ context' = Errors(header, last_error)
    /\ replies' = Tail(replies)
    /\ UNCHANGED <<calls, requests, peer, alive, orphans, device>>

\* (Mutants: the socket stays open after the time is over; nobody looks at the
\* time.)
NoAnswerKeepsSocket ==
    /\ Waiting
    /\ replies = <<>> \/ (~Came /\ ~alive)
    /\ Return(call.n, call.name, context.rapi_ops, Row.lost,
              ErrorOf(Row, E_FAIL), Kept, 0, "none")
    /\ context' = Errors(ErrorOf(Row, E_FAIL), Kept)
    /\ UNCHANGED <<wire, calls, device>>

NoAnswerWaits ==
    /\ Waiting
    /\ ~Came /\ ~alive
    /\ Return(call.n, call.name, context.rapi_ops, Row.lost,
              ErrorOf(Row, E_FAIL), Kept, 0, "none")
    /\ context' = [Errors(ErrorOf(Row, E_FAIL), Kept) EXCEPT !.socket = "closed"]
    /\ SocketClosed
    /\ UNCHANGED <<calls, device>>

\* 120 seconds without a byte, a signal, the end of the stream: the socket is
\* closed.  A message that began to arrive is waited for without a limit.
NoAnswer ==
    /\ Waiting
    /\ replies = <<>> \/ (~Came /\ ~alive)
    /\ Return(call.n, call.name, context.rapi_ops, Row.lost,
              ErrorOf(Row, E_FAIL), Kept, 0, "none")
    /\ context' = [Errors(ErrorOf(Row, E_FAIL), Kept) EXCEPT !.socket = "closed"]
    /\ SocketClosed
    /\ UNCHANGED <<calls, device>>

-----------------------------------------------------------------------------
(* The device and the link.                                                *)

\* The device executes function f, which is what the caller asked for when the
\* command says so, and which works (ok) or does not.
Executes(request, f, ok) ==
    /\ served' = served \cup {request.n}
    /\ done' = IF ok /\ f = request.name THEN done \cup {request.n} ELSE done

\* The messages with which it answers.
Messages(request, f, words, whole, came) ==
    LET first == [n |-> request.n, words |-> words, whole |-> whole, came |-> came]
    IN  IF Ops[peer][f].messages = 1 THEN <<first>>
        ELSE <<[first EXCEPT !.came = TRUE], [first EXCEPT !.words = <<>>]>>

Serve ==
    /\ alive
    /\ requests # <<>>
    /\ \E f \in Names, ok \in BOOLEAN, came \in BOOLEAN :
        /\ Ops[peer][f].cmd = Head(requests).cmd
        /\ Executes(Head(requests), f, ok)
        /\ \E words \in TextsOf(peer, f, ok) :
              replies' = replies \o Messages(Head(requests), f, words,
                                             words \in Wholes(peer, f, ok), came)
    /\ requests' = Tail(requests)
    /\ UNCHANGED <<context, calls, call, result, peer, alive, orphans, told>>

\* The rest of a message.
RestArrives ==
    /\ alive
    /\ replies # <<>> /\ ~Came
    /\ replies' = [replies EXCEPT ![1].came = TRUE]
    /\ UNCHANGED <<context, calls, call, result, requests, peer, alive, orphans,
                   device, told>>

ServeOrphan ==
    /\ \E r \in orphans, ok \in BOOLEAN :
        /\ Executes(r, r.name, ok)
        /\ orphans' = orphans \ {r}
    /\ UNCHANGED <<context, calls, call, result, requests, replies, peer, alive,
                   told>>

LinkBreaks ==
    /\ alive
    /\ alive' = FALSE
    /\ orphans' = orphans \cup {requests[i] : i \in DOMAIN requests}
    /\ requests' = <<>>
    /\ UNCHANGED <<context, calls, call, result, replies, peer, device, told>>

Device == Serve \/ RestArrives \/ ServeOrphan \/ LinkBreaks
Answer == ReadFirst \/ ReadSecond \/ ReadReply \/ NoAnswer

Next == Connect \/ Disconnect \/ MakeCall \/ Answer \/ Device

Spec == Init /\ [][Next]_vars

\* The thread that waits goes on when it can: poll returns at the latest
\* after 120 seconds.  Nothing is assumed of the device.
FairSpec == Spec /\ WF_vars(Answer)

-----------------------------------------------------------------------------
(* A call is answered from the reply to itself: after a call was given up, *)
(* its late reply is never taken for that of the next one.                 *)
AnswerIsOwn == result.from \in {0, result.n}

\* A device that did what was asked and said so is not contradicted: unless its
\* reply was cut, the caller is not told failure.  (That success is told only of
\* what was done is part of the contract below.)
DoneIsTold ==
    /\ result.reply = "whole" /\ result.n \in done
    /\ <<result.backend, result.name>> \notin Misread
    => result.told # "failure"

\* Who is told failure can find out why: the returned value is an error code,
\* or one of the two error codes was set by this very call.
FailureIsExplained ==
    /\ result.told = "failure" /\ result.reply # "cut"
    /\ Explains(result.backend, result.name)
    => result.explained

\* A call is answered, unless the device stops in the middle of a message
\* and keeps the connection.
Stalled == replies # <<>> /\ ~Came /\ alive
CallsEnd == \A i \in 1..MaxCalls : call.n = i ~> (call.n # i \/ Stalled)

\* The calls on a context keep the promise of a remote call.
Contract == INSTANCE RemoteCall
KeepsContract == Contract!Spec
=============================================================================
