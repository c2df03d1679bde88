------------------------------ MODULE RapiCalls ------------------------------
(***************************************************************************)
(* The remote calls of librapi as data.  All of them are made from one     *)
(* mould: refuse bad arguments, begin a command, exchange one message, read*)
(* the reply word by word, return a value whose type says which values mean*)
(* failure.  A Call record says how one function fills the mould; the      *)
(* arguments and the out-parameters are left out, the reads of the reply   *)
(* (and what happens when the reply ends before them) are kept.  RapiOps1  *)
(* and RapiOps2 hold the records, RapiContext makes the calls.             *)
(***************************************************************************)
EXTENDS Integers, Sequences, FiniteSets

S_OK == 0
ERROR_SUCCESS == 0
ERROR_GEN_FAILURE == 31
ERROR_INVALID_PARAMETER == 87
ERROR_NOT_CONNECTED == 2250
E_FAIL == -2147467259
E_UNEXPECTED == -2147418113
E_NOTIMPL == -2147467263
E_INVALIDARG == -2147024809
E_ACCESSDENIED == -2147024891
CERAPI_E_ALREADYINITIALIZED == -2147217407
No == 0            \* false, FALSE
Yes == 1           \* true, TRUE
INVALID == -1      \* INVALID_HANDLE_VALUE, INVALID_FILE_SIZE, 0xFFFFFFFF
SYSMEM_FAILED == 3

\* What a returned value of each type says.  CEOIDs and string lengths fail
\* like BOOLs, file pointers, sizes and attributes like HANDLEs; MEMORY is
\* the SYSMEM_ result of CeSetSystemMemoryDivision.
Fails(type, v) ==
    CASE type = "BOOL" -> v = 0
      [] type = "HANDLE" -> v = INVALID
      [] type = "LONG" -> v # ERROR_SUCCESS
      [] type = "HRESULT" -> v < 0
      [] type = "MEMORY" -> v = SYSMEM_FAILED
      [] type = "VOID" -> FALSE

-----------------------------------------------------------------------------
(* The reads of a reply.  Nobody looks whether Err, Ret and Out succeed;   *)
(* Must gives up when the reply is too short; Data gives up when the size  *)
(* before it was read and the bytes are not there; Garbage goes on with a  *)
(* variable that was never set, which may look like either; OnSuccess is   *)
(* read only when the value read before it tells success.                  *)
Read(to) == [to |-> to, need |-> "no", when |-> "always"]
Err == Read("last_error")
Ret == Read("return_value")
Out == Read("out")
Must(r) == [r EXCEPT !.need = "yes"]
Garbage(r) == [r EXCEPT !.need = "garbage"]
OnSuccess(r) == [r EXCEPT !.when = "success"]
Data == [Out EXCEPT !.need = "data"]
Plain == <<Err, Ret>>
Checked == <<Must(Err), Must(Ret)>>

\* Not set by the function that returns.
Kept == 1

\* A function: its command, the function that exchanges the messages, the
\* value returned when the exchange (or a Must) fails, the value returned
\* when no Ret was read, its reads, the messages it waits for, and what it
\* does with arguments it refuses (bad[1] is returned, bad[2] and bad[3] are
\* the new rapi_error and last_error).
Call(through, cmd, lost, initial, reads) ==
    [through |-> through, cmd |-> cmd, lost |-> lost, initial |-> initial,
     reads |-> reads, messages |-> 1, bad |-> <<>>]
NoCommand == -1
Local == "nothing"     \* no message at all
Refusing(row, value, rapi_error, last_error) ==
    [row EXCEPT !.bad = <<value, rapi_error, last_error>>]

\* _NotImplemented...: the value, E_NOTIMPL and ERROR_SUCCESS.
NotImplemented(value) == Call(Local, NoCommand, value, value, <<>>)

\* The exchange of backend 1 (its replies begin with a header), that of
\* backend 2, and CeRapiInvoke's own.
Rapi1(cmd, lost, initial, reads) ==
    Call("rapi_context_call", cmd, lost, initial, reads)
Rapi2(cmd, lost, initial, reads) ==
    Call("rapi2_context_call", cmd, lost, initial, reads)
Buffers(cmd, lost, initial, reads) ==
    Call("rapi_buffer_send", cmd, lost, initial, reads)

-----------------------------------------------------------------------------
(* Reading a reply: w is the sequence of its words.                        *)

\* rapi_context_call takes one word, and a second one when the first is 1.
HeaderWords(row, w) ==
    IF row.through # "rapi_context_call" THEN 0
    ELSE IF Len(w) > 0 /\ w[1] = 1 THEN 2 ELSE 1

\* The header is missing (E_FAIL), or refuses the call (its HRESULT), or
\* lets it through (S_OK).
HeaderSays(row, w) ==
    IF Len(w) < HeaderWords(row, w) THEN E_FAIL
    ELSE IF HeaderWords(row, w) = 2 THEN w[2] ELSE S_OK

\* The words that are left for the reads, and the word a read got.
Got(row, w) == Len(w) - HeaderWords(row, w)
Word(row, w, i) == w[HeaderWords(row, w) + i]
ReadsOf(row, w, to) ==
    {i \in DOMAIN row.reads : row.reads[i].to = to /\ i <= Got(row, w)}
ValueRead(row, w) ==
    IF ReadsOf(row, w, "return_value") = {} THEN row.initial
    ELSE Word(row, w, CHOOSE i \in ReadsOf(row, w, "return_value") : TRUE)

\* The reads that miss their word, with what they need.
Missing(row, type, w, need) ==
    {i \in DOMAIN row.reads :
        /\ i > Got(row, w)
        /\ row.reads[i].need = need
        /\ row.reads[i].when = "success" => ~Fails(type, ValueRead(row, w))}

\* What a call may return after a reply whose header let it through.
Returns(row, type, w) ==
    IF \/ Missing(row, type, w, "yes") # {}
       \/ Got(row, w) + 1 \in Missing(row, type, w, "data")
    THEN {row.lost}
    ELSE {ValueRead(row, w)}
         \cup (IF Missing(row, type, w, "garbage") # {} THEN {row.lost} ELSE {})

\* And after any reply: a header that refuses is a failure.
ValuesOf(row, type, w) ==
    IF HeaderSays(row, w) = S_OK THEN Returns(row, type, w) ELSE {row.lost}

\* The last error after that reply: unchanged when its word is missing.
LastErrorRead(row, w, old) ==
    IF ReadsOf(row, w, "last_error") = {} THEN old
    ELSE Word(row, w, CHOOSE i \in ReadsOf(row, w, "last_error") : TRUE)

-----------------------------------------------------------------------------
(* The replies of a device, which the code leaves to the device: a         *)
(* backend-1 device puts a header before the words its function reads, a   *)
(* backend-2 device does not; a reply may be cut short.                    *)
DeviceError == 5
DeviceHresult == -2147024891
Good(type) == IF type \in {"BOOL", "HANDLE"} THEN 1 ELSE 0
Bad(type) ==
    CASE type = "HANDLE" -> INVALID
      [] type = "LONG" -> DeviceError
      [] type = "HRESULT" -> DeviceHresult
      [] type = "MEMORY" -> SYSMEM_FAILED
      [] OTHER -> 0

Body(row, type, ok) ==
    LET rs == SelectSeq(row.reads, LAMBDA r : ok \/ r.when = "always")
    IN  [i \in DOMAIN rs |->
            CASE rs[i].to = "last_error" -> IF ok THEN ERROR_SUCCESS ELSE DeviceError
              [] rs[i].to = "return_value" -> IF ok THEN Good(type) ELSE Bad(type)
              [] OTHER -> 0]

\* The whole replies of a device that did what it was asked (ok) or not.
WholeReplies(backend, row, type, ok) ==
    IF backend = 2 \/ row.through = "rapi_buffer_send" THEN {Body(row, type, ok)}
    ELSE IF ok THEN {<<0>> \o Body(row, type, ok), <<1, S_OK>> \o Body(row, type, ok)}
    ELSE {<<0>> \o Body(row, type, ok), <<1, DeviceHresult>>}

CutReplies(whole) ==
    UNION {{SubSeq(w, 1, n) : n \in 0..(Len(w) - 1)} : w \in whole}
=============================================================================
