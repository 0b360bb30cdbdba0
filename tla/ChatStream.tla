------------------------------ MODULE ChatStream ------------------------------
(***************************************************************************)
(* POST /v1/chat/completions of `scos serve`: a proxy in front of the      *)
(* llama-server.  With stream = true it takes the bytes of the upstream as *)
(* they come, in chunks of any length, puts the lines together again and   *)
(* sends every `data:` line on as one event; otherwise it waits for the    *)
(* whole body.  No call of the upstream has a timeout, and the server ends *)
(* on Ctrl-C only when all its requests have.                              *)
(*                                                                         *)
(* Text is a sequence of symbols: "data" for the prefix `data:`, "other"   *)
(* for `:`, `event:`, `id:` and `retry:`, "sp", "cr" and "nl" for a blank, *)
(* CR and LF, "c" for an ASCII character, and "hi", "lo" for the two bytes *)
(* of "char", any other one.  ASCII bytes pass the decoder one by one, so  *)
(* a cut in a prefix is like a cut beside it.                              *)
(*                                                                         *)
(* Operators named Slip... are no part of the model: each is a plausible   *)
(* mistake in the definition after it.                                     *)
(***************************************************************************)
EXTENDS Naturals, SequencesExt

CONSTANTS
    Requests,    \* chat requests
    Streamed,    \* those with stream = true
    Texts        \* bodies an upstream may send

Bytes == {"data", "other", "sp", "c", "hi", "lo", "cr", "nl"}

ASSUME ChatAssumption == Streamed \subseteq Requests /\ Texts \subseteq Seq(Bytes)

VARIABLES
    server,      \* axum::serve
    at,          \* where a request is
    answer,      \* the status its client has, 0 for none yet
    text, took,  \* what the upstream sends it, and how much of that has come
    source,      \* the upstream's body
    buffer,      \* SseLineBuffer.buffer
    queue, got,  \* events handed to axum, and events the client has
    cut          \* a chunk ended inside a character

requestVars == <<at, answer, text, took, source, buffer, queue, got, cut>>
vars == <<server, requestVars>>

-----------------------------------------------------------------------------
(* Text.                                                                   *)

\* String::from_utf8_lossy.
Lossy(b) ==
    LET Pair(i) == i \in 1..(Len(b) - 1) /\ b[i] = "hi" /\ b[i + 1] = "lo"
        Char(i) == CASE Pair(i)      -> <<"char">>
                     [] Pair(i - 1)  -> <<>>
                     [] OTHER        -> <<IF b[i] \in {"hi", "lo"} THEN "?" ELSE b[i]>>
    IN FlattenSeq([i \in DOMAIN b |-> Char(i)])

LineEnds(s) == {i \in DOMAIN s : s[i] = "nl"}
LastEnd(s)  == Max(LineEnds(s) \cup {0})

\* The complete lines, without LF, and what is left of the text.
Line(s, i) == SubSeq(s, LastEnd(SubSeq(s, 1, i - 1)) + 1, i - 1)
Lines(s) == FlattenSeq([i \in DOMAIN s |-> IF s[i] = "nl" THEN <<Line(s, i)>> ELSE <<>>])
SlipRest(s) == <<>>   \* every chunk by itself
SlipRestOfFirst(s) == \* one line per chunk
    LET ends == LineEnds(s) IN IF ends = {} THEN s ELSE SubSeq(s, Min(ends) + 1, Len(s))
Rest(s) == SubSeq(s, LastEnd(s) + 1, Len(s))

PopCr(s)     == IF s # <<>> /\ Last(s) = "cr" THEN Front(s) ELSE s
TrimEnd(s)   == SubSeq(s, 1, Max({0} \cup {i \in DOMAIN s : s[i] # "cr"}))
TrimStart(s) == SubSeq(s, Min({Len(s) + 1} \cup {i \in DOMAIN s : s[i] \notin {"sp", "cr"}}), Len(s))

\* push_sse_line_event: no event or one.
Event(line) ==
    IF line # <<>> /\ Head(line) = "data" THEN <<TrimStart(Tail(line))>> ELSE <<>>

Events(lines) == FlattenSeq([k \in DOMAIN lines |-> Event(PopCr(lines[k]))])

-----------------------------------------------------------------------------
Stages == {"new", "sent", "body", "stream", "done"}
Statuses == {200, 404, 500, 502}
Strings == Seq((Bytes \cup {"char", "?"}) \ {"hi", "lo", "nl"})
ErrorEvent == <<"error">>

TypeOK ==
    /\ server \in {"up", "stopping", "down"}
    /\ at \in [Requests -> Stages] /\ answer \in [Requests -> Statuses \cup {0}]
    /\ text \in [Requests -> Texts \cup {<<>>}] /\ took \in [Requests -> Nat]
    /\ \A r \in Requests : took[r] <= Len(text[r])
    /\ source \in [Requests -> {"flows", "failed", "over"}]
    /\ buffer \in [Requests -> Strings]
    /\ {queue, got} \subseteq [Requests -> Seq(Strings \cup {ErrorEvent})]
    /\ cut \in [Requests -> BOOLEAN]

Init ==
    /\ server = "up"
    /\ at = [r \in Requests |-> "new"] /\ answer = [r \in Requests |-> 0]
    /\ text = [r \in Requests |-> <<>>] /\ took = [r \in Requests |-> 0]
    /\ source = [r \in Requests |-> "flows"] /\ buffer = [r \in Requests |-> <<>>]
    /\ queue = [r \in Requests |-> <<>>] /\ got = [r \in Requests |-> <<>>]
    /\ cut = [r \in Requests |-> FALSE]

-----------------------------------------------------------------------------
(* handler                                                                 *)

Reply(r, status) ==
    /\ at' = [at EXCEPT ![r] = "done"] /\ answer' = [answer EXCEPT ![r] = status]
    /\ UNCHANGED <<server, text, took, source, buffer, queue, got, cut>>

\* models.yaml is read for every request: unreadable or invalid, without an
\* enabled model of the name, or with one.
Look(r) ==
    /\ server = "up" /\ at[r] = "new"
    /\ \/ \E status \in {500, 404} : Reply(r, status)
       \/ /\ at' = [at EXCEPT ![r] = "sent"]
          /\ UNCHANGED <<server, answer, text, took, source, buffer, queue, got, cut>>

Unreachable(r) == at[r] = "sent" /\ Reply(r, 502)

\* The head of the upstream's response.  A stream answers 200, whatever the
\* upstream's status is.
Head200(r) ==
    /\ at[r] = "sent" /\ r \in Streamed
    /\ at' = [at EXCEPT ![r] = "stream"] /\ answer' = [answer EXCEPT ![r] = 200]
    /\ text' \in {[text EXCEPT ![r] = t] : t \in Texts}
    /\ UNCHANGED <<server, took, source, buffer, queue, got, cut>>

WaitForBody(r) ==
    /\ at[r] = "sent" /\ r \notin Streamed
    /\ at' = [at EXCEPT ![r] = "body"]
    /\ UNCHANGED <<server, answer, text, took, source, buffer, queue, got, cut>>

\* The body with the upstream's status, or 502 when it breaks off.
Body(r) == at[r] = "body" /\ \E status \in {200, 500, 502} : Reply(r, status)

-----------------------------------------------------------------------------
(* SseLineBuffer::handle, once per chunk; the events of one chunk are taken *)
(* before the next is.                                                      *)

Flows(r) == at[r] = "stream" /\ source[r] = "flows" /\ queue[r] = <<>>

Chunk(r, n) ==
    /\ Flows(r) /\ n <= Len(text[r])
    /\ LET bytes == SubSeq(text[r], took[r] + 1, n)
           s     == buffer[r] \o Lossy(bytes)
       IN /\ queue' = [queue EXCEPT ![r] = Events(Lines(s))]
          /\ buffer' = [buffer EXCEPT ![r] = Rest(s)]
          /\ cut' = [cut EXCEPT ![r] = @ \/ text[r][n] = "hi"]
    /\ took' = [took EXCEPT ![r] = n]
    /\ UNCHANGED <<server, at, answer, text, source, got>>

\* The connection breaks off: the incomplete line is thrown away.
Break(r) ==
    /\ Flows(r)
    /\ source' = [source EXCEPT ![r] = "failed"]
    /\ buffer' = [buffer EXCEPT ![r] = <<>>]
    /\ queue' = [queue EXCEPT ![r] = <<ErrorEvent>>]
    /\ UNCHANGED <<server, at, answer, text, took, got, cut>>

\* The body ends, at its end or, without a length, where the upstream hung up:
\* the incomplete line is sent on.
Over(r) ==
    /\ Flows(r)
    /\ source' = [source EXCEPT ![r] = "over"]
    /\ buffer' = [buffer EXCEPT ![r] = <<>>]
    /\ queue' = [queue EXCEPT ![r] = Event(TrimEnd(buffer[r]))]
    /\ UNCHANGED <<server, at, answer, text, took, got, cut>>

-----------------------------------------------------------------------------
(* axum and the client                                                     *)

Deliver(r) ==
    /\ at[r] = "stream" /\ queue[r] # <<>>
    /\ got' = [got EXCEPT ![r] = Append(@, Head(queue[r]))]
    /\ queue' = [queue EXCEPT ![r] = Tail(@)]
    /\ UNCHANGED <<server, at, answer, text, took, source, buffer, cut>>

SlipClose(r) ==   \* a broken upstream may come back
    /\ at[r] = "stream" /\ source[r] = "over" /\ queue[r] = <<>>
    /\ at' = [at EXCEPT ![r] = "done"]
    /\ UNCHANGED <<server, answer, text, took, source, buffer, queue, got, cut>>
Close(r) ==
    /\ at[r] = "stream" /\ source[r] # "flows" /\ queue[r] = <<>>
    /\ at' = [at EXCEPT ![r] = "done"]
    /\ UNCHANGED <<server, answer, text, took, source, buffer, queue, got, cut>>

\* The client hangs up: its connection and the upstream's are dropped.
Leave(r) ==
    /\ at[r] \in {"sent", "body", "stream"}
    /\ at' = [at EXCEPT ![r] = "done"]
    /\ UNCHANGED <<server, answer, text, took, source, buffer, queue, got, cut>>

\* Ctrl-C, and what with_graceful_shutdown waits for.
Interrupt ==
    /\ server = "up" /\ server' = "stopping"
    /\ UNCHANGED requestVars

Stop ==
    /\ server = "stopping" /\ \A r \in Requests : at[r] \in {"new", "done"}
    /\ server' = "down"
    /\ UNCHANGED requestVars

Next ==
    \/ \E r \in Requests :
          \/ Look(r) \/ Unreachable(r) \/ Head200(r) \/ WaitForBody(r) \/ Body(r)
          \/ \E n \in (took[r] + 1)..Len(text[r]) : Chunk(r, n)
          \/ Break(r) \/ Over(r) \/ Deliver(r) \/ Close(r) \/ Leave(r)
    \/ Interrupt \/ Stop

\* The server goes on and clients read; the upstream owes nothing.
Fairness == WF_vars(Stop) /\ \A r \in Requests : WF_vars(Deliver(r)) /\ WF_vars(Close(r))

Spec == Init /\ [][Next]_vars /\ Fairness

-----------------------------------------------------------------------------
(* Properties.                                                             *)

\* What the client is to get: an event for each data line of the bytes that have
\* come, however they came, and an error event if the upstream broke off.
Owed(r) ==
    LET s == Lossy(SubSeq(text[r], 1, took[r]))
    IN Events(Lines(s)) \o (CASE source[r] = "flows" -> <<>>
                              [] source[r] = "over" -> Event(TrimEnd(Rest(s)))
                              [] source[r] = "failed" -> <<ErrorEvent>>)

\* The bytes of a text, without telling those apart that are not ASCII.
Wide(e) == FlattenSeq([i \in DOMAIN e |-> IF e[i] = "char" THEN <<"?", "?">> ELSE <<e[i]>>])

\* "Line-buffered parser correctly reassembles SSE frames that span chunk boundaries",
\* "Upstream errors are surfaced as a final SSE event" (ROADMAP, 10C): one event for each
\* data line, in order, nothing of a line that broke off, and the error once and last; the
\* same text, but for a character that a chunk boundary cut, which is two others.
Reassembled ==
    \A r \in Streamed :
        LET out == got[r] \o queue[r]
        IN  /\ Len(out) = Len(Owed(r))
            /\ \A i \in DOMAIN out :
                  IF cut[r] THEN Wide(out[i]) = Wide(Owed(r)[i]) ELSE out[i] = Owed(r)[i]

\* Ctrl-C ends the server, unless an upstream keeps a client waiting for ever:
\* each other request, whatever became of its upstream, ends by itself.
Waits(r) == at[r] \in {"sent", "body"} \/ (at[r] = "stream" /\ source[r] = "flows")
InterruptEnds ==
    server = "stopping" ~> (server = "down" \/ \E r \in Requests : []Waits(r))
=============================================================================
