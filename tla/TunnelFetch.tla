----------------------------- MODULE TunnelFetch -----------------------------
(***************************************************************************)
(* fetch() through a proxy tunnel (server/utils/tunnel-fetch.ts): the      *)
(* connection, the HTTP/1.1 response taken apart as it arrives in segments *)
(* of any length, and redirects.                                           *)
(*                                                                         *)
(* A byte is a one-character string: "h" stands for the status line and    *)
(* the headers, "r" and "n" for CR and LF, a digit for a chunk size.       *)
(***************************************************************************)
EXTENDS Naturals, Sequences, SequencesExt

CONSTANTS
    Responses,     \* what a server may answer, see Wire
    Origins,       \* origins of the redirects
    Home,          \* the origin of the request
    MaxRedirects,  \* MAX_REDIRECTS
    NoSize         \* chunkLength = null

ASSUME MaxRedirectsAssumption == MaxRedirects \in Nat

ASSUME ResponsesAssumption ==
    /\ NoSize \notin Nat
    /\ \A m \in Responses :
        /\ m.framing \in {"chunked", "length", "close", "none"}
        /\ m.chunks \in Seq(Seq(STRING))
        /\ \A i \in 1..Len(m.chunks) : Len(m.chunks[i]) \in 1..3
        /\ m.framing = "none" => m.chunks = <<>>

VARIABLES
    transport,  \* how the proxy is spoken to
    stage,      \* "connecting", "securing", "head", "body", or how it ended
    socket,     \* "opening", "open" or "destroyed"
    response,   \* what the server answers this time
    unsent,     \* bytes the server has yet to send
    headBuffer,
    remaining,  \* remainingLength
    chunkBuffer,
    chunkSize,  \* chunkLength
    delivered,  \* what the reader of the body has got
    origin,     \* origin of the current URL
    hops,       \* redirectCount
    credentials,\* authorization and cookie are still among the headers
    method,
    payload,    \* there is a request body
    policy      \* request.redirect

exchange == <<response, unsent, headBuffer, remaining, chunkBuffer, chunkSize, delivered>>
target == <<origin, hops, credentials, method, payload, policy>>
tunnelVars == <<transport, stage, socket, exchange, target>>

Closed == {"finished", "failed", "cancelled"}
CRLF == <<"r", "n">>
Digits == <<"1", "2", "3">>

\* A response says how its body is framed ("chunked", "length", "close" or
\* "none"), what the body is, as a sequence of chunks, whether it redirects,
\* and whether the CRLF behind its chunks is left out.
Body(m) == FlattenSeq(m.chunks)
Encode(m) ==
    IF m.framing = "chunked"
    THEN FlattenSeq([i \in 1..Len(m.chunks) |->
            <<Digits[Len(m.chunks[i])]>> \o CRLF \o m.chunks[i] \o IF m.broken THEN <<>> ELSE CRLF])
         \o <<"0">> \o CRLF \o CRLF
    ELSE Body(m)
Wire(m) == <<"h">> \o CRLF \o CRLF \o Encode(m)

\* Position of the first occurrence of p in s, 0 if there is none.
IndexOf(s, p) ==
    LET at == {i \in 1..(Len(s) - Len(p) + 1) : SubSeq(s, i, i + Len(p) - 1) = p}
    IN  IF at = {} THEN 0 ELSE CHOOSE i \in at : \A j \in at : i <= j

Drop(s, n) == SubSeq(s, n + 1, Len(s))

TunnelInit ==
    /\ transport \in {"socks", "shadowsocks", "trojan"}
    /\ stage = "connecting"
    /\ socket = "opening"
    /\ response \in Responses
    /\ unsent = Wire(response)
    /\ headBuffer = <<>> /\ chunkBuffer = <<>> /\ delivered = <<>>
    /\ remaining = 0
    /\ chunkSize = NoSize
    /\ origin = Home
    /\ hops = 0
    /\ credentials = TRUE
    /\ method \in {"GET", "POST"}
    /\ payload = (method = "POST")
    /\ policy \in {"follow", "manual", "error"}

\* The answer is a redirect that fetch() itself looks at, before any other
\* event of the socket.
Redirected == stage \in {"body", "finished"} /\ response.redirects /\ policy # "manual"
Reading == stage \in {"head", "body"} /\ ~Redirected

-----------------------------------------------------------------------------
(* The connection: a socket to the proxy, then TLS to the server if the     *)
(* URL is https.  Both promises settle once.                               *)

LinkUp ==
    /\ stage = "connecting"
    /\ stage' \in {"securing", "head"}
    /\ socket' = "open"
    /\ UNCHANGED <<transport, exchange, target>>

\* An error or the connection timeout.
LinkFails ==
    /\ stage = "connecting"
    /\ stage' = "failed"
    /\ socket' = "destroyed"
    /\ UNCHANGED <<transport, exchange, target>>

\* The signal fires.  The SOCKS library goes on connecting.
AbortLink ==
    /\ stage = "connecting"
    /\ stage' = "failed"
    /\ socket' = IF transport = "socks" THEN "opening" ELSE "destroyed"
    /\ UNCHANGED <<transport, exchange, target>>

\* Faulty variant: a connection made after the abort is kept.
KeepLateSocket == "open"

LateSocket == "destroyed"

LateLink ==
    /\ stage = "failed" /\ socket = "opening"
    /\ socket' = LateSocket
    /\ UNCHANGED <<transport, stage, exchange, target>>

\* wrapTargetTls() ends.
Secured ==
    /\ stage = "securing"
    /\ stage' = "head"
    /\ UNCHANGED <<transport, socket, exchange, target>>

SecureFails ==
    /\ stage = "securing"
    /\ stage' = "failed"
    /\ socket' = "destroyed"
    /\ UNCHANGED <<transport, exchange, target>>

-----------------------------------------------------------------------------
(* consumeBody(): what one segment does to a state of the reader.          *)

Reader == [stage |-> "body", out |-> delivered, left |-> remaining,
           buffer |-> chunkBuffer, size |-> chunkSize]

Plain(c, bytes) == [c EXCEPT !.out = @ \o bytes]

ByLength(c, bytes) ==
    LET taken == SubSeq(bytes, 1, IF Len(bytes) < c.left THEN Len(bytes) ELSE c.left)
    IN  [c EXCEPT !.out = @ \o taken,
                  !.left = @ - Len(taken),
                  !.stage = IF c.left = Len(taken) THEN "finished" ELSE @]

SizeLine(c) ==
    LET end == IndexOf(c.buffer, CRLF)
        size == SelectInSeq(Digits, LAMBDA d : d = c.buffer[1])
        rest == Drop(c.buffer, end + 1)
    IN  IF end = 0 THEN [c EXCEPT !.stage = "starved"]
        ELSE IF end = 1 \/ (size = 0 /\ c.buffer[1] # "0") THEN [c EXCEPT !.stage = "failed"]
        ELSE IF size = 0 THEN [c EXCEPT !.buffer = rest, !.stage = "finished"]
        ELSE [c EXCEPT !.buffer = rest, !.size = size]

\* Faulty variant: a chunk is passed on before its CRLF has arrived.
ChunkTooEarly(c) ==
    LET cut == c.size + 2
    IN  IF Len(c.buffer) < c.size THEN [c EXCEPT !.stage = "starved"]
        ELSE [c EXCEPT !.out = @ \o SubSeq(c.buffer, 1, c.size),
                       !.buffer = Drop(c.buffer, cut), !.size = NoSize]

Chunk(c) ==
    LET cut == c.size + 2
    IN  IF Len(c.buffer) < cut THEN [c EXCEPT !.stage = "starved"]
        ELSE IF SubSeq(c.buffer, c.size + 1, cut) # CRLF THEN [c EXCEPT !.stage = "failed"]
        ELSE [c EXCEPT !.out = @ \o SubSeq(c.buffer, 1, c.size),
                       !.buffer = Drop(c.buffer, cut), !.size = NoSize]

\* The loop over the buffer: every round but the last uses up some of it.
Chunked(c, bytes) ==
    LET full == [c EXCEPT !.buffer = @ \o bytes]
        turn[n \in 0..(Len(full.buffer) + 1)] ==
            IF n = 0 THEN full
            ELSE LET d == turn[n - 1]
                 IN  IF d.stage # "body" THEN d
                     ELSE IF d.size = NoSize THEN SizeLine(d) ELSE Chunk(d)
        last == turn[Len(full.buffer) + 1]
    IN  IF last.stage = "starved" THEN [last EXCEPT !.stage = "body"] ELSE last

ConsumeBody(c, bytes) ==
    IF bytes = <<>> THEN c
    ELSE CASE response.framing = "chunked" -> Chunked(c, bytes)
           [] response.framing = "length" -> ByLength(c, bytes)
           [] OTHER -> Plain(c, bytes)

\* finish() and fail() destroy the socket.
Becomes(c) ==
    /\ stage' = c.stage
    /\ socket' = IF c.stage \in Closed THEN "destroyed" ELSE socket
    /\ delivered' = c.out
    /\ remaining' = c.left
    /\ chunkBuffer' = c.buffer
    /\ chunkSize' = c.size

-----------------------------------------------------------------------------
(* Events of the socket and of the caller.                                 *)

Segment == {SubSeq(unsent, 1, n) : n \in 1..Len(unsent)}

HeadData ==
    /\ stage = "head"
    /\ \E bytes \in Segment :
        /\ unsent' = Drop(unsent, Len(bytes))
        /\ LET got == headBuffer \o bytes
               end == IndexOf(got, CRLF \o CRLF)
               bare == [Reader EXCEPT !.left = Len(Body(response))]
           IN  IF end = 0
               THEN headBuffer' = got
                    /\ UNCHANGED <<stage, socket, delivered, remaining, chunkBuffer, chunkSize>>
               ELSE /\ headBuffer' = SubSeq(got, 1, end - 1)
                    /\ Becomes(IF response.framing = "none"
                                  \/ (response.framing = "length" /\ bare.left = 0)
                               THEN [bare EXCEPT !.stage = "finished"]
                               ELSE ConsumeBody(bare, Drop(got, end + 3)))
    /\ UNCHANGED <<transport, response, target>>

BodyData ==
    /\ stage = "body" /\ Reading
    /\ \E bytes \in Segment :
        /\ unsent' = Drop(unsent, Len(bytes))
        /\ Becomes(ConsumeBody(Reader, bytes))
    /\ UNCHANGED <<transport, response, headBuffer, target>>

\* Faulty variant: the end of the connection ends every body.
EndTrusted == "finished"

\* "end": only a body that is framed by it is complete.
EndMeans == IF stage = "body" /\ response.framing = "close" THEN "finished" ELSE "failed"

\* The peer closes, perhaps before it has sent everything.
ConnectionEnds ==
    /\ Reading
    /\ Becomes([Reader EXCEPT !.stage = EndMeans])
    /\ UNCHANGED <<transport, response, unsent, headBuffer, target>>

\* A socket error or the abort of the signal.
Breaks ==
    /\ Reading
    /\ Becomes([Reader EXCEPT !.stage = "failed"])
    /\ UNCHANGED <<transport, response, unsent, headBuffer, target>>

\* The reader of the body loses interest.
CancelBody ==
    /\ stage = "body" /\ Reading
    /\ Becomes([Reader EXCEPT !.stage = "cancelled"])
    /\ UNCHANGED <<transport, response, unsent, headBuffer, target>>

-----------------------------------------------------------------------------
(* Redirects: the body is cancelled and the next URL fetched.              *)

\* Faulty variant: a redirect takes all headers along.
KeepsCredentials(next) == credentials

StillCredentials(next) == credentials /\ next = origin

Redirect ==
    /\ Redirected
    /\ UNCHANGED transport
    /\ IF policy = "error" \/ hops >= MaxRedirects
       THEN /\ stage' = "failed" /\ socket' = "destroyed"
            /\ UNCHANGED <<exchange, target>>
       ELSE /\ stage' = "connecting" /\ socket' = "opening"
            /\ response' \in Responses
            /\ unsent' = Wire(response')
            /\ headBuffer' = <<>> /\ chunkBuffer' = <<>> /\ delivered' = <<>>
            /\ remaining' = 0 /\ chunkSize' = NoSize
            /\ hops' = hops + 1
            /\ \E next \in Origins :
                  origin' = next /\ credentials' = StillCredentials(next)
            \* 303 always, 301 and 302 for POST; 307 and 308 keep both.
            /\ \E toGet \in BOOLEAN :
                  /\ method' = IF toGet THEN "GET" ELSE method
                  /\ payload' = (payload /\ ~toGet)
            /\ UNCHANGED policy

\* fetch() has come to its end.
FetchStops ==
    /\ stage \in Closed /\ socket = "destroyed"
    /\ ~Redirected
    /\ UNCHANGED tunnelVars

TunnelNext ==
    \/ LinkUp \/ LinkFails \/ AbortLink \/ LateLink \/ Secured \/ SecureFails
    \/ HeadData \/ BodyData \/ ConnectionEnds \/ Breaks \/ CancelBody
    \/ Redirect \/ FetchStops

-----------------------------------------------------------------------------
\* What is delivered is the body, however it is cut into segments, and a
\* response that was cut short is never taken for a complete one: only a body
\* that is framed by the end of its connection may be shorter.
BodyIsWhole ==
    /\ IsPrefix(delivered, Body(response))
    /\ stage = "finished" /\ response.framing # "close" => delivered = Body(response)

\* However a fetch ends, in whatever phase the signal fires, it leaves no open
\* socket; credentials go only to the origin they were meant for, a redirect
\* to GET takes no body along, and redirects come to an end.
EndsClean ==
    /\ stage \in Closed => socket # "open"
    /\ credentials => origin = Home
    /\ payload => method = "POST"
    /\ hops <= MaxRedirects

=============================================================================
