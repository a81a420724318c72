---------------------------- MODULE ReplayCache ----------------------------
(***************************************************************************)
(* What IdempotencyMiddleware keeps of a response and what it replays:     *)
(* captureWriter copies the chunks a handler writes until the buffer is    *)
(* full, frameResponse packs two headers and the body into one column, and *)
(* replay unpacks them (internal/api/middleware/idempotency.go).           *)
(*                                                                         *)
(* The buffer always holds a prefix of the body, so bodies and buffers are *)
(* lengths.  A framed response is its lines: headers, the blank line, body. *)
(***************************************************************************)
EXTENDS Naturals, Sequences

CONSTANT maxReplayBody

ASSUME ReplayAssumption == maxReplayBody \in Nat

\* whole is history: the length of the body that was sent.
Capture == [whole : Nat, buf : Nat, truncated : BOOLEAN]
NoCapture == [whole |-> 0, buf |-> 0, truncated |-> FALSE]

\* Variant: a chunk that finds the buffer full is dropped silently.
WriteSilently(rec, chunk) ==
    LET remaining == maxReplayBody - rec.buf
        fits      == chunk <= remaining
    IN  [whole     |-> rec.whole + chunk,
         buf       |-> IF rec.truncated THEN rec.buf
                       ELSE IF fits THEN rec.buf + chunk ELSE maxReplayBody,
         truncated |-> rec.truncated \/ (remaining > 0 /\ ~fits)]

\* captureWriter.Write.  A chunk that finds the buffer full sets truncated,
\* even an empty one.
Write(rec, chunk) ==
    LET remaining == maxReplayBody - rec.buf
        fits      == chunk <= remaining
    IN  [whole     |-> rec.whole + chunk,
         buf       |-> IF rec.truncated THEN rec.buf
                       ELSE IF fits THEN rec.buf + chunk ELSE maxReplayBody,
         truncated |-> rec.truncated \/ remaining = 0 \/ ~fits]

replayHeaders == <<"Content-Type", "Content-Encoding">>

\* A response header: a value per name, "" for a header that is not set.
Headers == {h \in [{"Content-Type", "Content-Encoding"} -> {"", "application/proto", "gzip"}] :
              /\ h["Content-Type"] # "gzip"
              /\ h["Content-Encoding"] # "application/proto"}

Blank == <<>>

\* The line of a header, if it is set.
headerLine(h, name) == IF h[name] = "" THEN <<>> ELSE <<<<name, h[name]>>>>

frameResponse(h, body) ==
    headerLine(h, replayHeaders[1]) \o headerLine(h, replayHeaders[2])
        \o <<Blank, <<body>>>>

\* Reads header lines up to the blank one; the body is what follows it.
unframeResponse(framed) ==
    LET blank == CHOOSE k \in DOMAIN framed :
                    framed[k] = Blank /\ \A j \in 1..(k - 1) : framed[j] # Blank
        value(name) == {framed[j][2] : j \in {i \in 1..(blank - 1) : framed[i][1] = name}}
    IN  [header |-> [name \in {"Content-Type", "Content-Encoding"} |->
                       IF value(name) = {} THEN "" ELSE CHOOSE v \in value(name) : TRUE],
         body   |-> framed[blank + 1][1]]

\* The response a retry gets; requestType is the retry's own Content-Type.
replay(framed, requestType) ==
    LET kept     == unframeResponse(framed)
        fallback == IF requestType = "" THEN "application/proto" ELSE requestType
    IN  [header |-> IF kept.header["Content-Type"] = ""
                    THEN [kept.header EXCEPT !["Content-Type"] = fallback]
                    ELSE kept.header,
         body   |-> kept.body]
============================================================================
