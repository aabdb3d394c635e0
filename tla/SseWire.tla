------------------------------ MODULE SseWire ------------------------------
(***************************************************************************)
(* What the MCP server reads out of the bytes it writes (mcp.rs,           *)
(* SseWireTracker, SseLineScanner, StreamWatchdog): where a response of a  *)
(* kept-alive connection begins and ends, and when the last event of a     *)
(* stream was sent.  McpHttp models what follows from it (permits, keys,   *)
(* deadlines) and takes these two facts as given; this module checks them  *)
(* byte by byte, however the writes are cut.                               *)
(*                                                                         *)
(* A byte is a token: one character, or "x" for any that no code looks     *)
(* for.  A header line is one token and its CR LF.                         *)
(***************************************************************************)
EXTENDS Naturals, Sequences, SequencesExt

CONSTANTS
    SwScripts,      \* the sequences of responses a connection may carry
    SwMaxHeader,    \* MAX_RESPONSE_HEADER_BYTES
    SwIdle,         \* StreamPolicy.idle
    SwMaximum,      \* StreamPolicy.maximum
    SwDeadline,     \* what is left of request_deadline when a response begins
    SwMaxTime       \* bound on the clock

ASSUME SwAssumption ==
    /\ {SwIdle, SwMaximum, SwDeadline, SwMaxTime} \subseteq Nat
    /\ SwMaxHeader \in Nat \ {0}

VARIABLES
    swRest,       \* bytes hyper has still to write, each with what it means
    swStreams,    \* ConnectionState.has_stream of the responses to come
    swNow,        \* the clock
    swHeaders,    \* SseWireTracker.headers
    swBody,       \* SseWireTracker.body: {} or one record
    swLine,       \* SseLineScanner
    swDog,        \* SseWireTracker.watchdog: {} or one record
    swFinished,   \* finish_request calls
    swEnded,      \* history: responses written to their last byte
    swSince       \* history: when the response's stream began or last sent an event

swTracker == <<swHeaders, swBody, swLine, swDog, swFinished>>
swVars == <<swRest, swStreams, swNow, swTracker, swEnded, swSince>>

-----------------------------------------------------------------------------
(* Responses as hyper writes them (external).                              *)

\* A byte, whether it ends the line of an event's data, and whether it is the
\* last one of its response.
Byte(b) == [b |-> b, event |-> FALSE, last |-> FALSE]
Plain(s) == [i \in DOMAIN s |-> Byte(s[i])]
Ends(bytes) == [bytes EXCEPT ![Len(bytes)].last = TRUE]

CrLf == <<"CR", "LF">>
HeaderBlock(lines) == Plain(FlattenSeq([i \in DOMAIN lines |-> <<lines[i]>> \o CrLf]) \o CrLf)

\* A frame of the body: a keep-alive comment, a field that is not data, an
\* event.  The server's lines end in LF alone.
Frame(kind) ==
    CASE kind = "comment" -> Plain(<<":", "x", "LF", "LF">>)
      [] kind = "retry" -> Plain(<<"d", "x", ":", "0", "LF", "LF">>)
      [] kind = "event" -> Plain(<<"i", "d", ":", "0", "LF", "d", "a", "t", "a", ":", "0">>)
                           \o <<[Byte("LF") EXCEPT !.event = TRUE], Byte("LF")>>

\* One chunk per frame; "d0" and "10" are sizes too.
Chunk(size, kind) == Plain(size \o CrLf) \o Frame(kind) \o Plain(CrLf)
LastChunk == Plain(<<"0">> \o CrLf \o CrLf)

Sizes == <<<<"1", "0">>, <<"d">>, <<"d", "0">>>>
Chunks(kinds) == FlattenSeq([i \in DOMAIN kinds |-> Chunk(Sizes[i], kinds[i])])

\* The bytes of a response: an interim one, one without a body, one with a
\* length, a stream.
Length == [len0 |-> 0, len3 |-> 3]
Bytes(r) ==
    CASE r.kind = "interim" -> HeaderBlock(<<"100">>)
      [] r.kind = "bodyless" -> Ends(HeaderBlock(<<"204">>))
      [] r.kind = "empty" -> Ends(HeaderBlock(<<"200", "len0">>))
      [] r.kind = "sized" -> Ends(HeaderBlock(<<"200", "len3">>) \o Plain(<<"0", "CR", "LF">>))
      [] r.kind = "sse" -> Ends(HeaderBlock(<<"200", "event-stream", "chunked">>) \o Chunks(r.frames) \o LastChunk)

-----------------------------------------------------------------------------
(* SseLineScanner and StreamWatchdog.                                      *)

Prefix == <<"d", "a", "t", "a", ":">>
NewLine == [prefix_length |-> 0, matching_prefix |-> TRUE, is_data_line |-> FALSE]

Scanned(line, b) ==
    IF ~line.matching_prefix THEN line
    ELSE IF line.prefix_length < Len(Prefix) /\ Prefix[line.prefix_length + 1] = b
         THEN [line EXCEPT !.prefix_length = @ + 1,
                           !.is_data_line = line.prefix_length + 1 = Len(Prefix)]
         ELSE [line EXCEPT !.matching_prefix = FALSE]

Deadline(dog) == Min({dog.started + dog.maximum, dog.last + dog.idle})
Expired == \E dog \in swDog : swNow >= Deadline(dog)

\* A GET stream is timed by the policy, the answer to a POST by what is left
\* of its request's deadline.
Watchdog(stream) ==
    [started |-> swNow, last |-> swNow,
     idle |-> IF stream THEN SwIdle ELSE SwDeadline,
     maximum |-> IF stream THEN SwMaximum ELSE SwDeadline]

\* Line end: an event restarts the idle time.  Any other byte is scanned.
LineObserve(b) ==
    IF b = "LF"
    THEN /\ swLine' = NewLine
         /\ swDog' = IF swLine.is_data_line
                     THEN {[dog EXCEPT !.last = swNow] : dog \in swDog} ELSE swDog
    ELSE swLine' = Scanned(swLine, b) /\ UNCHANGED swDog

-----------------------------------------------------------------------------
(* SseWireTracker::observe, one byte.                                      *)

\* finish_response, and the two exits of begin_response that do the same.
FinishResponse ==
    /\ swBody' = {} /\ swDog' = {} /\ swLine' = NewLine
    /\ swFinished' = swFinished + 1

\* begin_response: the empty line that ends the headers.
BeginResponse(headers) ==
    LET has(h) == Contains(headers, h)
        sized == {h \in DOMAIN Length : has(h)}
    IN  /\ swHeaders' = <<>>
        /\ \/ has("100") /\ UNCHANGED <<swBody, swLine, swDog, swFinished>>
           \/ ~has("100") /\ (has("204") \/ has("len0")) /\ FinishResponse
           \/ /\ ~has("100") /\ ~has("204") /\ ~has("len0")
              /\ swBody' = {[is_sse |-> has("event-stream"), chunked |-> has("chunked"),
                             length |-> {Length[h] : h \in sized}, written |-> 0,
                             tail |-> <<>>]}
              /\ swDog' = IF has("event-stream") THEN {Watchdog(swStreams[1])} ELSE {}
              /\ UNCHANGED <<swLine, swFinished>>

\* Mutant of Terminated: only a last chunk that follows another one is seen.
TerminatedAfterChunk(tail) == tail = CrLf \o <<"0">> \o CrLf \o CrLf

\* The last chunk, after another chunk or as the whole body.
Terminated(tail) == tail \in {CrLf \o <<"0">> \o CrLf \o CrLf, <<"0">> \o CrLf \o CrLf}

LastSeven(s) == IF Len(s) > 7 THEN Tail(s) ELSE s

\* A byte of the body; the response ends with the last chunk or its length.
ObserveBody(body, b) ==
    LET seen == [body EXCEPT !.written = @ + 1,
                             !.tail = IF body.chunked THEN LastSeven(Append(@, b)) ELSE @]
        finished == IF body.chunked THEN Terminated(seen.tail)
                    ELSE \E n \in body.length : seen.written >= n
    IN  /\ IF finished THEN FinishResponse
           ELSE /\ swBody' = {seen}
                /\ IF body.is_sse THEN LineObserve(b) ELSE UNCHANGED <<swLine, swDog>>
                /\ UNCHANGED swFinished
        /\ UNCHANGED swHeaders

ObserveHead(b) ==
    LET headers == Append(IF Len(swHeaders) = SwMaxHeader THEN <<>> ELSE swHeaders, b)
    IN  IF IsSuffix(CrLf \o CrLf, headers)
        THEN BeginResponse(headers)
        ELSE swHeaders' = headers /\ UNCHANGED <<swBody, swLine, swDog, swFinished>>

Observe(b) ==
    /\ swBody = {} => ObserveHead(b)
    /\ \A body \in swBody : ObserveBody(body, b)

-----------------------------------------------------------------------------
SwInit ==
    /\ \E script \in SwScripts :
        /\ swRest = FlattenSeq([i \in DOMAIN script |-> Bytes(script[i])])
        /\ LET final == SelectSeq(script, LAMBDA r : r.kind # "interim")
           IN  swStreams = [i \in DOMAIN final |-> final[i].stream]
    /\ swNow = 0 /\ swHeaders = <<>> /\ swBody = {} /\ swLine = NewLine /\ swDog = {}
    /\ swFinished = 0 /\ swEnded = 0 /\ swSince = 0

\* The socket takes one more byte of a write; poll_write fails once the
\* watchdog has expired.  Bytes of one write share their time.
WriteByte ==
    /\ swRest # <<>> /\ ~Expired
    /\ LET byte == swRest[1]
       IN  /\ Observe(byte.b)
           /\ swRest' = Tail(swRest)
           /\ swEnded' = swEnded + (IF byte.last THEN 1 ELSE 0)
           /\ swStreams' = IF byte.last THEN Tail(swStreams) ELSE swStreams
           /\ swSince' = IF byte.event \/ swDog = {} THEN swNow ELSE swSince
    /\ UNCHANGED swNow

\* Time passes before the next write.
SwTick ==
    /\ swNow < SwMaxTime /\ swNow' = swNow + 1
    /\ UNCHANGED <<swRest, swStreams, swTracker, swEnded, swSince>>

SwNext == WriteByte \/ SwTick

SwSpec == SwInit /\ [][SwNext]_swVars

-----------------------------------------------------------------------------
(* Properties.                                                             *)

\* A request of a kept-alive connection is finished, and its permit and key
\* given back, with the last byte of its own response: not earlier, by bytes
\* of a body that look like a last chunk, and not later, into the next response.
FinishesWithItsResponse == swFinished = swEnded

\* The idle time of a stream runs from its last event; keep-alive comments,
\* other fields and the framing of the chunks do not prolong it.
IdleSinceLastEvent == \A dog \in swDog : dog.last = swSince

\* What the tracker makes of the bytes written is what the responses were, however
\* the writes cut them.
TrackerReadsTheWire == FinishesWithItsResponse /\ IdleSinceLastEvent
=============================================================================
