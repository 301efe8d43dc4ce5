---------------------------- MODULE PackageBytes -----------------------------
(***************************************************************************)
(* The bounded PackageReader of src/src/request.rs below the level of      *)
(* frames: next_chunk is a future that takes bytes off the stream over     *)
(* several polls, and a handler may drop it between two of them, as under  *)
(* a select or a timeout.  The sender cuts the payload into chunks as it   *)
(* likes, may stop early, may have its next request on the stream already, *)
(* and may not keep to the declared size.  AgentStream reads a chunk in    *)
(* one step; this module is what that step rests on.                       *)
(*                                                                         *)
(* oinq's frame is external: a length, then that many bytes.  The length   *)
(* is one byte here.                                                       *)
(***************************************************************************)
EXTENDS Naturals, Sequences

CONSTANTS
    Size,       \* the request's declared size
    Bytes,      \* values a payload byte may have
    MaxChunks,  \* chunks a payload is sent in, empty ones included
    Drops       \* futures a handler may drop before they are ready

ASSUME PackageAssumption ==
    /\ Size \in Nat /\ MaxChunks \in Nat \ {0} /\ Drops \in Nat
    /\ Bytes \subseteq Nat

VARIABLES
    payload,    \* the package, and a byte the sender may hold beyond it
    stream,     \* bytes written so far
    sent,       \* payload bytes among them
    chunks,     \* chunks so far
    honest,     \* the sender has kept to the declared size
    tail,       \* what follows: "none", the "next" request, the "end"
    pos,        \* bytes of the stream taken so far
    remaining,  \* PackageReader::remaining
    failed,     \* PackageReader::failed
    fut,        \* the next_chunk in progress: how much of its frame it has
    got,        \* bytes handed out, to the handler or to drain
    phase,      \* "handler", "drain", then "resumed" or "reported"
    drops       \* futures dropped so far

senderVars == <<payload, stream, sent, chunks, honest, tail>>
vars == <<payload, stream, sent, chunks, honest, tail, pos, remaining, failed,
          fut, got, phase, drops>>

NextRequest == <<1, 1>>

NoFuture == [polled |-> FALSE, head |-> FALSE, len |-> 0, buf |-> <<>>]

-----------------------------------------------------------------------------
(* The sender. *)

\* A chunk, empty ones included.  Behind the whole payload there is none.
SendChunk(n) ==
    /\ tail = "none" /\ chunks < MaxChunks /\ sent + n <= Size + 1
    /\ chunks' = chunks + 1
    /\ stream' = stream \o <<n>> \o SubSeq(payload, sent + 1, sent + n)
    /\ sent' = sent + n
    /\ honest' = (honest /\ sent < Size /\ sent + n <= Size)
    /\ UNCHANGED <<payload, tail, pos, remaining, failed, fut, got, phase,
                   drops>>

SendNextRequest ==
    /\ tail = "none"
    /\ stream' = stream \o NextRequest
    /\ honest' = (honest /\ sent = Size)
    /\ tail' = "next"
    /\ UNCHANGED <<payload, sent, chunks, pos, remaining, failed, fut, got,
                   phase, drops>>

Finish ==
    /\ tail = "none"
    /\ tail' = "end"
    /\ UNCHANGED <<payload, stream, sent, chunks, honest, pos, remaining,
                   failed, fut, got, phase, drops>>

-----------------------------------------------------------------------------
(* The reader. *)

readerVars == <<remaining, failed, got, phase, drops>>

\* next_chunk with something left to read and no earlier failure.
NextChunk ==
    /\ phase \in {"handler", "drain"} /\ ~fut.polled
    /\ ~failed /\ remaining > 0
    /\ fut' = [NoFuture EXCEPT !.polled = TRUE]
    /\ UNCHANGED <<senderVars, pos, readerVars>>

\* recv_raw takes the length, then the bytes, as they come (external).
RecvHead ==
    /\ fut.polled /\ ~fut.head /\ pos < Len(stream)
    /\ pos' = pos + 1
    /\ fut' = [fut EXCEPT !.head = TRUE, !.len = stream[pos + 1]]
    /\ UNCHANGED <<senderVars, readerVars>>

RecvBody ==
    /\ fut.head /\ Len(fut.buf) < fut.len /\ pos < Len(stream)
    /\ pos' = pos + 1
    /\ fut' = [fut EXCEPT !.buf = Append(@, stream[pos + 1])]
    /\ UNCHANGED <<senderVars, readerVars>>

Whole == fut.head /\ Len(fut.buf) = fut.len

\* Mutant: a chunk is not checked against what remains.
ReadChunkUnbounded ==
    /\ Whole
    /\ remaining' = IF fut.len > remaining THEN 0 ELSE remaining - fut.len
    /\ got' = got \o fut.buf
    /\ fut' = NoFuture
    /\ UNCHANGED <<senderVars, pos, failed, phase, drops>>

\* read_chunk: the frame is there, and counted unless it overruns.
ReadChunk ==
    /\ Whole
    /\ IF fut.len > remaining
       THEN failed' = TRUE /\ UNCHANGED <<remaining, got>>
       ELSE /\ remaining' = remaining - fut.len
            /\ got' = got \o fut.buf
            /\ UNCHANGED failed
    /\ fut' = NoFuture
    /\ UNCHANGED <<senderVars, pos, phase, drops>>

\* Mutant: an early end is not remembered.
ReadFailsForgetful ==
    /\ fut.polled /\ ~Whole /\ pos = Len(stream) /\ tail = "end"
    /\ fut' = NoFuture
    /\ UNCHANGED <<senderVars, pos, readerVars>>

\* The stream ends inside the payload: truncated_payload.
ReadFails ==
    /\ fut.polled /\ ~Whole /\ pos = Len(stream) /\ tail = "end"
    /\ failed' = TRUE
    /\ fut' = NoFuture
    /\ UNCHANGED <<senderVars, pos, remaining, got, phase, drops>>

\* The handler drops the future.  What it had taken off the stream is gone
\* with it, and the reader is not told.
DropFuture ==
    /\ phase = "handler" /\ fut.polled /\ drops < Drops
    /\ drops' = drops + 1
    /\ fut' = NoFuture
    /\ UNCHANGED <<senderVars, pos, remaining, failed, got, phase>>

HandlerReturns ==
    /\ phase = "handler" /\ ~fut.polled
    /\ phase' = "drain"
    /\ UNCHANGED <<senderVars, pos, remaining, failed, fut, got, drops>>

\* Mutant: one byte is left behind.
DrainEndsEarly ==
    /\ phase = "drain" /\ ~fut.polled
    /\ failed \/ remaining <= 1
    /\ phase' = IF failed THEN "reported" ELSE "resumed"
    /\ UNCHANGED <<senderVars, pos, remaining, failed, fut, got, drops>>

\* drain: the loop resumes on the next frame, or the failure is reported.
DrainEnds ==
    /\ phase = "drain" /\ ~fut.polled
    /\ failed \/ remaining = 0
    /\ phase' = IF failed THEN "reported" ELSE "resumed"
    /\ UNCHANGED <<senderVars, pos, remaining, failed, fut, got, drops>>

-----------------------------------------------------------------------------
Init ==
    /\ payload \in [1 .. Size + 1 -> Bytes]
    /\ stream = <<>> /\ sent = 0 /\ chunks = 0
    /\ honest = TRUE /\ tail = "none"
    /\ pos = 0 /\ remaining = Size /\ failed = FALSE
    /\ fut = NoFuture /\ got = <<>> /\ phase = "handler" /\ drops = 0

Reader ==
    \/ NextChunk \/ RecvHead \/ RecvBody \/ ReadChunk \/ ReadFails
    \/ DrainEnds

Next ==
    \/ \E n \in 0 .. Size + 1 : SendChunk(n)
    \/ SendNextRequest \/ Finish
    \/ Reader \/ DropFuture \/ HandlerReturns

\* The agent's task runs, and its handler returns.
Fairness == WF_vars(Reader) /\ WF_vars(HandlerReturns)

Spec == Init /\ [][Next]_vars /\ Fairness

-----------------------------------------------------------------------------
\* The bytes of the stream that belong to the payload's chunks.
PayloadEnd ==
    IF tail = "next" THEN Len(stream) - Len(NextRequest) ELSE Len(stream)

\* PackageReader as it is documented: "it cannot over-read into the next
\* request frame - which is what keeps the dispatch loop aligned"
\* (request.rs:121-122).
CannotOverRead == honest => pos <= PayloadEnd

\* However an honest sender cut it, a handler that awaits its chunks is given
\* a prefix of the package, and the loop resumes behind the whole of it and
\* exactly on the next frame.
WholePackage ==
    honest /\ drops = 0 =>
        /\ got = SubSeq(payload, 1, Len(got))
        /\ pos <= PayloadEnd
        /\ phase = "resumed" => Len(got) = Size /\ pos = PayloadEnd

\* Whatever the sender sends and the handler drops, no more than the declared
\* size is handed out, and `remaining` is what is missing of it.
BoundedBySize == Len(got) + remaining = Size

Over == phase \in {"resumed", "reported"}

\* Whatever the handler drops and the sender sends, a stream that has ended is
\* not waited for; nor is a payload that was sent whole, by a handler that
\* awaits its chunks.
TransferEnds ==
    /\ tail = "end" ~> Over
    /\ tail = "next" /\ honest ~> Over \/ drops > 0
=============================================================================
