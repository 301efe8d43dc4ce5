----------------------------- MODULE EventStream -----------------------------
(***************************************************************************)
(* The manager's processing of a unidirectional event stream               *)
(* (process_event_stream, src/src/server/stream.rs): a two-byte header,    *)
(* then framed events, each handed to an EventStreamHandler.               *)
(*                                                                         *)
(* The agent that writes the stream is not part of this crate; it is       *)
(* modelled by the format process_event_stream documents, and may stop,    *)
(* reset the stream, lose the connection, or be dropped inside a frame.    *)
(***************************************************************************)
EXTENDS Naturals, Sequences

CONSTANT MaxEvents    \* bound on the events written to one stream

ASSUME EventAssumption == MaxEvents \in Nat

VARIABLES
    wire,      \* what was written and not yet read
    end,       \* how the stream ends: "open", "fin", "reset", "lost"
    written,   \* every whole event written (history)
    pc,        \* what process_event_stream awaits
    handled,   \* events given to handle_event (history)
    reported,  \* events whose decoding failure was given to on_error (history)
    ended,     \* how often on_stream_end was called (history)
    stopped,   \* whether a handler method returned Err (history)
    ret        \* what process_event_stream returned: Ok, or whose error

vars == <<wire, end, written, pc, handled, reported, ended, stopped, ret>>
calls == <<handled, reported, ended, stopped>>
writerVars == <<end, written>>

Header == [kind |-> "header"]
Torn   == [kind |-> "torn"]
Msg(e) == [kind |-> "event", event |-> e]

-----------------------------------------------------------------------------
(* The agent and the stream, external. *)

Started == \E i \in 1 .. Len(wire) : wire[i] = Header

WriteHeader ==
    /\ end = "open" /\ pc = "header" /\ wire = <<>>
    /\ wire' = <<Header>>
    /\ UNCHANGED <<writerVars, pc, calls, ret>>

WriteEvent(d) ==
    /\ end = "open" /\ Len(written) < MaxEvents
    /\ pc # "header" \/ Started
    /\ LET e == [id |-> Len(written) + 1, decodes |-> d]
       IN  wire' = Append(wire, Msg(e)) /\ written' = Append(written, e)
    /\ UNCHANGED <<end, pc, calls, ret>>

Finish ==
    /\ end = "open" /\ end' = "fin"
    /\ UNCHANGED <<wire, written, pc, calls, ret>>

\* The writer is dropped inside a frame, or inside the header.
Drop ==
    /\ end = "open" /\ end' = "fin"
    /\ wire' = Append(wire, Torn)
    /\ UNCHANGED <<written, pc, calls, ret>>

Reset ==
    /\ end = "open" /\ end' = "reset"
    /\ UNCHANGED <<wire, written, pc, calls, ret>>

ConnLost ==
    /\ end # "lost" /\ end' = "lost"
    /\ \E k \in 0 .. Len(wire) : wire' = SubSeq(wire, 1, k)
    /\ UNCHANGED <<written, pc, calls, ret>>

\* A whole item, an early end, an error.  A reset may overtake what was
\* written before it.
ItemReady == wire # <<>> /\ Head(wire) # Torn
EofReady  == ~ItemReady /\ end = "fin"
ErrReady  == end = "reset" \/ (~ItemReady /\ end = "lost")

-----------------------------------------------------------------------------
(* process_event_stream. *)

Return(r) == pc' = "returned" /\ ret' = r

ReadHeader ==
    /\ pc = "header" /\ ItemReady
    /\ wire' = Tail(wire)
    /\ pc' = "recv"
    /\ UNCHANGED <<writerVars, calls, ret>>

HeaderFails ==
    /\ pc = "header" /\ (EofReady \/ ErrReady)
    /\ Return("HeaderError")
    /\ UNCHANGED <<wire, writerVars, calls>>

\* Mutant: a frame that does not decode is dropped without a word.
RecvEventQuietly ==
    /\ pc = "recv" /\ ItemReady
    /\ wire' = Tail(wire)
    /\ LET e == Head(wire).event
       IN  IF e.decodes
           THEN /\ pc' = "handle_event"
                /\ handled' = Append(handled, e) /\ UNCHANGED reported
           ELSE UNCHANGED <<pc, handled, reported>>
    /\ UNCHANGED <<writerVars, ended, stopped, ret>>

\* recv_raw gives a frame, which is decoded and handed to the handler.
RecvEvent ==
    /\ pc = "recv" /\ ItemReady
    /\ wire' = Tail(wire)
    /\ LET e == Head(wire).event
       IN  IF e.decodes
           THEN /\ pc' = "handle_event"
                /\ handled' = Append(handled, e) /\ UNCHANGED reported
           ELSE /\ pc' = "on_error"
                /\ reported' = Append(reported, e) /\ UNCHANGED handled
    /\ UNCHANGED <<writerVars, ended, stopped, ret>>

\* Either method's error ends the processing.
HandlerReturns(r) ==
    /\ pc \in {"handle_event", "on_error"} /\ r \in {"Ok", "Err"}
    /\ IF r = "Ok" THEN pc' = "recv" /\ UNCHANGED ret ELSE Return("HandlerError")
    /\ stopped' = (r = "Err")
    /\ UNCHANGED <<wire, writerVars, handled, reported, ended>>

\* Mutant: any error is taken for the end of the stream.
RecvEofAnyError ==
    /\ pc = "recv" /\ (EofReady \/ ErrReady)
    /\ pc' = "on_stream_end" /\ ended' = ended + 1
    /\ UNCHANGED <<wire, writerVars, handled, reported, stopped, ret>>

RecvEof ==
    /\ pc = "recv" /\ EofReady
    /\ pc' = "on_stream_end" /\ ended' = ended + 1
    /\ UNCHANGED <<wire, writerVars, handled, reported, stopped, ret>>

\* Mutant: the read is tried again on an error.
RecvFailsRetries ==
    /\ pc = "recv" /\ ErrReady
    /\ UNCHANGED vars

RecvFails ==
    /\ pc = "recv" /\ ErrReady
    /\ Return("ReadError")
    /\ UNCHANGED <<wire, writerVars, calls>>

EndReturns(r) ==
    /\ pc = "on_stream_end" /\ r \in {"Ok", "Err"}
    /\ Return(IF r = "Ok" THEN "Ok" ELSE "HandlerError")
    /\ stopped' = (r = "Err")
    /\ UNCHANGED <<wire, writerVars, handled, reported, ended>>

-----------------------------------------------------------------------------

Init ==
    /\ wire = <<>> /\ end = "open" /\ written = <<>>
    /\ pc = "header"
    /\ handled = <<>> /\ reported = <<>> /\ ended = 0
    /\ stopped = FALSE
    /\ ret = "none"

Process ==
    \/ ReadHeader \/ HeaderFails \/ RecvEvent \/ RecvEof \/ RecvFails
    \/ \E r \in {"Ok", "Err"} : HandlerReturns(r) \/ EndReturns(r)

Writer ==
    \/ WriteHeader \/ Finish \/ Drop \/ Reset \/ ConnLost
    \/ \E d \in BOOLEAN : WriteEvent(d)

Returned == pc = "returned" /\ UNCHANGED vars

Next == Process \/ Writer \/ Returned

Spec == Init /\ [][Next]_vars

\* The manager's task is polled and its handler returns; the writer owes
\* nothing.
FairSpec == Spec /\ WF_vars(Process)

-----------------------------------------------------------------------------

\* How many events the handler was given, and the number of the event at
\* place i of the wire.
Given    == Len(handled) + Len(reported)
Place(i) == Given + i - (IF Started THEN 1 ELSE 0)

\* Events of the first Given, of the kind d, each once and as written.
InOrder(s, d) ==
    \A i \in 1 .. Len(s) :
        /\ s[i].decodes = d
        /\ s[i].id \in 1 .. Given /\ s[i] = written[s[i].id]
        /\ \A j \in 1 .. i - 1 : s[j].id < s[i].id

\* process_event_stream neither loses, repeats nor reorders an event.  The
\* handler was given the first so many of what was written, the decodable
\* ones through handle_event and each of the others through on_error; what is
\* in flight follows without a gap, and reaches up to the last one written
\* unless the connection was lost.
EventsInOrder ==
    /\ Given <= Len(written)
    /\ InOrder(handled, TRUE) /\ InOrder(reported, FALSE)
    /\ \A k \in 1 .. Given :
          \/ \E i \in 1 .. Len(handled) : handled[i] = written[k]
          \/ \E i \in 1 .. Len(reported) : reported[i] = written[k]
    /\ \A i \in 1 .. Len(wire) : wire[i].kind = "event" =>
          Place(i) \in 1 .. Len(written) /\ wire[i] = Msg(written[Place(i)])
    /\ end # "lost" => \A k \in Given + 1 .. Len(written) :
                          \E i \in 1 .. Len(wire) : wire[i] = Msg(written[k])

\* on_stream_end, and a return of Ok, mean that the writer ended the stream
\* (the connection may be lost once that is in sight) and that every event
\* written whole was given to the handler or its error reported.  An event
\* whose writer was dropped inside it is not among `written`: the torn frame
\* reads as the end, and the handler hears of an end, not of an event.  A
\* handler's error is final: it is never followed by Ok.
EndMeansAll ==
    /\ ret = "Ok" => ended = 1 /\ ~stopped
    /\ ended = 1 => /\ end \in {"fin", "lost"}
                    /\ Len(handled) + Len(reported) = Len(written)

\* A stream that is over is soon done with: no end, error or torn frame keeps
\* process_event_stream waiting.
ProcessingEnds == end # "open" ~> pc = "returned"
=============================================================================
