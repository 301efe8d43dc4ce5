-------------------------- MODULE EventStreamProofs --------------------------
(***************************************************************************)
(* Proofs about EventStream: process_event_stream gives every event        *)
(* written to the handler, once and in order, and reports the end of the   *)
(* stream only when it has given all of them, for any number of events and *)
(* however the stream ends.                                                *)
(***************************************************************************)
EXTENDS EventStream, SequenceTheorems, TLAPS

-----------------------------------------------------------------------------
(* The inductive invariant. *)

Event == [id : Nat, decodes : BOOLEAN]
Item  == {Header, Torn} \cup [kind : {"event"}, event : Event]

EventTypes ==
    /\ wire \in Seq(Item)
    /\ written \in Seq(Event) /\ handled \in Seq(Event) /\ reported \in Seq(Event)
    /\ \A k \in 1 .. Len(written) : written[k].id = k

\* A torn frame is the last thing written, the header the first, and nothing
\* was given to the handler before it was read.  As long as the writer goes
\* on, every event written is with the handler or on the wire.
WireInv ==
    /\ \A i \in 1 .. Len(wire) :
          /\ wire[i].kind = "torn" => i = Len(wire) /\ end # "open"
          /\ wire[i].kind = "header" =>
                i = 1 /\ Given = 0 /\ pc \in {"header", "returned"}
    /\ pc = "header" =>
          /\ Given = 0
          /\ wire # <<>> => wire[1].kind # "event"
    /\ end = "open" => Place(Len(wire)) = Len(written)

\* Where process_event_stream is, and what it has called.
TaskInv ==
    /\ pc # "returned" => ~stopped /\ ret = "none"
    /\ pc \notin {"on_stream_end", "returned"} => ended = 0
    /\ pc = "on_stream_end" => ended = 1

EventInv ==
    /\ EventTypes /\ WireInv /\ TaskInv
    /\ EventsInOrder /\ EndMeansAll

-----------------------------------------------------------------------------
\* Reading the first item.
LEMMA PopFacts ==
    ASSUME NEW S, NEW s \in Seq(S), s # <<>>
    PROVE  /\ Head(s) \in S /\ Head(s) = s[1] /\ 1 \in 1 .. Len(s)
           /\ Tail(s) \in Seq(S)
           /\ Len(s) \in Nat /\ Len(Tail(s)) \in Nat
           /\ Len(Tail(s)) = Len(s) - 1
           /\ \A i \in 1 .. Len(Tail(s)) :
                 i + 1 \in 1 .. Len(s) /\ Tail(s)[i] = s[i + 1]
OBVIOUS

\* Writing a item.
LEMMA PushFacts ==
    ASSUME NEW S, NEW s \in Seq(S), NEW e \in S
    PROVE  /\ Append(s, e) \in Seq(S)
           /\ Len(s) \in Nat /\ Len(Append(s, e)) = Len(s) + 1
           /\ \A i \in 1 .. Len(s) : Append(s, e)[i] = s[i]
           /\ Append(s, e)[Len(s) + 1] = e
OBVIOUS

\* The three kinds of item on the wire.
LEMMA ItemFacts ==
    /\ Header \in Item /\ Header.kind = "header"
    /\ Torn \in Item /\ Torn.kind = "torn"
    /\ \A e \in Event : /\ Msg(e) \in Item
                        /\ Msg(e).kind = "event"
                        /\ Msg(e).event = e
    /\ \A x \in Item :
          /\ x.kind \in {"header", "torn", "event"}
          /\ x.kind = "header" <=> x = Header
          /\ x.kind = "torn" <=> x = Torn
          /\ x.kind = "event" => x.event \in Event /\ x = Msg(x.event)
BY DEF Item, Header, Torn, Msg

\* The counts are numbers.
LEMMA CountFacts ==
    ASSUME EventTypes
    PROVE  /\ Len(wire) \in Nat /\ Len(written) \in Nat
           /\ Len(handled) \in Nat /\ Len(reported) \in Nat
           /\ Given \in Nat
           /\ Started <=> \E i \in 1 .. Len(wire) : wire[i].kind = "header"
           /\ \A i \in 1 .. Len(wire) : wire[i] \in Item
BY ItemFacts DEF EventTypes, Given, Started

\* Writing an event or a fragment does not start a stream.
LEMMA StartedPush ==
    ASSUME wire \in Seq(Item), wire' \in Seq(Item), Len(wire') = Len(wire) + 1,
           \A i \in 1 .. Len(wire) : wire'[i] = wire[i],
           wire'[Len(wire) + 1].kind # "header"
    PROVE  Started' <=> Started
<1> DEFINE m == Len(wire)
<1>1. m \in Nat
  OBVIOUS
<1>2. /\ \A i \in 1 .. m + 1 : i \in 1 .. m \/ i = m + 1
      /\ \A i \in 1 .. m : i \in 1 .. m + 1
  BY <1>1
<1>3. wire'[m + 1] # Header
  BY ItemFacts
<1> HIDE DEF m
<1>4. /\ Started <=> \E i \in 1 .. m : wire[i] = Header
      /\ Started' <=> \E i \in 1 .. m + 1 : wire'[i] = Header
      /\ \A i \in 1 .. m : wire'[i] = wire[i]
  BY DEF Started, m, Header
<1> QED BY <1>2, <1>3, <1>4

\* A stream starts with nothing written.
LEMMA EventInit == Init => EventInv
<1> SUFFICES ASSUME Init PROVE EventInv
  OBVIOUS
<1>1. Len(wire) = 0 /\ Len(written) = 0 /\ Len(handled) = 0 /\ Len(reported) = 0
  BY DEF Init
<1>2. EventTypes
  BY <1>1 DEF Init, EventTypes
<1>3. Given = 0 /\ ~Started
  BY <1>1, <1>2, CountFacts DEF Given
<1>4. WireInv /\ TaskInv
  BY <1>1, <1>3 DEF Init, WireInv, TaskInv, Place
<1>5. EventsInOrder
  BY <1>1, <1>3 DEF EventsInOrder, InOrder
<1>6. EndMeansAll
  BY DEF Init, EndMeansAll
<1> QED BY <1>2, <1>4, <1>5, <1>6 DEF EventInv

\* What a step leaves of the invariant that changes neither what was written
\* or given, nor the wire.
LEMMA QuietStep ==
    ASSUME EventInv, UNCHANGED <<wire, written, handled, reported>>,
           end' = end \/ end' # "open",
           end = "lost" => end' = "lost",
           pc' = pc \/ pc' \notin {"header"},
           pc' \in {"header", "returned"} \/ pc \notin {"header", "returned"}
    PROVE  EventTypes' /\ WireInv' /\ EventsInOrder'
<1>1. EventTypes'
  BY DEF EventInv, EventTypes
<1>2. /\ Given' = Given /\ (Started' <=> Started)
      /\ \A i : Place(i)' = Place(i)
  BY DEF Given, Started, Place
<1>3. WireInv'
  BY <1>2 DEF EventInv, WireInv
<1>4. EventsInOrder'
  BY <1>2 DEF EventInv, EventsInOrder, InOrder
<1> QED BY <1>1, <1>3, <1>4

\* The header is the first thing on the wire.
LEMMA WriteHeaderStep ==
    ASSUME EventInv, WriteHeader
    PROVE  EventInv'
<1>1. /\ end = "open" /\ pc = "header" /\ Len(wire) = 0
      /\ wire' = <<Header>>
      /\ UNCHANGED <<end, written, pc, handled, reported, ended, stopped,
                     ret>>
  BY DEF WriteHeader, writerVars, calls
<1>2. EventTypes'
  BY <1>1, ItemFacts DEF EventInv, EventTypes
<1>3. /\ Len(wire') = 1 /\ wire'[1].kind = "header"
      /\ Given' = 0 /\ Given = 0
  BY <1>1, ItemFacts DEF EventInv, WireInv, Given
<1>4. Started' /\ ~Started
  BY <1>1, <1>2, <1>3, CountFacts DEF EventInv, Started
<1>5. Len(written) = 0
  BY <1>1, <1>3, <1>4 DEF EventInv, WireInv, Place
<1>6. WireInv' /\ TaskInv'
  BY <1>1, <1>3, <1>4, <1>5 DEF EventInv, WireInv, TaskInv, Place
<1>7. EventsInOrder'
  BY <1>1, <1>3, <1>5
     DEF EventInv, EventsInOrder, InOrder, Given
<1>8. EndMeansAll'
  BY <1>1 DEF EventInv, EndMeansAll
<1> QED BY <1>2, <1>6, <1>7, <1>8 DEF EventInv

\* An event is written behind the others.
LEMMA WriteEventStep ==
    ASSUME EventInv, NEW d \in BOOLEAN, WriteEvent(d)
    PROVE  EventInv'
<1> DEFINE n == Len(written)
           m == Len(wire)
           e == [id |-> n + 1, decodes |-> d]
<1>0. EventTypes /\ WireInv /\ TaskInv /\ EventsInOrder /\ EndMeansAll
  BY DEF EventInv
<1>1. /\ end = "open" /\ (pc # "header" \/ Started)
      /\ wire' = Append(wire, Msg(e)) /\ written' = Append(written, e)
      /\ UNCHANGED <<end, pc, handled, reported, ended, stopped, ret>>
  BY DEF WriteEvent, calls
<1>2. n \in Nat /\ m \in Nat /\ e \in Event /\ e.id = n + 1
  BY <1>0, CountFacts DEF Event
<1> HIDE DEF e
<1>3. /\ wire' \in Seq(Item) /\ Len(wire') = m + 1
      /\ \A i \in 1 .. m : wire'[i] = wire[i]
      /\ wire'[m + 1] = Msg(e)
  BY <1>0, <1>1, <1>2, ItemFacts, PushFacts DEF EventTypes
<1>4. /\ written' \in Seq(Event) /\ Len(written') = n + 1
      /\ \A k \in 1 .. n : written'[k] = written[k]
      /\ written'[n + 1] = e
  BY <1>0, <1>1, <1>2, PushFacts DEF EventTypes
<1>5. EventTypes'
  BY <1>0, <1>1, <1>2, <1>3, <1>4 DEF EventTypes
<1>6. /\ Given' = Given /\ Given \in Nat
      /\ Started' <=> Started
      /\ \A i : Place(i)' = Place(i)
  <2>1. Given' = Given /\ Given \in Nat
    BY <1>0, <1>1, CountFacts DEF Given
  <2>2. wire'[m + 1].kind # "header"
    BY <1>2, <1>3, ItemFacts
  <2>3. Started' <=> Started
    BY <1>0, <1>3, <2>2, StartedPush DEF EventTypes
  <2> QED BY <2>1, <2>3 DEF Place
<1>7. Place(m) = n /\ Place(m + 1) = n + 1
  <2>1. Place(m) = n
    BY <1>0, <1>1 DEF WireInv
  <2> QED BY <1>2, <1>6, <2>1 DEF Place
<1>8. WireInv'
  <2>1. ASSUME NEW i \in 1 .. m + 1
        PROVE  /\ wire'[i].kind # "torn"
               /\ wire'[i].kind = "header" =>
                     i = 1 /\ Given = 0 /\ pc \in {"header", "returned"}
    <3>1. CASE i = m + 1
      BY <1>2, <1>3, <3>1, ItemFacts
    <3>2. CASE i \in 1 .. m
      BY <1>0, <1>1, <1>3, <3>2 DEF WireInv
    <3> QED BY <1>2, <3>1, <3>2
  <2>2. ASSUME pc = "header" PROVE Given = 0 /\ wire'[1].kind # "event"
    <3>1. Given = 0 /\ Started
      BY <1>0, <1>1, <2>2 DEF WireInv
    <3>2. 1 \in 1 .. m
      BY <1>0, <1>2, <3>1, CountFacts
    <3> QED BY <1>0, <1>3, <2>2, <3>1, <3>2 DEF WireInv
  <2> QED BY <1>1, <1>3, <1>4, <1>6, <1>7, <2>1, <2>2 DEF WireInv
<1>9. EventsInOrder'
  <2>1. Given <= n
    BY <1>0 DEF EventsInOrder
  <2>2. \A k \in 1 .. Given : k \in 1 .. n /\ written'[k] = written[k]
    BY <1>2, <1>4, <1>6, <2>1
  <2>3. InOrder(handled, TRUE)' /\ InOrder(reported, FALSE)'
    <3>1. InOrder(handled, TRUE) /\ InOrder(reported, FALSE)
      BY <1>0 DEF EventsInOrder
    <3>2. InOrder(handled, TRUE)'
      BY <1>1, <1>6, <2>2, <3>1 DEF InOrder
    <3>3. InOrder(reported, FALSE)'
      BY <1>1, <1>6, <2>2, <3>1 DEF InOrder
    <3> QED BY <3>2, <3>3
  <2>4. ASSUME NEW k \in 1 .. Given
        PROVE  \/ \E i \in 1 .. Len(handled') : handled'[i] = written'[k]
               \/ \E i \in 1 .. Len(reported') : reported'[i] = written'[k]
    BY <1>0, <1>1, <2>2 DEF EventsInOrder
  <2>5. ASSUME NEW i \in 1 .. m + 1, wire'[i].kind = "event"
        PROVE  /\ Place(i) \in 1 .. n + 1
               /\ wire'[i] = Msg(written'[Place(i)])
    <3>1. CASE i = m + 1
      BY <1>2, <1>3, <1>4, <1>7, <3>1
    <3>2. CASE i \in 1 .. m
      <4>1. /\ Place(i) \in 1 .. n
            /\ wire[i] = Msg(written[Place(i)])
        BY <1>0, <1>3, <2>5, <3>2 DEF EventsInOrder
      <4> QED BY <1>2, <1>3, <1>4, <3>2, <4>1
    <3> QED BY <1>2, <3>1, <3>2
  <2>6. ASSUME NEW k \in Given + 1 .. n + 1
        PROVE  \E i \in 1 .. m + 1 : wire'[i] = Msg(written'[k])
    <3>1. CASE k = n + 1
      BY <1>2, <1>3, <1>4, <3>1
    <3>2. CASE k \in Given + 1 .. n
      <4>1. PICK i \in 1 .. m : wire[i] = Msg(written[k])
        BY <1>0, <1>1, <3>2 DEF EventsInOrder
      <4>2. k \in 1 .. n
        BY <1>2, <1>6, <3>2
      <4> QED BY <1>2, <1>3, <1>4, <4>1, <4>2
    <3> QED BY <1>2, <1>6, <3>1, <3>2
  <2>7. Given' <= Len(written')
    BY <1>2, <1>4, <1>6, <2>1
  <2> QED BY <1>3, <1>4, <1>6, <2>3, <2>4, <2>5, <2>6, <2>7
          DEF EventsInOrder, Msg
<1>10. TaskInv' /\ EndMeansAll'
  BY <1>0, <1>1 DEF TaskInv, EndMeansAll
<1> QED BY <1>5, <1>8, <1>9, <1>10 DEF EventInv

\* The writer stops inside a frame.
LEMMA DropStep ==
    ASSUME EventInv, Drop
    PROVE  EventInv'
<1> DEFINE m == Len(wire)
<1>0. EventTypes /\ WireInv /\ TaskInv /\ EventsInOrder /\ EndMeansAll
  BY DEF EventInv
<1>1. /\ end = "open" /\ end' = "fin" /\ wire' = Append(wire, Torn)
      /\ UNCHANGED <<written, pc, handled, reported, ended, stopped, ret>>
  BY DEF Drop, calls
<1>2. m \in Nat /\ wire \in Seq(Item)
  BY <1>0, CountFacts DEF EventTypes
<1>3. /\ wire' \in Seq(Item) /\ Len(wire') = m + 1
      /\ \A i \in 1 .. m : wire'[i] = wire[i]
      /\ wire'[m + 1] = Torn /\ wire'[m + 1].kind = "torn"
  BY <1>1, <1>2, ItemFacts, PushFacts
<1>4. EventTypes'
  BY <1>0, <1>1, <1>3 DEF EventTypes
<1>5. /\ Given' = Given
      /\ Started' <=> Started
      /\ \A i : Place(i)' = Place(i)
  <2>1. Given' = Given
    BY <1>1 DEF Given
  <2>2. Started' <=> Started
    BY <1>2, <1>3, StartedPush
  <2> QED BY <2>1, <2>2 DEF Place
<1>6. \A i \in 1 .. m + 1 :
         wire'[i].kind # "torn" => i \in 1 .. m /\ wire'[i] = wire[i]
  BY <1>2, <1>3
<1>7. WireInv'
  <2>1. \A i \in 1 .. m + 1 : wire'[i].kind = "torn" => i = m + 1
    BY <1>0, <1>1, <1>2, <1>3 DEF WireInv
  <2>2. \A i \in 1 .. m + 1 : wire'[i].kind = "header" =>
           i = 1 /\ Given = 0 /\ pc \in {"header", "returned"}
    BY <1>0, <1>6 DEF WireInv
  <2>3. ASSUME pc = "header"
        PROVE  Given = 0 /\ wire'[1].kind # "event"
    <3>1. CASE m = 0
      BY <1>0, <1>3, <2>3, <3>1 DEF WireInv
    <3>2. CASE m # 0
      <4>1. 1 \in 1 .. m /\ wire # <<>>
        BY <1>2, <3>2
      <4> QED BY <1>0, <1>3, <2>3, <4>1 DEF WireInv
    <3> QED BY <3>1, <3>2
  <2> QED BY <1>1, <1>3, <1>5, <2>1, <2>2, <2>3 DEF WireInv
<1>8. EventsInOrder'
  <2>1. ASSUME NEW k \in Given + 1 .. Len(written)
        PROVE  \E i \in 1 .. m + 1 : wire'[i] = Msg(written[k])
    <3>1. PICK i \in 1 .. m : wire[i] = Msg(written[k])
      BY <1>0, <1>1 DEF EventsInOrder
    <3> QED BY <1>2, <1>3, <3>1
  <2>2. ASSUME NEW i \in 1 .. m + 1, wire'[i].kind = "event"
        PROVE  /\ Place(i) \in 1 .. Len(written)
               /\ wire'[i] = Msg(written[Place(i)])
    <3>1. i \in 1 .. m /\ wire[i].kind = "event" /\ wire'[i] = wire[i]
      BY <1>6, <2>2
    <3> QED BY <1>0, <3>1 DEF EventsInOrder
  <2>3. InOrder(handled, TRUE)' /\ InOrder(reported, FALSE)'
    BY <1>0, <1>1, <1>5 DEF EventsInOrder, InOrder
  <2> QED BY <1>0, <1>1, <1>3, <1>5, <2>1, <2>2, <2>3
          DEF EventsInOrder, Msg
<1>9. TaskInv' /\ EndMeansAll'
  BY <1>0, <1>1 DEF TaskInv, EndMeansAll
<1> QED BY <1>4, <1>7, <1>8, <1>9 DEF EventInv

\* A lost connection leaves the beginning of what was in flight.
LEMMA LostStep ==
    ASSUME EventInv, ConnLost
    PROVE  EventInv'
<1>0. EventTypes /\ WireInv /\ TaskInv /\ EventsInOrder /\ EndMeansAll
  BY DEF EventInv
<1>1. /\ end' = "lost"
      /\ UNCHANGED <<written, pc, handled, reported, ended, stopped, ret>>
  BY DEF ConnLost, calls
<1>2. PICK m \in 0 .. Len(wire) : wire' = SubSeq(wire, 1, m)
  BY DEF ConnLost
<1>3. /\ Len(wire) \in Nat /\ m \in Nat
      /\ wire' \in Seq(Item) /\ Len(wire') = m
      /\ \A i \in 1 .. m : i \in 1 .. Len(wire) /\ wire'[i] = wire[i]
  BY <1>0, <1>2, CountFacts DEF EventTypes
<1>4. EventTypes'
  BY <1>0, <1>1, <1>3 DEF EventTypes
<1>5. /\ Given' = Given
      /\ m # 0 => (Started' <=> Started)
      /\ m # 0 => \A i : Place(i)' = Place(i)
  <2>1. Given' = Given
    BY <1>1 DEF Given
  <2>2. ASSUME m # 0 PROVE Started' <=> Started
    <3>1. Started' <=> \E i \in 1 .. m : wire'[i].kind = "header"
      BY <1>3, ItemFacts DEF Started
    <3>2. Started => wire[1].kind = "header"
      BY <1>0, CountFacts DEF WireInv
    <3>3. 1 \in 1 .. m
      BY <1>3, <2>2
    <3> QED BY <1>0, <1>3, <3>1, <3>2, <3>3, CountFacts
  <2> QED BY <2>1, <2>2 DEF Place
<1>6. WireInv'
  <2>1. \A i \in 1 .. m : wire'[i].kind = "torn" => i = m
    BY <1>0, <1>3 DEF WireInv
  <2>2. \A i \in 1 .. m : wire'[i].kind = "header" =>
           i = 1 /\ Given = 0 /\ pc \in {"header", "returned"}
    BY <1>0, <1>3 DEF WireInv
  <2>3. ASSUME pc = "header", m # 0
        PROVE  wire'[1].kind # "event"
    <3>1. 1 \in 1 .. m /\ wire # <<>>
      BY <1>3, <2>3
    <3> QED BY <1>0, <1>3, <2>3, <3>1 DEF WireInv
  <2>4. wire' # <<>> => m # 0
    BY <1>3
  <2> QED BY <1>0, <1>1, <1>3, <1>5, <2>1, <2>2, <2>3, <2>4 DEF WireInv
<1>7. EventsInOrder'
  <2>1. ASSUME NEW i \in 1 .. m, wire'[i].kind = "event"
        PROVE  /\ Place(i)' \in 1 .. Len(written)
               /\ wire'[i] = Msg(written[Place(i)'])
    <3>1. m # 0
      BY <1>3
    <3>2. Place(i)' = Place(i) /\ wire'[i] = wire[i] /\ i \in 1 .. Len(wire)
      BY <1>3, <1>5, <3>1
    <3> QED BY <1>0, <2>1, <3>2 DEF EventsInOrder
  <2>2. InOrder(handled, TRUE)' /\ InOrder(reported, FALSE)'
    BY <1>0, <1>1, <1>5 DEF EventsInOrder, InOrder
  <2> QED BY <1>0, <1>1, <1>3, <1>5, <2>1, <2>2
          DEF EventsInOrder, Msg
<1>8. TaskInv' /\ EndMeansAll'
  BY <1>0, <1>1 DEF TaskInv, EndMeansAll
<1> QED BY <1>4, <1>6, <1>7, <1>8 DEF EventInv

\* What taking one item off leaves on the wire: no header, and every event one
\* place further on.
LEMMA TakenFacts ==
    ASSUME EventInv, ItemReady, wire' = Tail(wire)
    PROVE  /\ Len(wire) \in Nat /\ 1 \in 1 .. Len(wire) /\ Head(wire) = wire[1]
           /\ wire[1] \in Item /\ wire[1].kind # "torn"
           /\ wire' \in Seq(Item)
           /\ Len(wire') \in Nat /\ Len(wire') = Len(wire) - 1
           /\ \A i \in 1 .. Len(wire') : /\ i + 1 \in 1 .. Len(wire)
                                         /\ wire'[i] = wire[i + 1]
                                         /\ wire'[i].kind # "header"
           /\ ~Started'
<1>0. EventTypes /\ WireInv
  BY DEF EventInv
<1>1. wire \in Seq(Item) /\ wire # <<>>
  BY <1>0 DEF EventTypes, ItemReady
<1>2. /\ Len(wire) \in Nat /\ 1 \in 1 .. Len(wire) /\ Head(wire) = wire[1]
      /\ wire[1] \in Item
      /\ wire' \in Seq(Item) /\ Len(wire') \in Nat /\ Len(wire') = Len(wire) - 1
      /\ \A i \in 1 .. Len(wire') : /\ i + 1 \in 1 .. Len(wire)
                                    /\ wire'[i] = wire[i + 1]
  BY <1>1, PopFacts
<1>3. wire[1].kind # "torn"
  BY <1>2, ItemFacts DEF ItemReady
<1>4. ASSUME NEW i \in 1 .. Len(wire') PROVE wire'[i].kind # "header"
  <2>1. i + 1 \in 1 .. Len(wire) /\ i + 1 # 1 /\ wire'[i] = wire[i + 1]
    BY <1>2
  <2> QED BY <1>0, <2>1 DEF WireInv
<1>5. ~Started'
  BY <1>4, ItemFacts DEF Started
<1> QED BY <1>2, <1>3, <1>4, <1>5

\* The header is read.
LEMMA ReadHeaderStep ==
    ASSUME EventInv, ReadHeader
    PROVE  EventInv'
<1>0. EventTypes /\ WireInv /\ TaskInv /\ EventsInOrder /\ EndMeansAll
  BY DEF EventInv
<1>1. /\ pc = "header" /\ ItemReady /\ wire' = Tail(wire) /\ pc' = "recv"
      /\ UNCHANGED <<end, written, handled, reported, ended, stopped, ret>>
  BY DEF ReadHeader, writerVars, calls
<1> DEFINE m == Len(wire) - 1
<1>2. /\ Len(wire) \in Nat /\ 1 \in 1 .. Len(wire)
      /\ wire[1] \in Item /\ wire[1].kind # "torn"
      /\ wire' \in Seq(Item) /\ m \in Nat /\ Len(wire) = m + 1 /\ Len(wire') = m
      /\ \A i \in 1 .. m : /\ i + 1 \in 1 .. m + 1 /\ wire'[i] = wire[i + 1]
                           /\ wire'[i].kind # "header"
      /\ ~Started'
  BY <1>1, TakenFacts
<1>3. wire # <<>> /\ wire[1].kind = "header" /\ Given = 0
  BY <1>0, <1>1, <1>2, ItemFacts DEF WireInv, ItemReady
<1>4. Started
  BY <1>0, <1>2, <1>3, CountFacts
<1>5. /\ Given' = 0 /\ \A i \in 0 .. m : Place(i)' = Place(i + 1)
  <2>1. Given' = 0
    BY <1>1, <1>3 DEF Given
  <2> QED BY <1>2, <1>3, <1>4, <2>1 DEF Place
<1>6. EventTypes'
  BY <1>0, <1>1, <1>2 DEF EventTypes
<1>7. WireInv'
  <2>1. ASSUME NEW i \in 1 .. m, wire'[i].kind = "torn"
        PROVE  i = m /\ end # "open"
    <3>1. i + 1 \in 1 .. Len(wire) /\ wire[i + 1].kind = "torn"
      BY <1>2, <2>1
    <3>2. i + 1 = Len(wire) /\ end # "open"
      BY <1>0, <3>1 DEF WireInv
    <3>3. i \in Nat /\ Len(wire) \in Nat
      BY <1>2
    <3> QED BY <3>2, <3>3
  <2>2. end = "open" => Place(Len(wire))' = Len(written)
    BY <1>0, <1>2, <1>3, <1>4, <1>5 DEF WireInv, Place
  <2> QED BY <1>1, <1>2, <2>1, <2>2 DEF WireInv
<1>8. EventsInOrder'
  <2>1. ASSUME NEW k \in 0 + 1 .. Len(written), end # "lost"
        PROVE  \E i \in 1 .. m : wire'[i] = Msg(written[k])
    <3>1. PICK i \in 1 .. m + 1 : wire[i] = Msg(written[k])
      BY <1>0, <1>2, <1>3, <2>1 DEF EventsInOrder
    <3>2. written[k] \in Event
      BY <1>0 DEF EventTypes
    <3>3. i # 1
      BY <1>3, <3>1, <3>2, ItemFacts
    <3>4. i - 1 \in 1 .. m /\ (i - 1) + 1 = i
      BY <1>2, <3>3
    <3> QED BY <1>2, <3>1, <3>4
  <2>2. ASSUME NEW i \in 1 .. m, wire'[i].kind = "event"
        PROVE  /\ Place(i)' \in 1 .. Len(written)
               /\ wire'[i] = Msg(written[Place(i)'])
    <3>1. i \in 0 .. m /\ wire'[i] = wire[i + 1] /\ i + 1 \in 1 .. Len(wire)
      BY <1>2
    <3>2. Place(i)' = Place(i + 1)
      BY <1>5, <3>1
    <3> QED BY <1>0, <2>2, <3>1, <3>2 DEF EventsInOrder
  <2>3. InOrder(handled, TRUE)' /\ InOrder(reported, FALSE)'
    BY <1>0, <1>1, <1>3, <1>5 DEF EventsInOrder, InOrder
  <2> QED BY <1>0, <1>1, <1>2, <1>3, <1>5, <2>1, <2>2, <2>3
          DEF EventsInOrder, Msg
<1>9. TaskInv' /\ EndMeansAll'
  BY <1>0, <1>1 DEF TaskInv, EndMeansAll
<1> QED BY <1>6, <1>7, <1>8, <1>9 DEF EventInv

\* The events given so far and one more of kind d are in order, if the new one
\* is the next of those written.
LEMMA InOrderPush ==
    ASSUME EventTypes, NEW s \in Seq(Event), NEW d \in BOOLEAN, NEW e \in Event,
           InOrder(s, d), written' = written, Given \in Nat,
           Given' = Given + 1, e.decodes = d,
           e.id = Given + 1, e = written[Given + 1],
           NEW t, t = Append(s, e)
    PROVE  /\ \A i \in 1 .. Len(t) :
                 /\ t[i].decodes = d
                 /\ t[i].id \in 1 .. Given' /\ t[i] = written'[t[i].id]
                 /\ \A j \in 1 .. i - 1 : t[j].id < t[i].id
<1>1. /\ Len(s) \in Nat /\ Len(t) = Len(s) + 1 /\ t[Len(s) + 1] = e
      /\ \A i \in 1 .. Len(s) : t[i] = s[i]
  BY PushFacts
<1>2. ASSUME NEW i \in 1 .. Len(t)
      PROVE  /\ t[i].decodes = d
             /\ t[i].id \in 1 .. Given' /\ t[i] = written'[t[i].id]
             /\ \A j \in 1 .. i - 1 : t[j].id < t[i].id
  <2>1. CASE i = Len(s) + 1
    <3>1. \A j \in 1 .. Len(s) : t[j].id \in 1 .. Given
      BY <1>1 DEF InOrder
    <3>2. t[i] = e /\ \A j \in 1 .. i - 1 : j \in 1 .. Len(s)
      BY <1>1, <2>1
    <3>3. \A j \in 1 .. i - 1 : t[j].id < t[i].id
      BY <3>1, <3>2
    <3> QED BY <3>2, <3>3
  <2>2. CASE i \in 1 .. Len(s)
    <3>1. t[i] = s[i] /\ \A j \in 1 .. i - 1 : j \in 1 .. Len(s) /\ t[j] = s[j]
      BY <1>1, <2>2
    <3>2. /\ s[i].decodes = d /\ s[i].id \in 1 .. Given
          /\ s[i] = written[s[i].id] /\ \A j \in 1 .. i - 1 : s[j].id < s[i].id
      BY <2>2 DEF InOrder
    <3> QED BY <3>1, <3>2
  <2> QED BY <1>1, <2>1, <2>2
<1> QED BY <1>2

\* An event is read and given to the handler, one way or the other.
LEMMA RecvEventStep ==
    ASSUME EventInv, RecvEvent
    PROVE  EventInv'
<1> DEFINE g == Given
           m == Len(wire) - 1
           e == wire[1].event
<1>0. EventTypes /\ WireInv /\ TaskInv /\ EventsInOrder /\ EndMeansAll
  BY DEF EventInv
<1>1. /\ pc = "recv" /\ ItemReady /\ wire' = Tail(wire)
      /\ pc' \in {"handle_event", "on_error"}
      /\ UNCHANGED <<end, written, ended, stopped, ret>>
  BY DEF RecvEvent, writerVars
<1>2. /\ Len(wire) \in Nat /\ 1 \in 1 .. Len(wire) /\ Head(wire) = wire[1]
      /\ wire[1] \in Item /\ wire[1].kind # "torn"
      /\ wire' \in Seq(Item) /\ m \in Nat /\ Len(wire) = m + 1 /\ Len(wire') = m
      /\ \A i \in 1 .. m : /\ i + 1 \in 1 .. m + 1 /\ wire'[i] = wire[i + 1]
                           /\ wire'[i].kind # "header"
      /\ ~Started'
  BY <1>1, TakenFacts
<1>3. /\ \/ e.decodes /\ handled' = Append(handled, e) /\ reported' = reported
         \/ ~e.decodes /\ reported' = Append(reported, e) /\ handled' = handled
  BY <1>2 DEF RecvEvent
<1>4. /\ ~Started /\ wire[1].kind = "event"
      /\ e \in Event /\ wire[1] = Msg(e)
  BY <1>0, <1>1, <1>2, CountFacts, ItemFacts DEF WireInv
<1>5. g \in Nat /\ Len(written) \in Nat /\ g <= Len(written)
  BY <1>0, CountFacts DEF EventsInOrder
<1>6. Place(1) = g + 1
  BY <1>4, <1>5 DEF Place
<1>7. /\ g + 1 \in 1 .. Len(written) /\ e = written[g + 1] /\ e.id = g + 1
  <2>1. g + 1 \in 1 .. Len(written) /\ wire[1] = Msg(written[g + 1])
    BY <1>0, <1>2, <1>4, <1>6 DEF EventsInOrder
  <2>2. written[g + 1] \in Event /\ written[g + 1].id = g + 1
    BY <1>0, <2>1 DEF EventTypes
  <2> QED BY <1>4, <2>1, <2>2, ItemFacts
<1> HIDE DEF e
<1>8. /\ handled' \in Seq(Event) /\ reported' \in Seq(Event)
      /\ Given' = g + 1
      /\ Len(handled) \in Nat /\ Len(reported) \in Nat
      /\ Len(handled') >= Len(handled) /\ Len(reported') >= Len(reported)
      /\ \A i \in 1 .. Len(handled) : handled'[i] = handled[i]
      /\ \A i \in 1 .. Len(reported) : reported'[i] = reported[i]
  <2>1. handled \in Seq(Event) /\ reported \in Seq(Event)
    BY <1>0 DEF EventTypes
  <2>2. CASE e.decodes /\ handled' = Append(handled, e) /\ reported' = reported
    <3>1. /\ Len(handled) \in Nat /\ Len(reported) \in Nat
          /\ handled' \in Seq(Event) /\ Len(handled') = Len(handled) + 1
          /\ \A i \in 1 .. Len(handled) : handled'[i] = handled[i]
      BY <1>4, <2>1, <2>2, PushFacts
    <3> QED BY <2>1, <2>2, <3>1 DEF Given
  <2>3. CASE ~e.decodes /\ reported' = Append(reported, e) /\ handled' = handled
    <3>1. /\ Len(handled) \in Nat /\ Len(reported) \in Nat
          /\ reported' \in Seq(Event) /\ Len(reported') = Len(reported) + 1
          /\ \A i \in 1 .. Len(reported) : reported'[i] = reported[i]
      BY <1>4, <2>1, <2>3, PushFacts
    <3> QED BY <2>1, <2>3, <3>1 DEF Given
  <2> QED BY <1>3, <2>2, <2>3
<1>9. \A i \in 0 .. m : Place(i)' = Place(i + 1)
  BY <1>2, <1>4, <1>5, <1>8 DEF Place
<1>10. EventTypes'
  BY <1>0, <1>1, <1>2, <1>8 DEF EventTypes
<1>11. WireInv'
  <2>1. ASSUME NEW i \in 1 .. m, wire'[i].kind = "torn"
        PROVE  i = m /\ end # "open"
    <3>1. i + 1 \in 1 .. Len(wire) /\ wire[i + 1].kind = "torn"
      BY <1>2, <2>1
    <3>2. i + 1 = Len(wire) /\ end # "open"
      BY <1>0, <3>1 DEF WireInv
    <3>3. i \in Nat /\ Len(wire) \in Nat
      BY <1>2
    <3> QED BY <3>2, <3>3
  <2>2. end = "open" => Place(Len(wire))' = Len(written)
    <3>1. Place(Len(wire)) = g + (m + 1)
      BY <1>2, <1>4, <1>5 DEF Place
    <3>2. Place(Len(wire))' = (g + 1) + m
      BY <1>2, <1>5, <1>8 DEF Place
    <3>3. end = "open" => Place(Len(wire)) = Len(written)
      BY <1>0 DEF WireInv
    <3> QED BY <1>2, <1>5, <3>1, <3>2, <3>3
  <2> QED BY <1>1, <1>2, <2>1, <2>2 DEF WireInv
<1>12. EventsInOrder'
  <2>1. InOrder(handled, TRUE)' /\ InOrder(reported, FALSE)'
    <3>0. /\ handled \in Seq(Event) /\ reported \in Seq(Event)
          /\ InOrder(handled, TRUE) /\ InOrder(reported, FALSE)
      BY <1>0 DEF EventTypes, EventsInOrder
    <3>1. CASE e.decodes /\ handled' = Append(handled, e) /\ reported' = reported
      <4>1. InOrder(handled, TRUE)'
        <5>1. e.decodes = TRUE
          BY <1>4, <3>1 DEF Event
        <5> QED BY <1>0, <1>1, <1>4, <1>5, <1>7, <1>8, <3>0, <3>1, <5>1,
                   InOrderPush DEF InOrder
      <4>2. InOrder(reported, FALSE)'
        BY <1>1, <1>5, <1>8, <3>0, <3>1 DEF InOrder
      <4> QED BY <4>1, <4>2
    <3>2. CASE ~e.decodes /\ reported' = Append(reported, e) /\ handled' = handled
      <4>1. InOrder(reported, FALSE)'
        <5>1. e.decodes = FALSE
          BY <1>4, <3>2 DEF Event
        <5> QED BY <1>0, <1>1, <1>4, <1>5, <1>7, <1>8, <3>0, <3>2, <5>1,
                   InOrderPush DEF InOrder
      <4>2. InOrder(handled, TRUE)'
        BY <1>1, <1>5, <1>8, <3>0, <3>2 DEF InOrder
      <4> QED BY <4>1, <4>2
    <3> QED BY <1>3, <3>1, <3>2
  <2>2. ASSUME NEW k \in 1 .. g + 1
        PROVE  \/ \E i \in 1 .. Len(handled') : handled'[i] = written[k]
               \/ \E i \in 1 .. Len(reported') : reported'[i] = written[k]
    <3>1. CASE k = g + 1
      <4>1. CASE e.decodes /\ handled' = Append(handled, e)
        <5>1. /\ Len(handled') = Len(handled) + 1
              /\ handled'[Len(handled) + 1] = e
          BY <1>0, <1>4, <4>1, PushFacts DEF EventTypes
        <5>2. Len(handled) + 1 \in 1 .. Len(handled')
          BY <1>8, <5>1
        <5> QED BY <1>7, <3>1, <5>1, <5>2
      <4>2. CASE ~e.decodes /\ reported' = Append(reported, e)
        <5>1. /\ Len(reported') = Len(reported) + 1
              /\ reported'[Len(reported) + 1] = e
          BY <1>0, <1>4, <4>2, PushFacts DEF EventTypes
        <5>2. Len(reported) + 1 \in 1 .. Len(reported')
          BY <1>8, <5>1
        <5> QED BY <1>7, <3>1, <5>1, <5>2
      <4> QED BY <1>3, <4>1, <4>2
    <3>2. CASE k \in 1 .. g
      <4>1. \/ \E i \in 1 .. Len(handled) : handled[i] = written[k]
            \/ \E i \in 1 .. Len(reported) : reported[i] = written[k]
        BY <1>0, <3>2 DEF EventsInOrder
      <4>2. CASE \E i \in 1 .. Len(handled) : handled[i] = written[k]
        <5>1. PICK i \in 1 .. Len(handled) : handled[i] = written[k]
          BY <4>2
        <5>2. Len(handled') \in Nat /\ i \in 1 .. Len(handled')
          BY <1>8
        <5> QED BY <1>8, <5>1, <5>2
      <4>3. CASE \E i \in 1 .. Len(reported) : reported[i] = written[k]
        <5>1. PICK i \in 1 .. Len(reported) : reported[i] = written[k]
          BY <4>3
        <5>2. Len(reported') \in Nat /\ i \in 1 .. Len(reported')
          BY <1>8
        <5> QED BY <1>8, <5>1, <5>2
      <4> QED BY <4>1, <4>2, <4>3
    <3> QED BY <1>5, <3>1, <3>2
  <2>3. ASSUME NEW i \in 1 .. m, wire'[i].kind = "event"
        PROVE  /\ Place(i)' \in 1 .. Len(written)
               /\ wire'[i] = Msg(written[Place(i)'])
    <3>1. i \in 0 .. m /\ wire'[i] = wire[i + 1] /\ i + 1 \in 1 .. Len(wire)
      BY <1>2
    <3>2. Place(i)' = Place(i + 1)
      BY <1>9, <3>1
    <3> QED BY <1>0, <2>3, <3>1, <3>2 DEF EventsInOrder
  <2>4. ASSUME NEW k \in (g + 1) + 1 .. Len(written), end # "lost"
        PROVE  \E i \in 1 .. m : wire'[i] = Msg(written[k])
    <3>1. k \in g + 1 .. Len(written) /\ k \in 1 .. Len(written) /\ k # g + 1
      BY <1>5
    <3>2. PICK i \in 1 .. m + 1 : wire[i] = Msg(written[k])
      BY <1>0, <1>2, <2>4, <3>1 DEF EventsInOrder
    <3>3. written[k] \in Event /\ written[k].id = k
      BY <1>0, <3>1 DEF EventTypes
    <3>4. i # 1
      <4>1. SUFFICES ASSUME i = 1 PROVE FALSE
        OBVIOUS
      <4>2. Msg(e).event = e /\ Msg(written[k]).event = written[k]
        BY <1>4, <3>3, ItemFacts
      <4>3. e = written[k]
        BY <1>4, <3>2, <4>1, <4>2
      <4> QED BY <1>7, <3>1, <3>3, <4>3
    <3>5. i - 1 \in 1 .. m /\ (i - 1) + 1 = i
      BY <1>2, <3>4
    <3> QED BY <1>2, <3>2, <3>5
  <2>5. g + 1 <= Len(written)
    BY <1>5, <1>7
  <2> QED BY <1>1, <1>2, <1>8, <2>1, <2>2, <2>3, <2>4, <2>5, ZenonT(40)
          DEF EventsInOrder, Msg
<1>13. TaskInv' /\ EndMeansAll'
  <2>1. ended = 0 /\ ret = "none" /\ ~stopped
    BY <1>0, <1>1 DEF TaskInv
  <2> QED BY <1>1, <2>1 DEF TaskInv, EndMeansAll
<1> QED BY <1>10, <1>11, <1>12, <1>13 DEF EventInv

\* The end of the stream is reported when nothing is left of it.
LEMMA RecvEofStep ==
    ASSUME EventInv, RecvEof
    PROVE  EventInv'
<1>0. EventTypes /\ WireInv /\ TaskInv /\ EventsInOrder
  BY DEF EventInv
<1>1. /\ pc = "recv" /\ EofReady /\ pc' = "on_stream_end"
      /\ ended' = ended + 1
      /\ UNCHANGED <<wire, end, written, handled, reported, stopped, ret>>
  BY DEF RecvEof, writerVars
<1>2. end = "fin" /\ ended = 0 /\ ended' = 1 /\ ~stopped /\ ret = "none"
  BY <1>0, <1>1 DEF TaskInv, EofReady
<1>3. \A i \in 1 .. Len(wire) : wire[i].kind = "torn"
  <2>1. CASE wire = <<>>
    BY <2>1
  <2>2. CASE wire # <<>> /\ Head(wire) = Torn
    <3>1. Len(wire) \in Nat /\ 1 \in 1 .. Len(wire) /\ wire[1].kind = "torn"
      BY <1>0, <2>2, PopFacts, ItemFacts DEF EventTypes
    <3>2. Len(wire) = 1
      BY <1>0, <3>1 DEF WireInv
    <3> QED BY <3>1, <3>2
  <2> QED BY <1>1, <2>1, <2>2 DEF EofReady, ItemReady
<1>4. Given = Len(written)
  <2>1. \A k \in Given + 1 .. Len(written) : FALSE
    <3> SUFFICES ASSUME NEW k \in Given + 1 .. Len(written) PROVE FALSE
      OBVIOUS
    <3>1. PICK i \in 1 .. Len(wire) : wire[i] = Msg(written[k])
      BY <1>0, <1>2 DEF EventsInOrder
    <3>2. written[k] \in Event
      BY <1>0, CountFacts DEF EventTypes
    <3> QED BY <1>3, <3>1, <3>2, ItemFacts
  <2>2. Given <= Len(written)
    BY <1>0 DEF EventsInOrder
  <2> QED BY <1>0, <2>1, <2>2, CountFacts
<1>5. EventTypes' /\ WireInv' /\ EventsInOrder'
  BY <1>1, QuietStep
<1>6. TaskInv' /\ EndMeansAll'
  BY <1>1, <1>2, <1>4 DEF TaskInv, EndMeansAll, Given
<1> QED BY <1>5, <1>6 DEF EventInv

\* The other steps of the writer and of process_event_stream leave what was
\* written and given as it is.
LEMMA OtherSteps ==
    ASSUME EventInv,
           \/ Finish \/ Reset
           \/ HeaderFails \/ RecvFails
           \/ \E r \in {"Ok", "Err"} :
                 HandlerReturns(r) \/ EndReturns(r)
    PROVE  EventInv'
<1>0. TaskInv /\ EndMeansAll
  BY DEF EventInv
<1>1. CASE Finish \/ Reset
  <2>1. /\ end = "open" /\ end' \in {"fin", "reset"}
        /\ UNCHANGED <<wire, written, pc, handled, reported, ended, stopped,
                       ret>>
    BY <1>1 DEF Finish, Reset, calls
  <2>2. EventTypes' /\ WireInv' /\ EventsInOrder'
    BY <2>1, QuietStep
  <2>3. TaskInv' /\ EndMeansAll'
    BY <1>0, <2>1 DEF TaskInv, EndMeansAll
  <2> QED BY <2>2, <2>3 DEF EventInv
<1>2. CASE HeaderFails \/ RecvFails
  <2>1. /\ pc \in {"header", "recv"} /\ pc' = "returned"
        /\ ret' \in {"HeaderError", "ReadError"}
        /\ UNCHANGED <<wire, end, written, handled, reported, ended, stopped>>
    BY <1>2 DEF HeaderFails, RecvFails, Return,
       writerVars, calls
  <2>2. EventTypes' /\ WireInv' /\ EventsInOrder'
    BY <2>1, QuietStep
  <2>3. TaskInv' /\ EndMeansAll'
    BY <1>0, <2>1 DEF TaskInv, EndMeansAll
  <2> QED BY <2>2, <2>3 DEF EventInv
<1>3. ASSUME NEW r \in {"Ok", "Err"}, HandlerReturns(r)
      PROVE  EventInv'
  <2>1. /\ pc \in {"handle_event", "on_error"} /\ pc' \in {"recv", "returned"}
        /\ pc' = "recv" => ret' = ret /\ ~stopped'
        /\ pc' = "returned" => ret' = "HandlerError"
        /\ UNCHANGED <<wire, end, written, handled, reported, ended>>
    BY <1>3 DEF HandlerReturns, Return, writerVars
  <2>2. EventTypes' /\ WireInv' /\ EventsInOrder'
    BY <2>1, QuietStep
  <2>3. TaskInv' /\ EndMeansAll'
    BY <1>0, <2>1 DEF TaskInv, EndMeansAll
  <2> QED BY <2>2, <2>3 DEF EventInv
<1>4. ASSUME NEW r \in {"Ok", "Err"}, EndReturns(r)
      PROVE  EventInv'
  <2>1. /\ pc = "on_stream_end" /\ pc' = "returned"
        /\ ret' = "Ok" => ~stopped'
        /\ UNCHANGED <<wire, end, written, handled, reported, ended>>
    BY <1>4 DEF EndReturns, Return, writerVars
  <2>2. EventTypes' /\ WireInv' /\ EventsInOrder'
    BY <2>1, QuietStep
  <2>3. TaskInv' /\ EndMeansAll'
    BY <1>0, <2>1 DEF TaskInv, EndMeansAll
  <2> QED BY <2>2, <2>3 DEF EventInv
<1> QED BY <1>1, <1>2, <1>3, <1>4

\* The invariant of an event stream: header, events and perhaps a torn frame,
\* in that order, with every event written either given to the handler or
\* still on the wire.
THEOREM EventStreamInvariant == Spec => []EventInv
<1>1. EventInv /\ [Next]_(vars) => EventInv'
  <2> SUFFICES ASSUME EventInv, [Next]_(vars) PROVE EventInv'
    OBVIOUS
  <2>1. CASE UNCHANGED vars
    <3>1. UNCHANGED <<wire, end, written, pc, handled, reported, ended,
                      stopped, ret>>
      BY <2>1 DEF vars
    <3>2. EventTypes' /\ WireInv' /\ EventsInOrder'
      BY <3>1, QuietStep
    <3>3. TaskInv' /\ EndMeansAll'
      BY <3>1 DEF EventInv, TaskInv, EndMeansAll
    <3> QED BY <3>2, <3>3 DEF EventInv
  <2>2. CASE Process
    BY <2>2, ReadHeaderStep, RecvEventStep, RecvEofStep, OtherSteps
       DEF Process
  <2>3. CASE Writer
    BY <2>3, WriteHeaderStep, WriteEventStep, DropStep, LostStep, OtherSteps
       DEF Writer
  <2> QED BY <2>1, <2>2, <2>3 DEF Next, Returned
<1> QED BY EventInit, <1>1, PTL DEF Spec

\* process_event_stream neither loses, repeats nor reorders an event, and
\* gives each to the method it belongs to.
THEOREM EventsDelivered == Spec => []EventsInOrder
<1>1. EventInv => EventsInOrder
  BY DEF EventInv
<1> QED BY <1>1, EventStreamInvariant, PTL

\* on_stream_end, and a return of Ok, mean that the handler was given every
\* event written.
THEOREM EndIsTheEnd == Spec => []EndMeansAll
<1>1. EventInv => EndMeansAll
  BY DEF EventInv
<1> QED BY <1>1, EventStreamInvariant, PTL
=============================================================================
