---------------------------- MODULE OutboxFrames ----------------------------
(***************************************************************************)
(* The relay's claim path with frames (pkg/outbox, frame_events.go and     *)
(* publish_framed.go).  Events of one subject and one batch are packed     *)
(* into frames; a message of the wire is a frame or a single event, and    *)
(* its outcome is that of every row in it.  The stream knows a frame by an *)
(* id of the set of its events: what is framed otherwise the next time is  *)
(* another message.                                                        *)
(*                                                                         *)
(* Everything but the publishing is OutboxRelay; its wire and seen, which  *)
(* are of events, stay as they are, and flight and known take their place. *)
(***************************************************************************)
EXTENDS OutboxRelay, SequencesExt

CONSTANTS FrameSubjects, \* the subjects that match the patterns, latest-only ones left out
          Shapes,        \* what the events may be, see shape
          MaxElements, MaxBytes,
          ArrayHeader    \* bytes of a frame beside its elements

ASSUME Framing ==
  /\ FrameSubjects \cap LatestOnly = {}
  /\ MaxElements \in Nat \ {0, 1} /\ MaxBytes \in Nat /\ ArrayHeader \in Nat

VARIABLES shape,   \* the encoded size of each event, and those whose headers keep
                   \* them out of frames
          wiring,  \* relay -> the messages it publishes, in order, once they are framed
          flight,  \* messages given up by a relay that may still arrive
          known,   \* message id -> when the stream stored it, Never at first
          copies   \* message id -> how often the stream stored it

frameVars == <<shape, wiring, flight, known, copies>>
framedVars == <<vars, frameVars>>

-----------------------------------------------------------------------------
(* frameEvents *)

\* frameElement: the headers and the subject admit it, and it fits alone.
Frameable(e) ==
  /\ TopicOf[e] \in FrameSubjects
  /\ e \notin shape.loose
  /\ ArrayHeader + shape.size[e] <= MaxBytes

\* What events take together, and a frame of them.
Size[S \in SUBSET Events] ==
  IF S = {} THEN ArrayHeader ELSE Size[S \ {Max(S)}] + shape.size[Max(S)]
Bytes(m) == Size[ToSet(m)]

\* Variant: the limit is looked at after the frame has grown.
FitsBefore(m, e) == Len(m) <= MaxElements /\ Bytes(m) <= MaxBytes

Fits(m, e) == Len(m) < MaxElements /\ Bytes(m) + shape.size[e] <= MaxBytes

NoFrames == [messages |-> <<>>, open |-> [t \in FrameSubjects |-> 0]]

\* Variant: an event that goes alone leaves the frame of its subject open.
WithOpen(framing, e) ==
  LET i == IF TopicOf[e] \in FrameSubjects THEN framing.open[TopicOf[e]] ELSE 0
  IN CASE ~Frameable(e) -> [framing EXCEPT !.messages = Append(@, <<e>>)]
       [] Frameable(e) /\ i > 0 /\ Fits(framing.messages[i], e) ->
            [framing EXCEPT !.messages[i] = Append(@, e)]
       [] OTHER -> [messages |-> Append(framing.messages, <<e>>),
                    open |-> [framing.open EXCEPT ![TopicOf[e]] = Len(framing.messages) + 1]]

\* Variant: the frame that is full is begun again.
WithFullAgain(framing, e) ==
  LET i == IF TopicOf[e] \in FrameSubjects THEN framing.open[TopicOf[e]] ELSE 0
  IN CASE ~Frameable(e) ->
            [messages |-> Append(framing.messages, <<e>>),
             open |-> [t \in FrameSubjects |-> IF t = TopicOf[e] THEN 0 ELSE framing.open[t]]]
       [] Frameable(e) /\ i > 0 ->
            [framing EXCEPT !.messages[i] = IF Fits(@, e) THEN Append(@, e) ELSE <<e>>]
       [] OTHER -> [messages |-> Append(framing.messages, <<e>>),
                    open |-> [framing.open EXCEPT ![TopicOf[e]] = Len(framing.messages) + 1]]

\* The next event of the batch joins the open frame of its subject, begins another
\* one, or goes alone and closes it.  open has the place of that frame.
With(framing, e) ==
  LET i == IF TopicOf[e] \in FrameSubjects THEN framing.open[TopicOf[e]] ELSE 0
  IN CASE ~Frameable(e) ->
            [messages |-> Append(framing.messages, <<e>>),
             open |-> [t \in FrameSubjects |-> IF t = TopicOf[e] THEN 0 ELSE framing.open[t]]]
       [] Frameable(e) /\ i > 0 /\ Fits(framing.messages[i], e) ->
            [messages |-> [framing.messages EXCEPT ![i] = Append(@, e)], open |-> framing.open]
       [] OTHER -> [messages |-> Append(framing.messages, <<e>>),
                    open |-> [framing.open EXCEPT ![TopicOf[e]] = Len(framing.messages) + 1]]

\* The loop over the events of a batch, in their order.
Framed[S \in SUBSET Events] ==
  IF S = {} THEN NoFrames ELSE With(Framed[S \ {Max(S)}], Max(S))
FrameEvents(S) == Framed[S].messages

\* Events to publish: neither superseded nor refused by the signer.
Pending(r) == {e \in Batch(r) : relay[r].outcome[e] = "none"}

\* publishBatched, before it publishes.
FrameBatch(r) ==
  /\ relay[r].step = "publish" /\ wiring[r] = <<>> /\ Pending(r) # {}
  /\ wiring' = [wiring EXCEPT ![r] = FrameEvents(Pending(r))]
  /\ UNCHANGED <<vars, shape, flight, known, copies>>

-----------------------------------------------------------------------------
(* Publish.  The outcomes come in any order. *)

\* Variant: a frame has the id of its first event.
MsgIDOfFirst(m) == {m[1]}

\* WireHeaders: of a single event its own id, of a frame a hash of the sorted ids.
MsgID(m) == ToSet(m)

\* Variant: every publish carries an id of its own.
KnowsNothing(m) == FALSE

Knows(m) == known[MsgID(m)] # Never /\ now < known[MsgID(m)] + Duplicates

StoreMessage(m) ==
  IF Knows(m) THEN UNCHANGED <<stored, known, copies>>
  ELSE /\ known' = [known EXCEPT ![MsgID(m)] = now]
       /\ copies' = [copies EXCEPT ![MsgID(m)] = @ + 1]
       /\ stored' = [e \in Events |-> stored[e] + IF e \in ToSet(m) THEN 1 ELSE 0]
NotStored == UNCHANGED <<stored, known, copies>>

Unsettled(r) == {m \in ToSet(wiring[r]) : ToSet(m) \subseteq Pending(r)}

\* Variant: only the row the frame starts with gets its error.
SpreadToFirst(r, m, o) ==
  relay' = [relay EXCEPT ![r].outcome =
              [e \in Batch(r) |-> IF e = m[1] THEN o ELSE IF e \in ToSet(m) THEN "ok" ELSE @[e]]]

\* publishFramed: the outcome of a message is that of its rows.
Spread(r, m, o) ==
  relay' = [relay EXCEPT ![r].outcome =
              [e \in Batch(r) |-> IF e \in ToSet(m) THEN o ELSE @[e]]]

\* A refusal, or silence, counts for every row.
Blame(m, kind) ==
  blame' = [e \in Events |-> IF e \in ToSet(m) THEN [blame[e] EXCEPT ![kind] = @ + 1] ELSE blame[e]]

Rest == UNCHANGED <<now, row, up, paused, reclaimed, wire, seen, superseded, shape, wiring>>

PublishMessage(r, m) ==
  /\ StoreMessage(m)
  /\ Spread(r, m, "ok")
  /\ UNCHANGED <<blame, faults, flight>> /\ Rest

TransportFails(r, m) ==
  /\ Fault
  /\ StoreMessage(m) \/ NotStored
  /\ Spread(r, m, "transport")
  /\ UNCHANGED <<blame, flight>> /\ Rest

RefusedMessage(r, m) ==
  /\ Fault
  /\ Spread(r, m, "refused") /\ Blame(m, "refused")
  /\ UNCHANGED flight /\ NotStored /\ Rest

UnansweredMessage(r, m) ==
  /\ Fault
  /\ \/ StoreMessage(m) /\ UNCHANGED flight
     \/ flight' = flight \cup {m} /\ NotStored
  /\ Spread(r, m, "timeout") /\ Blame(m, "silent")
  /\ Rest

ArrivesLate(m) ==
  /\ StoreMessage(m) \/ NotStored
  /\ flight' = flight \ {m}
  /\ UNCHANGED <<relay, blame, faults>> /\ Rest

-----------------------------------------------------------------------------
(* The rest of the relay *)

\* A batch that is over leaves no messages.
Rewired == wiring' = [r \in Relays |-> IF relay'[r].step = "publish" THEN wiring[r] ELSE <<>>]

SignerRefuses(r, e) == wiring[r] = <<>> /\ Refused(r, e)

Unchanged(r) ==
  \/ Process(r) \/ Reclaim(r) \/ Claim(r) \/ ClaimFails(r) \/ Published(r)
  \/ \E e \in Batch(r) : SettleFailure(r, e) \/ SignerRefuses(r, e)
  \/ SettleSuccesses(r)
  \/ Pause(r) \/ Resume(r) \/ Start(r)
  \/ \E S \in SUBSET Events : Cleanup(r, S)

\* The process ends; what it had not heard of may be under way.
Ends(r) ==
  /\ Die(r) /\ wire' = wire
  /\ \E sent \in SUBSET Unsettled(r) : flight' = flight \cup sent
  /\ Rewired /\ UNCHANGED <<shape, known, copies>>

Settled == UNCHANGED <<shape, flight, known, copies>> /\ Rewired

FrameInit ==
  /\ Init
  /\ shape \in Shapes
  /\ wiring = [r \in Relays |-> <<>>]
  /\ flight = {}
  /\ known = [S \in SUBSET Events |-> Never]
  /\ copies = [S \in SUBSET Events |-> 0]

FrameNext ==
  \/ Tick /\ (Punctual => flight = {}) /\ Settled
  \/ \E e \in Events : Save(e) /\ Settled
  \/ \E S \in SUBSET Events : RequeueParked(S) /\ Settled
  \/ \E m \in flight : ArrivesLate(m)
  \/ \E r \in Relays :
       \/ FrameBatch(r)
       \/ \E m \in Unsettled(r) :
            \/ PublishMessage(r, m) \/ TransportFails(r, m)
            \/ RefusedMessage(r, m) \/ UnansweredMessage(r, m)
       \/ Unchanged(r) /\ Settled
       \/ Ends(r)

FrameSpec == FrameInit /\ [][FrameNext]_framedVars

-----------------------------------------------------------------------------
(* Properties *)

Sent(r) == UNION {ToSet(m) : m \in ToSet(wiring[r])}
Place(r, e) == CHOOSE i \in DOMAIN wiring[r] : e \in ToSet(wiring[r][i])

\* The messages of a batch are its events, each of them once and in one message (a row
\* whose outcome nobody knows would be closed).
EachInOneMessage(r) ==
  LET w == wiring[r]
  IN /\ \A i \in DOMAIN w : IsInjective(w[i])
     /\ \A i, k \in DOMAIN w : i # k => ToSet(w[i]) \cap ToSet(w[k]) = {}
     /\ Pending(r) \subseteq Sent(r) /\ Sent(r) \subseteq Batch(r)

\* README, Frames: "the order inside a subject is kept", whichever events go alone and
\* wherever a frame is full: no event is left out, no message overtakes one of its
\* subject, nor does an element within a frame.
FramesKeepOrder ==
  \A r \in Relays : wiring[r] # <<>> =>
    /\ EachInOneMessage(r)
    /\ \A d, e \in Sent(r) : TopicOf[d] = TopicOf[e] /\ d < e =>
         LET m == wiring[r][Place(r, d)]
         IN IF e \in ToSet(m)
            THEN \E i, j \in DOMAIN m : i < j /\ m[i] = d /\ m[j] = e
            ELSE Place(r, d) < Place(r, e)

\* A frame is one the consumers unpack and the server takes: of one subject, of events
\* that may be framed, within both limits (decode.go, unpack.go refuse another subject).
FramesFit ==
  \A m \in UNION {ToSet(wiring[q]) : q \in Relays} : Len(m) > 1 =>
    /\ \A e \in ToSet(m) : TopicOf[e] = TopicOf[m[1]] /\ Frameable(e)
    /\ Len(m) <= MaxElements /\ Bytes(m) <= MaxBytes

\* README, Frames: "a retry of the same rows is deduplicated by the stream": after one
\* failure no message is there twice, though its rows may be in another frame as well.
SameRowsOnce == faults <= 1 => \A S \in SUBSET Events : copies[S] <= 1
=============================================================================
