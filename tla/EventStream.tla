----------------------------- MODULE EventStream -----------------------------
(***************************************************************************)
(* The event streams of wifi/web_event_stream.cpp: two channels of         *)
(* numbered frames, each with a ring of the latest and at most one client, *)
(* and the replay a client asks for when it comes back.                    *)
(*                                                                         *)
(* A frame is its number: its text is left out.  The library publishes,    *)
(* connects and replays from nowhere yet, so every order of calls is       *)
(* possible, and a client may ask for a replay after any number.           *)
(***************************************************************************)
EXTENDS Integers

CONSTANTS
    Channels,       \* WebEventStreamChannel
    Clients,        \* the send callbacks a channel may be given
    NoClient,
    Capacity,       \* kWebEventStreamBufferCapacity
    SeqSpan,        \* sequence numbers are counted modulo this (2^32 in the code)
    MaxEvents       \* bound on the events published in one life of a channel

ASSUME StreamAssumption ==
    /\ Capacity \in Nat \ {0} /\ MaxEvents \in Nat
    /\ SeqSpan \in Nat \ {0} /\ Capacity < SeqSpan
    /\ NoClient \notin Clients

VARIABLES
    nextSeq, head, count, buffer,   \* WebEventStreamChannelState, by channel
    client,                         \* its client, or NoClient
    total,      \* history: the events published since the stream was initialised
    sent        \* history: what the last call gave to whom, and what it told

ringVars == <<nextSeq, head, count, buffer, total>>
streamVars == <<ringVars, client, sent>>

Slots == 0..(Capacity - 1)
Seqs == 0..(SeqSpan - 1)

\* channelFrameAt
FrameAt(c, offset) == buffer[c][(head[c] + offset) % Capacity]
Offsets(c) == 0..(count[c] - 1)
Oldest(c) == IF count[c] = 0 THEN 0 ELSE FrameAt(c, 0)
Latest(c) == IF count[c] = 0 THEN 0 ELSE FrameAt(c, count[c] - 1)

Quiet == [to |-> NoClient, frames |-> {}, after |-> 0, recover |-> FALSE, latest |-> 0,
          on |-> {}]

----------------------------------------------------------------------------
\* Mutated form: a full ring keeps its head and overwrites one slot for ever.
AppendFrame_KeepsHead(c) ==
    LET full == count[c] = Capacity
        kept == IF full THEN count[c] - 1 ELSE count[c]
    IN  /\ head' = head
        /\ buffer' = [buffer EXCEPT ![c][(head[c] + kept) % Capacity] = nextSeq[c]]
        /\ count' = [count EXCEPT ![c] = kept + 1]
        /\ nextSeq' = [nextSeq EXCEPT ![c] = (@ + 1) % SeqSpan]

\* appendFrame
AppendFrame(c) ==
    LET full == count[c] = Capacity
        first == IF full THEN (head[c] + 1) % Capacity ELSE head[c]
        kept == IF full THEN count[c] - 1 ELSE count[c]
    IN  /\ head' = [head EXCEPT ![c] = first]
        /\ buffer' = [buffer EXCEPT ![c][(first + kept) % Capacity] = nextSeq[c]]
        /\ count' = [count EXCEPT ![c] = kept + 1]
        /\ nextSeq' = [nextSeq EXCEPT ![c] = (@ + 1) % SeqSpan]

\* webEventStreamPublishInput, webEventStreamPublishStatus: the frame is kept
\* whether or not anyone is connected.
Publish(c) ==
    /\ total[c] < MaxEvents
    /\ AppendFrame(c)
    /\ total' = [total EXCEPT ![c] = @ + 1]
    /\ sent' = IF client[c] = NoClient THEN Quiet
               ELSE [Quiet EXCEPT !.to = client[c], !.frames = {nextSeq[c]}]
    /\ UNCHANGED client

\* A frame that does not fit its buffer takes no number.  The payload is printed
\* from the buffer it is printed to, so any event may turn out too long.
PublishFails == sent' = Quiet /\ UNCHANGED <<ringVars, client>>

\* webEventStreamConnect: the channel's client, if any, is replaced.
Connect(c, k) ==
    /\ client' = [client EXCEPT ![c] = k]
    /\ sent' = Quiet
    /\ UNCHANGED ringVars

Disconnect(c) ==
    /\ client' = [client EXCEPT ![c] = NoClient]
    /\ sent' = Quiet
    /\ UNCHANGED ringVars

\* Mutated form: a gap of one frame is not noticed.
MissedSome_OffByOne(c, after) == (after + 2) % SeqSpan < Oldest(c)

MissedSome(c, after) == (after + 1) % SeqSpan < Oldest(c)

\* webEventStreamReplaySince; frames are sent in the order of their offsets.
ReplaySince(c, k, after) ==
    /\ LET recover == count[c] # 0 /\ MissedSome(c, after) IN
       sent' = [to |-> k, after |-> after, recover |-> recover, latest |-> Latest(c), on |-> {c},
                frames |-> IF recover THEN {}
                           ELSE {FrameAt(c, i) : i \in {i \in Offsets(c) : FrameAt(c, i) > after}}]
    /\ UNCHANGED <<ringVars, client>>

\* webEventStreamInit
Reset ==
    /\ nextSeq' = [c \in Channels |-> 1 % SeqSpan]
    /\ head' = [c \in Channels |-> 0] /\ count' = [c \in Channels |-> 0]
    /\ buffer' = [c \in Channels |-> [i \in Slots |-> 0]]
    /\ client' = [c \in Channels |-> NoClient]
    /\ total' = [c \in Channels |-> 0]
    /\ sent' = Quiet

StreamInit ==
    /\ nextSeq = [c \in Channels |-> 1 % SeqSpan]
    /\ head = [c \in Channels |-> 0] /\ count = [c \in Channels |-> 0]
    /\ buffer = [c \in Channels |-> [i \in Slots |-> 0]]
    /\ client = [c \in Channels |-> NoClient]
    /\ total = [c \in Channels |-> 0]
    /\ sent = Quiet

StreamNext ==
    \/ \E c \in Channels : Publish(c) \/ Disconnect(c)
    \/ \E c \in Channels, k \in Clients : Connect(c, k)
    \/ \E c \in Channels, k \in Clients, after \in Seqs : ReplaySince(c, k, after)
    \/ PublishFails \/ Reset

StreamSpec == StreamInit /\ [][StreamNext]_streamVars

----------------------------------------------------------------------------
(* Properties.                                                             *)

TypeOK ==
    /\ nextSeq \in [Channels -> Seqs]
    /\ head \in [Channels -> Slots]
    /\ count \in [Channels -> 0..Capacity]
    /\ buffer \in [Channels -> [Slots -> Seqs]]
    /\ client \in [Channels -> Clients \cup {NoClient}]
    /\ total \in [Channels -> Nat]

\* API.md, recovery contract: each channel keeps the latest frames in order and
\* drops the oldest.  Across every overflow of the ring and every wrap of the
\* numbers, slot by slot, the ring holds the last events published, as many as
\* fit, and each has the number of its place.
RingHoldsLatest ==
    \A c \in Channels :
        /\ count[c] = IF total[c] < Capacity THEN total[c] ELSE Capacity
        /\ nextSeq[c] = (total[c] + 1) % SeqSpan
        /\ \A i \in Offsets(c) : FrameAt(c, i) = (total[c] - count[c] + 1 + i) % SeqSpan

\* API.md: if a replay detects a sequence gap, clients fetch a snapshot.  A
\* replay after a number of this life is answered by every frame that followed
\* it or by the demand for a snapshot, and by the demand only when a frame that
\* followed it is gone.  So it is until the numbers wrap; already after the last
\* number before the wrap a snapshot is asked for where nothing is missing.
ReplayIsExact ==
    \A c \in sent.on :
        total[c] < SeqSpan /\ sent.after <= total[c] /\ sent.after + 1 < SeqSpan =>
            /\ sent.latest = total[c]
            /\ ~sent.recover => sent.frames = (sent.after + 1)..total[c]
            /\ sent.recover => sent.after < total[c] - count[c]

=============================================================================
