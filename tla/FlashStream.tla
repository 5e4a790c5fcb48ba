------------------------------ MODULE FlashStream ------------------------------
(***************************************************************************)
(* The streams of RTMFP clients, which publish and play, and the           *)
(* publications of the application.  A stream remembers what it publishes  *)
(* and the listener it was given by pointers into what the Invoker keeps.  *)
(* All of it runs in the server's thread, a message at a time: what can go *)
(* wrong is the order of the messages.                                     *)
(*                                                                         *)
(* A client has one listener of a publication: a second stream of his that *)
(* plays it is given the listener of the first.  The one that ends deletes *)
(* it, and the other's pointer dangles; what it reads there may be what    *)
(* the memory still holds, or a listener made since in the same place.  A  *)
(* process that crashes by it is not followed further.                     *)
(***************************************************************************)
EXTENDS Publication

CONSTANTS
    Names,        \* names of publications
    Streams,      \* streams of the clients, and handles of the application
    PeerOf,       \* the peer of each
    Application,  \* the peer the application publishes with
    Versions,     \* versions of codec settings
    Failing,      \* bound: media whose writers may fail
    MaxStreams,   \* bound: streams and handles at a time
    MaxListeners, \* bound: listeners created
    MaxFailures   \* bound: writers that fail

StreamAssumption ==
    /\ NobodyPublishes \notin {PeerOf[s] : s \in Streams}
    /\ "none" \notin Names
    /\ {MaxStreams, MaxListeners, MaxFailures} \subseteq Nat
    /\ Failing \subseteq Media
    /\ Versions \subseteq Nat \ {0}

VARIABLES
    publications,  \* Invoker's _publications
    streams,       \* the streams that exist, and their pointers
    listenerCount, \* listeners created, by which pointers tell them apart
    failures,      \* counter of the bound
    lent,          \* history: the listeners that were given to a stream besides the first
    strayed        \* history: a dangling pointer was used

vars == <<publications, streams, listenerCount, failures, lent, strayed>>

Idle == [publication |-> "none", playing |-> "none", listener |-> 0]

-----------------------------------------------------------------------------
(* disengage: the stream stops what it publishes, then what it plays       *)

\* The listener a stream points to is there.
ListenerAlive(s) ==
    /\ Listens(publications, PeerOf[s], streams[s].playing)
    /\ publications[streams[s].playing].listeners[PeerOf[s]].id = streams[s].listener

Dangles(s) == streams[s].listener # 0 /\ ~ListenerAlive(s)

\* The names that disengage may read in the listener: its own, or any where it dangles.
NamesRead(s) == IF Dangles(s) THEN Names ELSE {streams[s].playing}

Disengage(s, read) ==
    LET e == streams[s]
        stopped == IF e.publication = "none" THEN publications
                   ELSE Unpublish(publications, PeerOf[s], e.publication)
    IN  IF e.listener = 0 THEN stopped ELSE Unsubscribe(stopped, PeerOf[s], read)

\* Its listener is used, which strays if it dangles.
Uses(s) == strayed' = (strayed \/ Dangles(s))

-----------------------------------------------------------------------------
(* The messages of a client                                                *)

Client(s) == s \in DOMAIN streams /\ PeerOf[s] # Application

CreateStream(s) ==
    /\ s \notin DOMAIN streams /\ Cardinality(DOMAIN streams) < MaxStreams
    /\ PeerOf[s] # Application
    /\ streams' = With(streams, s, Idle)
    /\ UNCHANGED <<publications, listenerCount, failures, lent, strayed>>

\* deleteStream, or the end of the session.
DestroyStream(s, read) ==
    /\ Client(s) /\ read \in NamesRead(s)
    /\ publications' = Disengage(s, read)
    /\ streams' = Restrict(streams, DOMAIN streams \ {s})
    /\ Uses(s)
    /\ UNCHANGED <<listenerCount, failures, lent>>

CloseStream(s, read) ==
    /\ Client(s) /\ read \in NamesRead(s)
    /\ publications' = Disengage(s, read)
    /\ streams' = [streams EXCEPT ![s] = Idle]
    /\ Uses(s)
    /\ UNCHANGED <<listenerCount, failures, lent>>

\* The listener that a stream is given: the one its client has there already, or a
\* new one if the application accepts.
Given(pubs, peer, name, accepted) ==
    IF Listens(pubs, peer, name) THEN pubs[name].listeners[peer].id
    ELSE IF accepted THEN listenerCount + 1 ELSE 0

\* subscribe, and what the stream's pointer is then.
Subscribed(s, free, name, accepted, before) ==
    LET id == Given(free, PeerOf[s], name, accepted)
    IN  /\ id <= MaxListeners
        /\ listenerCount' = IF id > listenerCount THEN id ELSE listenerCount
        /\ lent' = IF Listens(free, PeerOf[s], name) THEN lent \cup {id} ELSE lent
        /\ publications' = Subscribe(free, PeerOf[s], name, NewListener(id), accepted)
        /\ streams' = [streams EXCEPT ![s] =
              IF id = 0 THEN before ELSE [before EXCEPT !.playing = name, !.listener = id]]
        /\ UNCHANGED failures

\* It would play without ending what the stream did before.
PlayOver(s, name, accepted, read) ==
    /\ Client(s) /\ read \in NamesRead(s)
    /\ Subscribed(s, publications, name, accepted, streams[s])
    /\ UNCHANGED strayed

Play(s, name, accepted, read) ==
    /\ Client(s) /\ read \in NamesRead(s)
    /\ Subscribed(s, Disengage(s, read), name, accepted, Idle)
    /\ Uses(s)

\* The stream would believe it publishes whatever the answer.
PublishStreamAnyway(s, name, accepted, read) ==
    LET free == Disengage(s, read)
    IN  /\ Client(s) /\ read \in NamesRead(s)
        /\ publications' = Publish(free, PeerOf[s], name, accepted)
        /\ streams' = [streams EXCEPT ![s] = [Idle EXCEPT !.publication = name]]
        /\ Uses(s)
        /\ UNCHANGED <<listenerCount, failures, lent>>

PublishStream(s, name, accepted, read) ==
    LET free == Disengage(s, read)
    IN  /\ Client(s) /\ read \in NamesRead(s)
        /\ publications' = Publish(free, PeerOf[s], name, accepted)
        /\ streams' = [streams EXCEPT ![s] =
              IF CanPublish(free, name) /\ accepted
              THEN [Idle EXCEPT !.publication = name] ELSE Idle]
        /\ Uses(s)
        /\ UNCHANGED <<listenerCount, failures, lent>>

\* A listener's wishes: receiveAudio or receiveVideo.
Wished(name, p, what, value) ==
    publications' = [publications EXCEPT ![name].listeners[p][what] = value]

Receive(s, what, value) ==
    /\ Client(s)
    /\ streams[s].listener # 0
    /\ \/ ListenerAlive(s) /\ Wished(streams[s].playing, PeerOf[s], what, value)
       \/ Dangles(s) /\ UNCHANGED publications
       \/ /\ Dangles(s)
          /\ \E name \in DOMAIN publications : \E p \in DOMAIN publications[name].listeners :
                Wished(name, p, what, value)
    /\ Uses(s)
    /\ UNCHANGED <<streams, listenerCount, failures, lent>>

-----------------------------------------------------------------------------
(* The media of a client or of the application                             *)

\* What a stream publishes goes on only while its peer is the publisher.
Publishes(s) ==
    /\ s \in DOMAIN streams
    /\ streams[s].publication # "none"
    /\ publications[streams[s].publication].publisher = PeerOf[s]

PushVideoFrame(s, f, lost) ==
    /\ Publishes(s)
    /\ publications' = [publications EXCEPT ![streams[s].publication] = Video(@, f, lost)]
    /\ UNCHANGED <<streams, listenerCount, failures, lent, strayed>>

PushAudioFrame(s, f) ==
    /\ Publishes(s)
    /\ publications' = [publications EXCEPT ![streams[s].publication] = Audio(@, f)]
    /\ UNCHANGED <<streams, listenerCount, failures, lent, strayed>>

PushDataPacket(s) ==
    /\ Publishes(s)
    /\ publications' = [publications EXCEPT ![streams[s].publication] = Data(@)]
    /\ UNCHANGED <<streams, listenerCount, failures, lent, strayed>>

\* A client refuses one of the writers its listener has.
WriterFails(name, p, media, lost) ==
    /\ Listens(publications, p, name)
    /\ media \in publications[name].listeners[p].begun
    /\ failures < MaxFailures
    /\ failures' = failures + 1
    /\ publications' = [publications EXCEPT ![name].listeners[p] = Failed(@, media, lost)]
    /\ UNCHANGED <<streams, listenerCount, lent, strayed>>

-----------------------------------------------------------------------------
(* The application's publications                                          *)

AppPublish(s, name, accepted) ==
    /\ s \notin DOMAIN streams /\ Cardinality(DOMAIN streams) < MaxStreams
    /\ PeerOf[s] = Application
    /\ publications' = Publish(publications, Application, name, accepted)
    /\ streams' = IF CanPublish(publications, name) /\ accepted
                  THEN With(streams, s, [Idle EXCEPT !.publication = name]) ELSE streams
    /\ UNCHANGED <<listenerCount, failures, lent, strayed>>

AppClose(s) ==
    /\ s \in DOMAIN streams
    /\ PeerOf[s] = Application
    /\ publications' = Unpublish(publications, Application, streams[s].publication)
    /\ streams' = Restrict(streams, DOMAIN streams \ {s})
    /\ UNCHANGED <<listenerCount, failures, lent, strayed>>

-----------------------------------------------------------------------------
Init ==
    /\ publications = << >>
    /\ streams = << >>
    /\ listenerCount = 0
    /\ failures = 0
    /\ lent = {}
    /\ strayed = FALSE

Next ==
    \/ \E s \in Streams :
          \/ CreateStream(s) \/ AppClose(s)
          \/ PushDataPacket(s)
          \/ \E f \in VideoFrames(Versions), lost \in BOOLEAN : PushVideoFrame(s, f, lost)
          \/ \E f \in AudioFrames(Versions) : PushAudioFrame(s, f)
          \/ \E what \in {"receiveAudio", "receiveVideo"}, value \in BOOLEAN :
                Receive(s, what, value)
          \/ \E read \in Names \cup {"none"} :
                \/ DestroyStream(s, read) \/ CloseStream(s, read)
                \/ \E name \in Names, accepted \in BOOLEAN :
                      Play(s, name, accepted, read) \/ PublishStream(s, name, accepted, read)
          \/ \E name \in Names, accepted \in BOOLEAN : AppPublish(s, name, accepted)
    \/ \E name \in Names, p \in {PeerOf[s] : s \in Streams}, media \in Failing,
          lost \in {"nothing", "frames", "settings"} : WriterFails(name, p, media, lost)

Spec == Init /\ [][Next]_vars

-----------------------------------------------------------------------------
(* Properties                                                              *)

Listener ==
    [id : 1..MaxListeners, receiveAudio : BOOLEAN,
     receiveVideo : BOOLEAN, firstKeyFrame : BOOLEAN, firstVideo : BOOLEAN,
     firstAudio : BOOLEAN, begun : SUBSET Media,
     told : BOOLEAN, unbroken : BOOLEAN, video : {0} \cup Versions,
     audio : {0} \cup Versions, cut : SUBSET Media, spoiled : BOOLEAN]

\* Every variable keeps its type, and a stream plays or publishes, never both:
\* it disengages before it engages.
TypeOK ==
    /\ DOMAIN publications \subseteq Names
    /\ \A name \in DOMAIN publications :
          LET pub == publications[name] IN
          /\ pub.publisher \in {PeerOf[s] : s \in Streams} \cup {NobodyPublishes}
          /\ pub.firstKeyFrame \in BOOLEAN
          /\ {pub.videoCodec, pub.audioCodec} \subseteq {0} \cup Versions
          /\ \A p \in DOMAIN pub.listeners : pub.listeners[p] \in Listener
    /\ DOMAIN streams \subseteq Streams
    /\ \A s \in DOMAIN streams :
          \/ streams[s] = Idle
          \/ \E name \in Names : streams[s] = [Idle EXCEPT !.publication = name]
          \/ \E name \in Names, id \in 1..MaxListeners :
                streams[s] = [Idle EXCEPT !.playing = name, !.listener = id]
    /\ listenerCount \in 0..MaxListeners
    /\ failures \in 0..MaxFailures
    /\ lent \subseteq 1..listenerCount /\ strayed \in BOOLEAN

\* A stream's pointers are good: what it publishes has its peer for publisher,
\* and the listener is there unless another stream was lent it and ended it.
PointersAlive ==
    \A s \in DOMAIN streams :
        LET e == streams[s] IN
        /\ Dangles(s) => e.listener \in lent \/ strayed
        /\ e.publication # "none" => /\ e.publication \in DOMAIN publications
                                     /\ publications[e.publication].publisher = PeerOf[s]

\* Nothing outlives the streams: a publisher has one stream that will stop it,
\* a listener has one, and no other unless it was lent, and a publication that
\* has neither is gone.
NothingLeftBehind ==
    \A name \in DOMAIN publications :
        LET pub == publications[name] IN
        /\ pub.publisher # NobodyPublishes \/ DOMAIN pub.listeners # {}
        /\ pub.publisher # NobodyPublishes =>
              Cardinality({s \in DOMAIN streams : streams[s].publication = name}) = 1
        /\ \A p \in DOMAIN pub.listeners :
              LET id == pub.listeners[p].id
                  pointing == {s \in DOMAIN streams : streams[s].listener = id}
              IN  pointing # {} /\ (id \notin lent => Cardinality(pointing) = 1)

\* A dangling pointer is only used where a client played a publication by two streams.
StrayedByLent == strayed => lent # {}

\* The pointers between streams, publications and listeners agree both ways, but
\* for those to a listener that two streams of a client share.
PointersSound == PointersAlive /\ NothingLeftBehind /\ StrayedByLent

\* A listener has been told whether the publication has a publisher, whichever
\* of them came first and however they came and went.
ToldOfPublisher ==
    \A name \in DOMAIN publications : \A p \in DOMAIN publications[name].listeners :
        publications[name].listeners[p].told
        <=> publications[name].publisher # NobodyPublishes

\* What is written to a listener can be decoded: a frame that builds on others
\* follows them without a gap from a key frame, and the settings in force come
\* before it, whatever was lost by the publisher, refused or republished
\* meanwhile.  Where the listener's writer failed and lost frames or settings,
\* which it does not ask for again, this holds from the next frame on that a
\* player who has the settings in force can begin with.
Decodable ==
    \A name \in DOMAIN publications : \A p \in DOMAIN publications[name].listeners :
        ~publications[name].listeners[p].spoiled

\* A player is told when there is something to show, and can show what it is sent.
Watchable == ToldOfPublisher /\ Decodable
=============================================================================
