------------------------------ MODULE Publication ------------------------------
(***************************************************************************)
(* Publications and their listeners, as Invoker keeps them: one record for *)
(* each name in use.  Every operation is what it makes of the records.     *)
(*                                                                         *)
(* A video frame is a key frame, one that builds on the frames before it   *)
(* ("inter"), or a key frame with the codec's settings, of which only the  *)
(* version is kept; an audio frame is ordinary or settings.  Statistics,   *)
(* flushes and times are left out.                                         *)
(***************************************************************************)
EXTENDS Integers, FiniteSets, Functions

NobodyPublishes == "nobody"

VideoFrames(versions) ==
    [kind : {"key", "inter"}, version : {0}] \cup [kind : {"settings"}, version : versions]

AudioFrames(versions) ==
    [kind : {"sound"}, version : {0}] \cup [kind : {"settings"}, version : versions]

IsKeyFrame(f) == f.kind \in {"key", "settings"}
IsCodecInfos(f) == f.kind = "settings"

-----------------------------------------------------------------------------
(* Listener                                                                *)

\* 'unbroken', 'video', 'audio', 'cut' and 'spoiled' are history: the frames published
\* up to now were written to it without a gap from a key frame on; the settings
\* last written to it; the media that lost something with a writer that failed, and
\* that no frame has set right since; a frame was written that it cannot decode,
\* of a medium that is not cut.
NewListener(id) ==
    [id |-> id, receiveAudio |-> TRUE, receiveVideo |-> TRUE,
     firstKeyFrame |-> FALSE, firstVideo |-> TRUE, firstAudio |-> TRUE,
     begun |-> {}, told |-> FALSE,
     unbroken |-> FALSE, video |-> 0, audio |-> 0, cut |-> {}, spoiled |-> FALSE]

Media == {"audio", "video", "data"}

\* init, before the first write: writers for all media, each told to begin.
Ready(l) == [l EXCEPT !.begun = IF @ = {} THEN Media ELSE @]

StartPublishing(l) ==
    [l EXCEPT !.told = TRUE, !.firstKeyFrame = FALSE,
              !.unbroken = FALSE, !.video = 0, !.audio = 0, !.cut = {}]

StopPublishing(l) == [l EXCEPT !.told = FALSE]

\* A write on a writer that has not begun, or has failed since, makes all begin.
WrittenOn(l, media) == [l EXCEPT !.begun = IF media \in @ THEN @ ELSE Media]

\* A writer fails with what it has not delivered: nothing, frames, or the settings
\* too.  The listener is not told: it learns of it by its next write.
Failed(l, media, lost) ==
    LET less == [l EXCEPT !.begun = @ \ {media}]
    IN  IF lost = "nothing" \/ media = "data" THEN less
        ELSE IF media = "video"
        THEN [less EXCEPT !.cut = @ \cup {media}, !.unbroken = FALSE,
                          !.video = IF lost = "settings" THEN 0 ELSE @]
        ELSE [less EXCEPT !.cut = @ \cup {media}, !.audio = IF lost = "settings" THEN 0 ELSE @]

\* What a listener knows of the settings once it is given the frame: those in
\* force go first if it is its first frame.
Known(f, settings, first, known) ==
    IF IsCodecInfos(f) THEN f.version
    ELSE IF first /\ settings # 0 THEN settings ELSE known

VideoWritten(l, f, settings) ==
    LET known == Known(f, settings, l.firstVideo, l.video)
        good == known = settings /\ (l.unbroken \/ IsKeyFrame(f))
    IN  [WrittenOn(l, "video") EXCEPT
            !.firstKeyFrame = TRUE, !.firstVideo = FALSE, !.video = known,
            !.unbroken = @ \/ IsKeyFrame(f),
            !.cut = IF good THEN @ \ {"video"} ELSE @,
            !.spoiled = @ \/ (~good /\ "video" \notin l.cut)]

\* pushVideoPacket would forget to ask for the settings again.
PushVideoDeaf(l, f, settings) ==
    IF ~l.receiveVideo
    THEN [l EXCEPT !.firstKeyFrame = FALSE, !.unbroken = FALSE]
    ELSE IF ~l.firstKeyFrame /\ ~IsKeyFrame(f)
    THEN [Ready(l) EXCEPT !.unbroken = FALSE]
    ELSE VideoWritten(l, f, settings)

\* pushVideoPacket: nothing until a key frame, and the settings before the
\* first frame.  A writer that failed makes it wait for neither again.
PushVideo(l, f, settings) ==
    IF ~l.receiveVideo
    THEN [l EXCEPT !.firstKeyFrame = FALSE, !.firstVideo = TRUE, !.unbroken = FALSE]
    ELSE IF ~l.firstKeyFrame /\ ~IsKeyFrame(f)
    THEN [Ready(l) EXCEPT !.unbroken = FALSE]
    ELSE VideoWritten(l, f, settings)

\* pushAudioPacket
PushAudio(l, f, settings) ==
    LET known == Known(f, settings, l.firstAudio, l.audio)
    IN  IF ~l.receiveAudio
        THEN [l EXCEPT !.firstAudio = TRUE]
        ELSE [WrittenOn(l, "audio") EXCEPT
                !.firstAudio = FALSE, !.audio = known,
                !.cut = IF known = settings THEN @ \ {"audio"} ELSE @,
                !.spoiled = @ \/ (known # settings /\ "audio" \notin l.cut)]

\* pushDataPacket
PushData(l) == WrittenOn(l, "data")

-----------------------------------------------------------------------------
(* Publication                                                             *)

NewPublication ==
    [publisher |-> NobodyPublishes, firstKeyFrame |-> FALSE,
     videoCodec |-> 0, audioCodec |-> 0, listeners |-> << >>]

\* start, once the application has accepted.
Start(pub, peer) ==
    [pub EXCEPT !.publisher = peer, !.firstKeyFrame = FALSE,
                !.listeners = [p \in DOMAIN pub.listeners |-> StartPublishing(pub.listeners[p])]]

Stop(pub) ==
    [pub EXCEPT !.publisher = NobodyPublishes, !.videoCodec = 0, !.audioCodec = 0,
                !.listeners = [p \in DOMAIN pub.listeners |-> StopPublishing(pub.listeners[p])]]

\* pushVideo: after a loss nothing goes before the next key frame.
Video(pub, f, lost) ==
    LET going == (pub.firstKeyFrame /\ ~lost) \/ IsKeyFrame(f)
        settings == IF IsCodecInfos(f) THEN f.version ELSE pub.videoCodec
        Missed(l) == [l EXCEPT !.unbroken = FALSE]
        Pushed(l) == PushVideo(IF lost THEN Missed(l) ELSE l, f, settings)
    IN  [pub EXCEPT !.firstKeyFrame = going, !.videoCodec = settings,
                    !.listeners = [p \in DOMAIN pub.listeners |->
                        IF going THEN Pushed(pub.listeners[p]) ELSE Missed(pub.listeners[p])]]

\* pushAudio
Audio(pub, f) ==
    LET settings == IF IsCodecInfos(f) THEN f.version ELSE pub.audioCodec
    IN  [pub EXCEPT !.audioCodec = settings,
                    !.listeners = [p \in DOMAIN pub.listeners |-> PushAudio(pub.listeners[p], f, settings)]]

\* pushData
Data(pub) == [pub EXCEPT !.listeners = [p \in DOMAIN pub.listeners |-> PushData(pub.listeners[p])]]

-----------------------------------------------------------------------------
(* Invoker: the publications by name                                       *)

\* A table with an entry more, or another under the key.
With(table, key, entry) ==
    [k \in DOMAIN table \cup {key} |-> IF k = key THEN entry ELSE table[k]]

Emplaced(pubs, name) == IF name \in DOMAIN pubs THEN pubs ELSE With(pubs, name, NewPublication)

\* A publication that nobody publishes or listens to is erased.
Kept(pubs, name) ==
    IF pubs[name].publisher = NobodyPublishes /\ DOMAIN pubs[name].listeners = {}
    THEN Restrict(pubs, DOMAIN pubs \ {name}) ELSE pubs

CanPublish(pubs, name) ==
    name \in DOMAIN pubs => pubs[name].publisher = NobodyPublishes

Publish(pubs, peer, name, accepted) ==
    LET all == Emplaced(pubs, name)
    IN  IF CanPublish(pubs, name) /\ accepted
        THEN [all EXCEPT ![name] = Start(@, peer)] ELSE Kept(all, name)

Unpublish(pubs, peer, name) ==
    IF name \notin DOMAIN pubs THEN pubs
    ELSE Kept(IF pubs[name].publisher = peer
              THEN [pubs EXCEPT ![name] = Stop(@)] ELSE pubs, name)

AddListener(pub, peer, l) ==
    [pub EXCEPT !.listeners =
        With(pub.listeners, peer, IF pub.publisher = NobodyPublishes THEN l ELSE StartPublishing(l))]

RemoveListener(pub, peer) ==
    [pub EXCEPT !.listeners = Restrict(pub.listeners, DOMAIN pub.listeners \ {peer})]

Listens(pubs, peer, name) == name \in DOMAIN pubs /\ peer \in DOMAIN pubs[name].listeners

\* subscribe: a peer that listens already keeps its listener.
Subscribe(pubs, peer, name, l, accepted) ==
    LET all == Emplaced(pubs, name)
    IN  IF Listens(pubs, peer, name) THEN pubs
        ELSE IF accepted THEN [all EXCEPT ![name] = AddListener(@, peer, l)]
        ELSE Kept(all, name)

Unsubscribe(pubs, peer, name) ==
    IF name \notin DOMAIN pubs THEN pubs
    ELSE Kept([pubs EXCEPT ![name] = RemoveListener(@, peer)], name)

=============================================================================
