------------------------------- MODULE MCParts -------------------------------
(* The components that share nothing with one another, each checked by itself in *)
(* one run: in a behaviour, one part moves and the others stay as they began.     *)
EXTENDS Integers, Sequences

CONSTANT Parts \* the parts that a run checks
VARIABLE part  \* the one that moves

VARIABLES cookies, attempts, computing, peers, table, sessions, decoding
handshakeVars == <<cookies, attempts, computing, peers, table, sessions, decoding>>
HS == INSTANCE RTMFPHandshake WITH
    Tags <- {"t1"}, PeerIds <- {"p1"}, Addresses <- {"a1", "a2"}, NoId <- "none", IdLimit <- 4,
    Life <- 1, DeathVisits <- 1, MaxCookies <- 2, MaxDecoding <- 1

VARIABLES writers, map, lastId, flows, group, connected, peerWriter, failed, died, timesFailed,
          keepalives, silence, away, farewells, closedByApp
sessionVars == <<writers, map, lastId, flows, group, connected, peerWriter, failed, died, timesFailed,
                 keepalives, silence, away, farewells, closedByApp>>
RS == INSTANCE RTMFPSession WITH
    Kinds <- {"main", "group"}, FailSignals <- 2, Keepalives <- 1, MaxWriters <- 2, MaxIds <- 3

VARIABLES process, queue, thread, wakeUpType, stopping, signal, flushing, disk, cut, resisting,
          calls, done, broken, lost, spared, since
databaseVars == <<process, queue, thread, wakeUpType, stopping, signal, flushing, disk, cut, resisting,
                  calls, done, broken, lost, spared, since>>
DB == INSTANCE Database WITH
    failed <- broken, torn <- cut, Paths <- {"a", "a/b", "c"}, Root <- "root", MaxCalls <- 2,
    Under <- [p \in {"root", "a", "a/b", "c"} |->
                 CASE p = "root" -> {"a", "a/b", "c"} [] p = "a" -> {"a/b"} [] OTHER -> {}]

VARIABLES groups, memberOf, joined, leaving, told, abandoned, crashed
groupVars == <<groups, memberOf, joined, leaving, told, abandoned, crashed>>
PG == INSTANCE PeerGroup WITH
    Clients <- {1, 3}, Virtual <- {2, 4}, Groups <- {"g", "h"}, Flows <- {1}, Neighbours <- 2, MaxOpen <- 2

VARIABLES relays, byPeer, sockets, relayable, turns, alive, created, corrupted
relayVars == <<relays, byPeer, sockets, relayable, turns, alive, created, corrupted>>
RL == INSTANCE RelayServer WITH
    Peers <- {"p1", "p2", "p3"}, Addresses <- {"a", "b", "c"}, LastPort <- 2, MaxRelays <- 2

VARIABLES tcp, met, sendingRefs, receivingRefs, inbox, partial, connections, stopped, miscounted, heard
linkVars == <<tcp, met, sendingRefs, receivingRefs, inbox, partial, connections, stopped, miscounted, heard>>
SL == INSTANCE ServerLinks WITH
    Links <- {"l"}, Handlers <- {"h"}, MaxSent <- 2

VARIABLES written, sender, unsized, wire, available, fresh, read, deciphered, ahead, last, count,
          shared, back
messageVars == <<written, sender, unsized, wire, available, fresh, read, deciphered, ahead, last, count,
                 shared, back>>
RM == INSTANCE RTMPMessages WITH
    Channels <- {3, 4}, MediaTypes <- {"video"}, Sizes <- {1, 5}, MaxTime <- 1, MaxMessages <- 2

VARIABLES publications, streams, listenerCount, failures, lent, strayed
streamVars == <<publications, streams, listenerCount, failures, lent, strayed>>
FS == INSTANCE FlashStream WITH
    Names <- {"n"}, Streams <- {"f1", "f2", "app"},
    PeerOf <- [f1 |-> "f", f2 |-> "f", app |-> "application"], Application <- "application",
    Versions <- {1}, Failing <- {"video"}, MaxStreams <- 2, MaxListeners <- 2, MaxFailures <- 1

VARIABLES requests, waiting, segments, decodings, jobs, handed, packets, buffer, parsed, peer, isWS,
          ended, disconnecting, handled
httpVars == <<requests, waiting, segments, decodings, jobs, handed, packets, buffer, parsed, peer, isWS,
              ended, disconnecting, handled>>
HT == INSTANCE HTTPSession WITH
    wire <- segments, died <- ended, Paths <- {"a", "b"}, Kinds <- {"file", "live", "bad", "upgrade"},
    Frames <- {"text", "close"}, MaxRequests <- 2

VARIABLES args, w, seen
dataVars == <<args, w, seen>>
AD == INSTANCE AMFData WITH
    Strings <- {"x", "a"}, Numbers <- {1, 5}, MaxInteger <- 3, MaxArgs <- 2

VARIABLES d, asked, exact, steps
dateVars == <<d, asked, exact, steps>>
DaysFrom1970 == {-25568, -366, -1, 0, 59, 104, 789, 1095}
DT == INSTANCE Dates WITH
    Hours <- 3, Years <- {1, 1972}, Months <- {2, 12}, DaysSet <- {1, 29}, Nows <- {605},
    Times <- {6 * day + clock : day \in DaysFrom1970, clock \in {0, 5}}, Offsets <- {1000, -1000, 2},
    Zone <- 2, Types <- <<[offset |-> 2, isDST |-> FALSE], [offset |-> 4, isDST |-> TRUE]>>,
    Entries <- <<<<600, 2>>, <<660, 1>>, <<3000, 2>>, <<3120, 3>>, <<3240, 1>>>>,
    FreshDays <- FALSE, MaxSteps <- 2

VARIABLES date, format, shown, text, readDate
textVars == <<date, format, shown, text, readDate>>
DateOf(year, month, day, hour, milli, offset) ==
    [year |-> year, month |-> month, day |-> day, week |-> day % 7, hour |-> hour, minute |-> 30, second |-> 7,
     milli |-> milli, offset |-> offset]
DX == INSTANCE DateText WITH
    read <- readDate,
    Dates <- {DateOf(1970, 1, 31, 0, 0, 1000), DateOf(2005, 5, 1, 9, 7, -90), DateOf(2069, 12, 10, 23, 120, 60),
              DateOf(1999, 9, 28, 12, 999, 120)}

VARIABLES given, out
jsonVars == <<given, out>>
JD == INSTANCE JSONData WITH Strings <- {"x"}, Numbers <- {1}, MaxArgs <- 2

VARIABLES sent, xml
xmlVars == <<sent, xml>>
XD == INSTANCE XMLData WITH Texts <- {"5"}, MaxArgs <- 2

VARIABLES address, unresolved
addressVars == <<address, unresolved>>
WordPairs == {<<0, 0>>, <<1, 1>>, <<1, 0>>}
AR == INSTANCE Addresses WITH
    failed <- unresolved, HostsV4 <- {<<10, 0, 0, 255>>}, Interfaces <- {2}, Ports <- {80, 65535},
    HostsV6 <- {a \o b \o e \o f : a, b, f \in WordPairs, e \in {<<0, 0>>, <<1, 0>>}}
               \cup {<<0, 0, 0, 0, 0, 65535, 258, 3>>, <<65152, 0, 0, 0, 0, 0, 0, 18>>},
    Names <- [n |-> <<[family |-> "IPv6", words |-> <<1, 0, 0, 0, 0, 0, 1, 1>>, scope |-> 0],
                      [family |-> "IPv4", words |-> <<10, 0, 0, 255>>, scope |-> 0]>>,
              e |-> <<>>],
    Services <- [http |-> 80]

VARIABLES frame, rows, counter, torn, framesWritten
mediaVars == <<frame, rows, counter, torn, framesWritten>>
MP == INSTANCE MediaContainer WITH
    written <- framesWritten, UnitSizes <- {1, 149, 152, 153, 155, 181, 336, 600},
    AudioSizes <- {2, 3, 155, 157, 158, 163, 340, 600}, MaxUnits <- 2, MaxFrames <- 2

VARIABLES folders, scripts, changes, up, apps
serviceVars == <<folders, scripts, changes, up, apps>>
SV == INSTANCE Services WITH
    w <- apps, Paths <- {<<>>, <<"a">>, <<"a", "b">>}, Versions <- {1, 2}, Failing <- {2}, Clients <- {"c"},
    MaxIds <- 4, MaxChanges <- 2

VARIABLES online, pubs, memberships, lua
objectVars == <<online, pubs, memberships, lua>>
SO == INSTANCE ScriptObjects WITH
    connected <- online, Clients <- {"c", "d"}, Names <- {"n"}, Groups <- {"g"}, Addresses <- {"x", "y", "z"},
    Nobody <- "nobody"

VARIABLES second, stored, copies, options, copy, request, reply
replyVars == <<second, stored, copies, options, copy, request, reply>>
Char(c) == [char |-> c]
HR == INSTANCE HTTPReply WITH
    changes <- copies, disk <- stored, SameSecond <- FALSE, MaxSeconds <- 2, MaxChanges <- 2,
    Contents <- <<<<Char("x"), [name |-> "a", spaced |-> TRUE], Char("nl"), Char("nl"), [name |-> "b", spaced |-> FALSE]>>
                      \o [i \in 1 .. 9 |-> Char("x")],
                  <<[name |-> "c", spaced |-> FALSE], Char("<"), Char("x"), [name |-> "e", spaced |-> FALSE]>>
                      \o [i \in 1 .. 6 |-> Char("nl")]>>,
    Values <- [a |-> <<"v", "v", "<">>, c |-> <<"1", "2", "3", "4", "5">>],
    Entries <- LET entry(name, rank, directory, size, modified) ==
                   [name |-> name, rank |-> rank, directory |-> directory, size |-> size, modified |-> modified]
               IN  <<entry("u", 1, FALSE, 3, 1), entry("d", 2, TRUE, 0, 2), entry("v", 3, FALSE, 3, 2),
                     entry("e", 1, TRUE, 0, 1), entry("z", 4, FALSE, 0, 3)>>

VARIABLE call
TextsOf(chars, n) == UNION {[1 .. k -> chars] : k \in 0 .. n}
Fields == [name : TextsOf({"a", "+"}, 1), value : TextsOf({"b", "+", "="}, 2)] \union [name : TextsOf({"a", "%"}, 1)]
IniLines == {[kind |-> "section", name |-> <<"s">>, value |-> <<>>], [kind |-> "remark", name |-> <<"a", "=", "b">>, value |-> <<>>],
             [kind |-> "option", name |-> <<"k">>, value |-> <<"v", " ", "[", "=">>],
             [kind |-> "option", name |-> <<"k", " ", "l">>, value |-> <<"v", "]">>]}
TU == INSTANCE TextUtils WITH
    Urls <- TextsOf({"a", "/", "?", ":"}, 5), Queries <- UNION {[1 .. n -> Fields] : n \in {1, 2}},
    Lists <- TextsOf({"a", ",", " "}, 5), NamePaths <- TextsOf({"a", ".", "/", " "}, 5),
    Inis <- UNION {[1 .. n -> IniLines] : n \in 0 .. 4}, Bytes <- {0, 97, 130, 255}, MaxBytes <- 4

VARIABLES pool, memory, held, items, sealed
packetVars == <<pool, memory, held, items, sealed>>
PK == INSTANCE Packets WITH
    Names <- {"p", "q"}, FarIds <- {<<4, 3, 2, 1>>}, Flips <- TRUE,
    Numbers <- {128 ^ k + e : k \in 0..4, e \in {-1, 0, 127}} \union {2 ^ k + e : k \in {8, 22, 29, 30}, e \in {-1, 0, 200}},
    Start <- 8, Maximum <- 14,
    MaxItems <- 2, MaxBuffers <- 3,
    Kept <- {<<"hole", [i \in 1..8 |-> 0]>>, <<"word", <<7, 255, 128, 200>>>>, <<"raw", <<1, 2, 3, 4, 5, 6, 7>>>>,
             <<"string16", <<65, 66>>>>}

VARIABLES data, entries, loading
tableVars == <<data, entries, loading>>
TA == INSTANCE DataTables WITH Keys <- {"x", "y"}, Values <- {"1", "false"}, Depth <- 3, MaxValues <- 2

VARIABLES state, senders, output, framesSent, masked, coming, clientFrames, framesHandled, killed
frameVars == <<state, senders, output, framesSent, masked, coming, clientFrames, framesHandled, killed>>
WF == INSTANCE WSFrames WITH
    written <- framesSent, frames <- clientFrames, handled <- framesHandled,
    Sizes <- {2}, Short <- 3, Long <- 5, Mask <- <<200, 7, 0, 129>>, Segments <- {7},
    Asked <- {[type |-> 9, size |-> 4], [type |-> 8, size |-> 5], [type |-> 3, size |-> 2]},
    MaxWritten <- 2, MaxAsked <- 2

ASSUME PartsAssumption ==
    /\ HS!HandshakeAssumption /\ RS!SessionAssumption /\ DB!DatabaseAssumption
    /\ PG!GroupAssumption /\ RL!RelayAssumption /\ SL!LinkAssumption /\ RM!MessageAssumption /\ FS!StreamAssumption
    /\ HT!HTTPAssumption /\ AD!AMFAssumption /\ DT!DateAssumption /\ DX!DateTextAssumption
    /\ JD!JSONAssumption /\ XD!XMLAssumption /\ AR!AddressAssumption /\ MP!MediaAssumption
    /\ SV!ServiceAssumption /\ SO!ObjectsAssumption /\ HR!ReplyAssumption /\ TU!TextAssumption
    /\ PK!PacketsAssumption /\ TA!DataAssumption /\ WF!FramesAssumption

vars == <<part, handshakeVars, sessionVars, databaseVars, groupVars, relayVars, linkVars, messageVars,
          streamVars, httpVars, dataVars, dateVars, textVars, jsonVars, xmlVars,
          addressVars, mediaVars, serviceVars, objectVars, replyVars, call, packetVars, tableVars, frameVars>>

-----------------------------------------------------------------------------
Init ==
    /\ part \in Parts
    /\ HS!Init /\ RS!Init /\ DB!Init /\ PG!Init /\ RL!Init /\ SL!Init /\ RM!Init /\ FS!Init /\ HT!Init
    /\ AD!Init /\ (part # "data" => w.pref)
    /\ DT!Init /\ (part # "dates" => d.offset = 1000)
    /\ DX!Init /\ (part # "texts" => date.year = 1970)
    /\ JD!Init /\ XD!Init /\ AR!Init /\ MP!Init
    /\ SV!Init /\ (part # "services" => folders = {<<>>})
    /\ SO!Init /\ HR!Init /\ (part # "replies" => options.index = "" /\ options.directory)
    /\ TU!Init /\ PK!Init /\ TA!Init /\ WF!Init

(* One conjunct for each part: it moves, or stays. *)
Moves(name) == part = name
Next ==
    /\ UNCHANGED part
    /\ IF Moves("relay") THEN RL!Next ELSE UNCHANGED relayVars
    /\ IF Moves("messages") THEN RM!Next ELSE UNCHANGED messageVars
    /\ IF Moves("http") THEN HT!Next ELSE UNCHANGED httpVars
    /\ IF Moves("data") THEN AD!Next ELSE UNCHANGED dataVars
    /\ IF Moves("dates") THEN DT!Next ELSE UNCHANGED dateVars
    /\ IF Moves("texts") THEN DX!Next ELSE UNCHANGED textVars
    /\ IF Moves("json") THEN JD!Next ELSE UNCHANGED jsonVars
    /\ IF Moves("xml") THEN XD!Next ELSE UNCHANGED xmlVars
    /\ IF Moves("addresses") THEN AR!Next ELSE UNCHANGED addressVars
    /\ IF Moves("media") THEN MP!Next ELSE UNCHANGED mediaVars
    /\ IF Moves("objects") THEN SO!Next ELSE UNCHANGED objectVars
    /\ IF Moves("replies") THEN HR!Next ELSE UNCHANGED replyVars
    /\ IF Moves("parsing") THEN TU!Next ELSE UNCHANGED call
    /\ IF Moves("packets") THEN PK!Next ELSE UNCHANGED packetVars
    /\ IF Moves("tables") THEN TA!Next ELSE UNCHANGED tableVars
    /\ IF Moves("frames") THEN WF!Next ELSE UNCHANGED frameVars
    /\ IF Moves("links") THEN SL!Next ELSE UNCHANGED linkVars
    /\ IF Moves("database") THEN DB!Next ELSE UNCHANGED databaseVars
    /\ IF Moves("group") THEN PG!Next ELSE UNCHANGED groupVars
    /\ IF Moves("session") THEN RS!Next ELSE UNCHANGED sessionVars
    /\ IF Moves("streams") THEN FS!Next ELSE UNCHANGED streamVars
    /\ IF Moves("services") THEN SV!Next ELSE UNCHANGED serviceVars
    /\ IF Moves("handshake") THEN HS!Next ELSE UNCHANGED handshakeVars

(* The session's clock and its manager, as in RTMFPSession. *)
Spec == /\ Init /\ [][Next]_vars
        /\ WF_sessionVars(Moves("session") /\ RS!Visit(silence, {}))
        /\ WF_sessionVars(Moves("session") /\ away /\ RS!Elapse)

-----------------------------------------------------------------------------
(* The parts' invariants, each described in its module. *)
TypeOK ==
    /\ Moves("handshake") => HS!TypeOK
    /\ Moves("session") => RS!TypeOK
    /\ Moves("database") => DB!TypeOK
    /\ Moves("group") => PG!TypeOK
    /\ Moves("relay") => RL!TypeOK
    /\ Moves("links") => SL!TypeOK
    /\ Moves("messages") => RM!TypeOK
    /\ Moves("streams") => FS!TypeOK
    /\ Moves("http") => HT!TypeOK
    /\ Moves("data") => AD!TypeOK
    /\ Moves("dates") => DT!TypeOK
    /\ Moves("json") => JD!TypeOK
    /\ Moves("xml") => XD!TypeOK
    /\ Moves("addresses") => AR!TypeOK
    /\ Moves("media") => MP!TypeOK
    /\ Moves("services") => SV!TypeOK
    /\ Moves("objects") => SO!TypeOK
    /\ Moves("replies") => HR!TypeOK
    /\ Moves("packets") => PK!TypeOK
    /\ Moves("tables") => TA!TypeOK
    /\ Moves("frames") => WF!TypeOK

(* handshake: a hello or a key that comes again, while its keys are computed on a   *)
(* thread of the pool or after its session exists, finds the cookie and the session *)
(* that its first occurrence made, or none, and never one that was deleted          *)
(* (RTMFPHandshake.cpp:236, 296).                                                    *)
CookiesSound == Moves("handshake") => HS!CookiesSound

(* sessions: whoever the three indexes name has not been deleted, although a client  *)
(* may come back with the same peer id while its former session ends, but for an     *)
(* address that its client left by repeating its key from another one; and a session *)
(* is found by its identifier, and by its peer's unless another session had the same *)
(* (Sessions.cpp:46-62, RTMFPHandshake.cpp:276).                                     *)
FoundIsAlive == Moves("handshake") => HS!FoundIsAlive

(* session: the writers held by the application and by the flows that are open are in *)
(* the session's map, whatever was rejected, given up, closed or connected again, and *)
(* a failed or dead session has left its groups and tells its end once                *)
(* (RTMFPSession.cpp:71-136, Peer.cpp:143-158).                                       *)
SessionSound == Moves("session") => RS!SessionSound

(* session: it dies once its client has gone, it has failed or its main writer is     *)
(* closed and no connection opens it again: the visits and time-outs see to it          *)
(* (RTMFPSession.cpp:95-151, Peer.cpp:143-158).                                           *)
EveryEndComes == RS!EveryEndComes

(* database: what was done since the last load is on the disk, in spite of a crash, but *)
(* for what an error or a cut write cost, what a later call concerns is not, unless that  *)
(* call failed or could not remove it, and entries wait without a thread only after an      *)
(* error (Database.cpp:63-131). tables: what scripts see in the data tables is what the       *)
(* database was given, and what it was given and they do not see has a table in its place or   *)
(* an entry above it, also when a start sets it again in any order (LUADataTable.cpp:71-151,    *)
(* MonaServer.cpp:249-299).                                                                        *)
DataKept == (Moves("database") => DB!DataKept) /\ (Moves("tables") => TA!DataTablesSound)

(* group: a group exists while it has members, and these are the ones that know they are in *)
(* it; a client is told of others of its group, by the writer of a flow that is open, but in  *)
(* a group that its stream left behind, whatever flow, session or call of the application      *)
(* ended meanwhile; a writer that is missing is used only with members of the application, or  *)
(* groups left behind (Peer.cpp:52-107, 184-210).                                               *)
IntroducedRight == Moves("group") => PG!IntroducedRight

(* relays: the tables by port, by peer and by address say the same, whatever was       *)
(* added, released or idle, and turn peers have a relay (RelayServer.cpp:124-253).       *)
RelaysSound == Moves("relay") => RL!RelaysSound

(* links: two servers that number the handlers' names each on its side understand the *)
(* same name, through reconnections, as long as what comes is whole and no message    *)
(* took the header of another end; one that was written to another end before may be  *)
(* taken for a hello. Servers list those that said hello                              *)
(* (ServerConnection.cpp:77-193).                                                     *)
LinksSound == Moves("links") => SL!LinksSound

(* messages: an RTMP message is read with the header it was written with, though most  *)
(* of it is left out, and each byte is deciphered once however the bytes come             *)
(* (RTMPWriter.cpp:90-154, RTMPSession.cpp:60-225). packets: a buffer of the pool has one   *)
(* holder and nothing of its last one, what is put in a packet is got from it, and a sealed *)
(* RTMFP packet opens to what it was (PoolBuffers.cpp, Buffer.cpp, BinaryWriter.cpp,          *)
(* BinaryReader.cpp, RTMFP.cpp:59-122).                                                       *)
MessagesSound == (Moves("messages") => RM!MessagesSound) /\ (Moves("packets") => PK!PacketsSound)

(* streams: no stream keeps a pointer to a publication that was deleted, nor to a   *)
(* listener but one that another stream of its client was lent; nobody is left in a *)
(* table (FlashStream.cpp:40-156, Invoker.cpp:78-124, Publication.cpp:47-81).       *)
PointersSound == Moves("streams") => FS!PointersSound

(* streams: what a listener is sent, its player can decode, where its writer failed *)
(* with frames from the next one that it can begin with, and it knows whether there *)
(* is a publisher (Listener.cpp:78-236, RTMFPWriter.h:59-72).                       *)
Watchable == Moves("streams") => FS!Watchable

(* http, replies, frames: a request is handled once, with its own packet, and the session's        *)
(* listener goes with what began it (HTTPSession.cpp:58-112); what it is answered is true of *)
(* the file at some time since, and is as long as it says (HTTPSender.cpp:57-168, 250-330);   *)
(* WebSocket's frames are read as they were written, both ways, and none follows a close       *)
(* (WSWriter.cpp:33-160, WSSession.cpp:64-141).                                                 *)
RequestsSound ==
    /\ Moves("http") => HT!RequestsSound
    /\ Moves("replies") => HR!ReplySound
    /\ Moves("frames") => WF!FramesSound


(* dates: the time and the fields of a date agree whatever was set and read, a time   *)
(* becomes a day of the calendar and back the same, a date is the one asked for; and   *)
(* a date is read from any text it may be written to (Date.cpp).                         *)
DatesSound == (Moves("dates") => DT!DatesSound) /\ (Moves("texts") => DX!ReadAsWritten)

(* addresses: the text that an address keeps is its own and is read as it, but with a *)
(* word that is zero by itself or with port 65535, and any two addresses that are not *)
(* the same have one order, by which sessions are found (IPAddress.cpp,               *)
(* SocketAddress.cpp). parsing: URLs, queries, paths, lists, base64 and files of      *)
(* options are taken apart as the whole of their text says, but for a query with a    *)
(* bare name before "&", whose reading never ends (Util.cpp:116-358).                 *)
AddressesRight ==
    /\ (Moves("addresses") => AR!AddressesRight)
    /\ (Moves("parsing") => TU!TakenApart)

(* media: a frame is written as rows of one size that carry its units whole and in order   *)
(* and are numbered without a gap (MediaContainer.cpp:129-362).                              *)
RowsWhole == Moves("media") => MP!RowsWhole

(* services, objects: the services counted as running, and told to the other servers, *)
(* have loaded their file and exist, whatever changed on the disk, until a script is  *)
(* answered by a service that was deleted, which it is only if one was asked for      *)
(* before those above it; the collections that scripts see are those of the server,   *)
(* and hold no object of something deleted (Service.cpp, MonaServer.cpp:45-210,       *)
(* 449-752).                                                                          *)
ServicesSound ==
    /\ Moves("services") => SV!ServicesSound
    /\ Moves("objects") => SO!ObjectsSound
=============================================================================
