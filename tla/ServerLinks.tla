---- MODULE ServerLinks ----
(* The links between servers (Servers.cpp, ServerConnection.cpp, Broadcaster.h): *)
(* a server connects its targets again and again, another accepts, each says     *)
(* hello, and from then on the two call each other's handlers.  A handler is     *)
(* named in full the first time and by a number after that, so the two ends must *)
(* count the names alike.  A link has two ends, "target" on the server that      *)
(* connects and "client" on the one that accepts.  The first hello of a          *)
(* connection is assumed to come before the next attempt to connect.             *)
EXTENDS Naturals, FiniteSets, Functions, Sequences, SequencesExt

CONSTANTS
    Links,     \* links between the two servers
    Handlers,  \* names that applications call; "." is the server's own
    MaxSent    \* bound: messages to an end that has not read them

LinkAssumption ==
    /\ IsFiniteSet(Links) /\ "." \notin Handlers /\ "" \notin Handlers
    /\ MaxSent \in Nat

VARIABLES
    tcp,         \* closed, backlog (not accepted yet), open, shut (disconnect was called)
    met,         \* ServerConnection's _connected
    sendingRefs, \* names in the order of their numbers
    receivingRefs,
    inbox,       \* what has been written to an end, that it has not handled
    partial,     \* what came of the next message: none, some of its size, its size (_size), or
                 \* torn: what is read next no longer begins where a message does
    connections, \* the ends that the servers list
    stopped,     \* the servers that stopped, by the side they are
    miscounted,  \* history: ends that were sent the header meant for another end
    heard        \* history: the message that the last step handled

vars == <<tcp, met, sendingRefs, receivingRefs, inbox, partial, connections, stopped, miscounted, heard>>

Sides == {"target", "client"}
Ends == Sides \X Links
Other(e) == <<IF e[1] = "target" THEN "client" ELSE "target", e[2]>>
Names == Handlers \cup {".", ""}

(* The header, what was meant by it, and whether something foreign is between it *)
(* and the content.                                                              *)
Message == [sent : Names, as : {"name", "ref", "hello"}, name : Names, ref : Nat, dirty : BOOLEAN]
Hello == [sent |-> "", as |-> "hello", name |-> "", ref |-> 0, dirty |-> FALSE]

(* What was handled, by which name, and whether what came before let it be read: torn or  *)
(* miscounted if it did not.                                                              *)
Handling == [sent : Names, handler : Names, dirty : BOOLEAN, how : {"whole", "torn", "miscounted"}]
Nothing == [sent |-> "", handler |-> "", dirty |-> FALSE, how |-> "whole"]

TypeOK ==
    /\ tcp \in [Ends -> {"closed", "backlog", "open", "shut"}]
    /\ met \in [Ends -> BOOLEAN] /\ partial \in [Ends -> {"none", "some", "size", "torn"}]
    /\ \A e \in Ends : /\ sendingRefs[e] \in Seq(Names) /\ receivingRefs[e] \in Seq(Names)
                       /\ inbox[e] \in Seq(Message)
    /\ connections \subseteq Ends /\ stopped \subseteq Sides /\ miscounted \subseteq Ends
    /\ heard \in Handling

Init ==
    /\ tcp = [e \in Ends |-> "closed"] /\ met = [e \in Ends |-> FALSE]
    /\ sendingRefs = [e \in Ends |-> <<>>] /\ receivingRefs = [e \in Ends |-> <<>>]
    /\ inbox = [e \in Ends |-> <<>>] /\ partial = [e \in Ends |-> "none"]
    /\ connections = {} /\ stopped = {} /\ miscounted = {} /\ heard = Nothing

-----------------------------------------------------------------------------
(* ServerConnection::send changes the message that it is given: the handler is   *)
(* cleared when its number is written, and the header goes before what was       *)
(* written in front of the content by an earlier send.                           *)

Known(refs, name) == name \in Range(refs)
Number(refs, name) == CHOOSE i \in DOMAIN refs : refs[i] = name

(* What is written of a name to the ends of a sequence, one after the other: an    *)
(* end that knows it clears it for those that follow.                              *)
As(to, name, i) ==
    IF \E j \in 1 .. i - 1 : Known(sendingRefs[to[j]], name) THEN "hello"
    ELSE IF Known(sendingRefs[to[i]], name) THEN "ref" ELSE "name"

(* Its headers, and the numbers of each end. *)
Sent(to, name) ==
    [headers |-> [i \in DOMAIN to |->
        [sent |-> name, as |-> As(to, name, i), name |-> IF As(to, name, i) = "name" THEN name ELSE "",
         ref |-> IF As(to, name, i) = "ref" THEN Number(sendingRefs[to[i]], name) ELSE 0, dirty |-> i > 1]],
     refs |-> [e \in Ends |-> IF \E i \in DOMAIN to : to[i] = e /\ As(to, name, i) = "name"
                              THEN Append(sendingRefs[e], name) ELSE sendingRefs[e]]]

(* The bytes are read by the pool, when a later send may have changed them: those  *)
(* that are late get the last header.                                              *)
Written(to, name, late, boxes) ==
    LET s == Sent(to, name) IN
    /\ Len(to) = 1 => late = [i \in DOMAIN to |-> FALSE]
    /\ sendingRefs' = s.refs
    /\ inbox' = [e \in Ends |->
          IF Other(e) \in Range(to) /\ tcp[Other(e)] = "open"
          THEN LET i == CHOOSE j \in DOMAIN to : to[j] = Other(e)
               IN  Append(boxes[e], s.headers[IF late[i] THEN Len(to) ELSE i])
          ELSE boxes[e]]
    /\ miscounted' = miscounted \cup {Other(to[i]) : i \in {j \in DOMAIN to : late[j] /\ j < Len(to)}}

Broadcast(to, name) ==
    /\ \A i \in DOMAIN to : Len(inbox[Other(to[i])]) < MaxSent
    /\ \E late \in [DOMAIN to -> BOOLEAN] : Written(to, name, late, inbox)

(* The application of a server calls one, or all that it lists. *)
Call(e, name) ==
    /\ e \in connections
    /\ Broadcast(<<e>>, name)
    /\ heard' = Nothing
    /\ UNCHANGED <<tcp, met, receivingRefs, partial, connections, stopped>>

Listed(side) == {e \in connections : e[1] = side}

CallAll(side, name) ==
    /\ Listed(side) # {}
    /\ \E to \in SetToSeqs(Listed(side)) : Broadcast(to, name)
    /\ heard' = Nothing
    /\ UNCHANGED <<tcp, met, receivingRefs, partial, connections, stopped>>

-----------------------------------------------------------------------------
(* connect, by the manage of the server, and the acceptance; both say hello. *)

Connect(l) ==
    LET e == <<"target", l>> IN
    /\ "target" \notin stopped /\ ~met[e] /\ tcp[e] = "closed" /\ tcp[Other(e)] = "closed"
    /\ tcp' = [tcp EXCEPT ![e] = "open", ![Other(e)] = "backlog"]
    /\ inbox' = [inbox EXCEPT ![e] = <<>>, ![Other(e)] = <<Hello>>]
    /\ heard' = Nothing
    /\ miscounted' = miscounted \ {e, Other(e)}
    /\ UNCHANGED <<met, sendingRefs, receivingRefs, partial, connections, stopped>>

Accept(l) ==
    LET e == <<"client", l>> IN
    /\ "client" \notin stopped /\ tcp[e] = "backlog"
    /\ tcp' = [tcp EXCEPT ![e] = "open"]
    /\ inbox' = IF tcp[Other(e)] = "closed" THEN inbox ELSE [inbox EXCEPT ![Other(e)] = Append(@, Hello)]
    /\ heard' = Nothing
    /\ UNCHANGED <<met, sendingRefs, receivingRefs, partial, connections, stopped, miscounted>>

(* A size outlives the connection of a target. *)
Outlives(e) ==
    IF e[1] = "client" THEN {"none"}
    ELSE CASE partial[e] = "size" -> {"size"} [] partial[e] = "torn" -> {"none", "size"} [] OTHER -> {"none"}

(* onDisconnection: Servers forgets the end, and deletes a client. *)
Disconnected(e, left) ==
    /\ tcp' = [tcp EXCEPT ![e] = "closed"]
    /\ inbox' = [inbox EXCEPT ![e] = <<>>, ![Other(e)] = left]
    /\ met' = [met EXCEPT ![e] = FALSE]
    /\ connections' = connections \ {e}
    /\ \E part \in Outlives(e) : partial' = [partial EXCEPT ![e] = part]
    /\ heard' = Nothing
    /\ UNCHANGED <<stopped, miscounted>>

(* Variant: the numbers of the names outlive the connection. *)
ClosedCounting(e, left) ==
    /\ tcp[e] \in {"open", "shut"}
    /\ left \in {inbox[Other(e)], <<>>}
    /\ Disconnected(e, left)
    /\ UNCHANGED <<sendingRefs, receivingRefs>>

(* The end of what the other end sent, or an error, which may cost the other end *)
(* what it has not read.                                                          *)
Closed(e, left) ==
    /\ tcp[e] \in {"open", "shut"}
    /\ left \in {inbox[Other(e)], <<>>}
    /\ Disconnected(e, left)
    /\ sendingRefs' = [sendingRefs EXCEPT ![e] = <<>>]
    /\ receivingRefs' = [receivingRefs EXCEPT ![e] = <<>>]

(* The backlog of a server that has stopped is refused. *)
Refused(l) ==
    LET e == <<"client", l>> IN
    /\ tcp[e] = "backlog" /\ "client" \in stopped
    /\ tcp' = [tcp EXCEPT ![e] = "closed"] /\ inbox' = [inbox EXCEPT ![e] = <<>>]
    /\ heard' = Nothing
    /\ UNCHANGED <<met, sendingRefs, receivingRefs, partial, connections, stopped, miscounted>>

(* The application rejects an end. *)
Reject(e) ==
    /\ e \in connections /\ tcp[e] = "open"
    /\ tcp' = [tcp EXCEPT ![e] = "shut"]
    /\ heard' = Nothing
    /\ UNCHANGED <<met, sendingRefs, receivingRefs, inbox, partial, connections, stopped, miscounted>>

(* Servers::stop. *)
Stop(side) ==
    /\ side \notin stopped
    /\ stopped' = stopped \cup {side}
    /\ connections' = {e \in connections : e[1] # side}
    /\ tcp' = [e \in Ends |-> IF e[1] = side /\ tcp[e] = "open" THEN "shut" ELSE tcp[e]]
    /\ heard' = Nothing
    /\ UNCHANGED <<met, sendingRefs, receivingRefs, inbox, partial, miscounted>>

-----------------------------------------------------------------------------
(* onReception. *)

(* A message that has come in part.  The size that was read is not consumed.     *)
ReceivePart(e, part) ==
    /\ tcp[e] \in {"open", "shut"} /\ inbox[e] # <<>>
    /\ partial[e] = "none" \/ (partial[e] = "some" /\ part = "size")
    /\ partial' = [partial EXCEPT ![e] = part]
    /\ heard' = Nothing
    /\ UNCHANGED <<tcp, met, sendingRefs, receivingRefs, inbox, connections, stopped, miscounted>>

Resolved(e, m) ==
    CASE m.as = "name" -> m.name
      [] m.as = "ref" /\ m.ref \in DOMAIN receivingRefs[e] -> receivingRefs[e][m.ref]
      [] OTHER -> ""

(* A size that was not consumed is taken for the beginning of the message, whose   *)
(* first byte is 0: no name, but maybe a number.  As many bytes of the message as  *)
(* its size takes are then left before the next one, and whatever follows is torn: *)
(* it says anything, until the connection closes.                                  *)
Torn(e) == partial[e] \in {"size", "torn"}
Understood(e, m) ==
    CASE partial[e] = "size" -> {""} \cup Range(receivingRefs[e])
      [] partial[e] = "torn" -> Names
      [] OTHER -> {Resolved(e, m)}

(* The first hello, or what is taken for one, makes the end known to the server,  *)
(* which tells all those it knows of its services; a stopped server lists it too. *)
Receive(e, handler) ==
    LET m == Head(inbox[e])
        rest == [inbox EXCEPT ![e] = Tail(@)]
    IN  /\ tcp[e] \in {"open", "shut"} /\ inbox[e] # <<>>
        /\ handler \in Understood(e, m)
        /\ receivingRefs' = IF m.as = "name" /\ ~Torn(e) THEN [receivingRefs EXCEPT ![e] = Append(@, m.name)]
                            ELSE receivingRefs
        /\ partial' = [partial EXCEPT ![e] = IF Torn(e) THEN "torn" ELSE "none"]
        /\ heard' = [sent |-> m.sent, handler |-> handler, dirty |-> m.dirty,
                     how |-> IF Torn(e) THEN "torn" ELSE IF e \in miscounted THEN "miscounted" ELSE "whole"]
        /\ \/ /\ handler = "" /\ ~met[e]
              /\ met' = [met EXCEPT ![e] = TRUE]
              /\ connections' = connections \cup {e}
              /\ \E to \in SetToSeqs(Listed(e[1]) \cup {e}) : \E late \in [DOMAIN to -> BOOLEAN] :
                    Written(to, ".", late, rest)
           \/ /\ ~(handler = "" /\ ~met[e])
              /\ inbox' = rest
              /\ UNCHANGED <<met, connections, sendingRefs, miscounted>>
        /\ UNCHANGED <<tcp, stopped>>

Next ==
    \/ \E l \in Links : Connect(l) \/ Accept(l) \/ Refused(l)
    \/ \E e \in Ends : \/ \E handler \in Names : Receive(e, handler)
                       \/ \E part \in {"some", "size"} : ReceivePart(e, part) \/ Reject(e)
                       \/ \E left \in {inbox[Other(e)], <<>>} : Closed(e, left)
                       \/ \E name \in Handlers : Call(e, name)
    \/ \E side \in Sides : Stop(side) \/ \E name \in Handlers : CallAll(side, name)

Spec == Init /\ [][Next]_vars
-----------------------------------------------------------------------------
(* api.rst: "broadcast data to servers (initiators and targets). The handler      *)
(* parameter is the name of the remote procedure call method to receive data": a  *)
(* message that comes whole is handled by the name it was sent to, with its        *)
(* content.                                                                        *)
HandledAsSent == heard.how # "torn" => heard.handler = heard.sent /\ ~heard.dirty

(* A server lists the ends that said hello and have not gone.                      *)
ListedAreMet ==
    /\ \A e \in Ends : met[e] => tcp[e] \in {"open", "shut"}
    /\ \A e \in connections : met[e]
    /\ \A e \in Ends : met[e] /\ e[1] \notin stopped => e \in connections

(* As long as what comes is whole, and no message took the header of another end, a *)
(* message is handled by the name it was sent to, with its content; one that was    *)
(* written to another end before (dirty: with the header of that end before its     *)
(* content) by that name, or as a hello.                                            *)
CountedAlike ==
    heard.how = "whole" => heard.handler = heard.sent \/ (heard.dirty /\ heard.handler = "")

LinksSound == CountedAlike /\ ListedAreMet
====
