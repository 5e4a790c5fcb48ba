-------------------------------- MODULE HTTPReply --------------------------------
(* What a client of HTTP is answered when it reads the folder of an application or  *)
(* a file of it: HTTPSession.cpp:139-195, HTTPSender.cpp, HTTP.cpp and               *)
(* HTTPOptionsWriter.cpp.  The session's thread looks at the file's date, a thread   *)
(* of the pool reads the file later and dates the answer, the client says that date   *)
(* when it asks again, and the files change meanwhile.                                 *)
EXTENDS Integers, Sequences, FiniteSets, SequencesExt, TLC

CONSTANTS
    Contents,   \* a sequence of texts, each a sequence of parts: a character or a tag
    Values,     \* of the parameters of a request: a sequence of characters for each name
    Entries,    \* of the folder, a sequence of [name, rank, directory, size, modified]
    SameSecond, \* whether a file may change in the second in which it was sent
    MaxSeconds, MaxChanges

IsTag(part) == DOMAIN part = {"name", "spaced"}
Plain(part) == DOMAIN part = {"char"}

RECURSIVE Joined(_)
Joined(texts) == IF texts = <<>> THEN <<>> ELSE Head(texts) \o Joined(Tail(texts))
Map(seq, Op(_)) == [i \in DOMAIN seq |-> Op(seq[i])]

Blank(part) == IF part.spaced THEN <<" ">> ELSE <<>>
Spelled(part) == IF Plain(part) THEN <<part.char>>
                 ELSE <<"<", "%">> \o Blank(part) \o <<part.name>> \o Blank(part) \o <<"%", ">">>
TextOf(parts) == Joined(Map(parts, Spelled))
ValueOf(name) == IF name \in DOMAIN Values THEN Values[name] ELSE <<>>
FilledPart(part) == IF Plain(part) THEN <<part.char>> ELSE ValueOf(part.name)

(* Texts that templates are made for: a value is not longer than its tag, a tag does  *)
(* not follow a tag nor a character "<", and the end is as long as what is removed.     *)
Fillable(parts) ==
    \A i \in {k \in DOMAIN parts : IsTag(parts[k])} :
        /\ Len(FilledPart(parts[i])) <= Len(Spelled(parts[i]))
        /\ i > 1 => Plain(parts[i-1]) /\ parts[i-1].char # "<"
        /\ Len(parts) - i >= Len(TextOf(parts)) - Len(Joined(Map(parts, FilledPart)))

ReplyAssumption ==
    /\ \A i \in DOMAIN Contents : Fillable(Contents[i])
    /\ SameSecond \in BOOLEAN /\ MaxSeconds \in Nat /\ MaxChanges \in Nat

VARIABLES
    second,  \* the clock
    disk,    \* the file: "none", a "file" or a "folder", when it changed, what it has
    changes, \* how many times it did
    options, \* _options of the session: index, indexCanBeMethod, indexDirectory
    copy,    \* what the client has: of which content, the date it was told; 0 for none
    request, \* the answer that is to be written (HTTPSender), None if there is none
    reply    \* the answer that was just received

vars == <<second, disk, changes, options, copy, request, reply>>
None == [code |-> 0]

-----------------------------------------------------------------------------
(* HTTPOptionsWriter: how the application's onConnection gives the index.              *)
DefaultOptions == [index |-> "", canBeMethod |-> FALSE, directory |-> TRUE]
Written(kind) ==
    CASE kind = "nothing" -> DefaultOptions
      [] kind = "null" -> [DefaultOptions EXCEPT !.directory = FALSE]
      [] kind = "true" -> DefaultOptions
      [] kind = "false" -> [DefaultOptions EXCEPT !.directory = FALSE]
      [] kind = "name" -> [index |-> "f", canBeMethod |-> TRUE, directory |-> FALSE]
      [] kind = "file" -> [index |-> "f", canBeMethod |-> FALSE, directory |-> FALSE]

-----------------------------------------------------------------------------
(* HTTPSender::ReplaceTemplateTags: the bytes are replaced where they are, and the end  *)
(* is not moved with them.                                                                 *)
At(bytes, i) == IF i \in DOMAIN bytes THEN bytes[i] ELSE "?"
Copied(bytes, to, from, n) ==
    [i \in 1 .. (IF to + n - 1 > Len(bytes) THEN to + n - 1 ELSE Len(bytes)) |->
        IF i \in to .. to + n - 1 THEN At(bytes, i - to + from) ELSE At(bytes, i)]
Put(bytes, at, value) == [i \in DOMAIN bytes |-> IF i - at + 1 \in DOMAIN value THEN value[i-at+1] ELSE bytes[i]]

(* A tag ends at current: t has the bytes, current, newSize, where the tag begins and    *)
(* its key.                                                                                *)
ReplaceTag(t, end) ==
    LET value == ValueOf(t.key)
        tag == t.current + 1 - t.tag
        more == Len(value) - tag
        rest == end - t.current - 1
        moved == IF more > 0 THEN Copied(t.bytes, t.current + 1, t.current + 1 + more, rest)
                 ELSE IF more < 0 THEN Copied(t.bytes, t.current + 1 + more, t.current + 1, rest)
                 ELSE t.bytes
    IN  [t EXCEPT !.bytes = Put(moved, t.tag, value), !.size = @ + more, !.step = 0,
                  !.current = IF more > 0 THEN @ + more - 1 ELSE IF more < 0 THEN @ + more + 1 ELSE @]

(* One character: step says how much of a tag was read.                                    *)
Scanned(t, end) ==
    LET c == t.bytes[t.current] IN
    CASE t.step = 0 -> [t EXCEPT !.step = IF c = "<" THEN 1 ELSE 0]
      [] t.step = 1 -> IF c = "%" THEN [t EXCEPT !.step = 2, !.tag = t.current - 1, !.key = ""]
                       ELSE [t EXCEPT !.step = 0]
      [] t.step = 2 /\ c = "%" -> [t EXCEPT !.step = 3]
      [] t.step = 3 /\ c = ">" -> ReplaceTag(t, end)
      [] OTHER -> [t EXCEPT !.step = 2, !.key = IF @ = "" /\ c # " " THEN c ELSE @]

RECURSIVE Scan(_, _)
Scan(t, end) ==
    IF t.current >= end THEN SubSeq(t.bytes, 1, t.size)
    ELSE LET next == Scanned(t, end) IN Scan([next EXCEPT !.current = @ + 1], end)
ReplaceTemplateTags(text) ==
    Scan([bytes |-> text, current |-> 1, size |-> Len(text), step |-> 0, tag |-> 0, key |-> ""], Len(text) + 1)

-----------------------------------------------------------------------------
(* HTTPSender::writer: the header, in lines, and the end of it; a place is kept for the *)
(* length of what has a content.                                                           *)
Header(content) ==
    Joined(Map(<<"status", "date", "server", "connection">>, LAMBDA name : <<name, "nl">>))
        \o (IF content THEN <<"type", "nl", "size", "nl">> ELSE <<>>) \o <<"nl">>
(* HTTP_BEGIN_HEADER, HTTP_ADD_HEADER and HTTP_END_HEADER. *)
AddHeader(packet, name) == SubSeq(packet, 1, Len(packet) - 1) \o <<name, "nl", "nl">>

(* HTTPSender::run: where the content begins is looked for after the place of the       *)
(* length, which is given, and the content is dropped for a HEAD.                          *)
ContentAt(packet, from) ==
    LET ends == {i \in from + 1 .. Len(packet) : packet[i] = "nl" /\ packet[i-1] = "nl"}
    IN  (CHOOSE i \in ends : \A k \in ends : i <= k) + 1
Sent(packet, command) ==
    IF "size" \notin Range(packet) THEN [packet |-> packet, length |-> 0]
    ELSE LET at == ContentAt(packet, CHOOSE i \in DOMAIN packet : packet[i] = "size" /\ \A k \in 1 .. i-1 : packet[k] # "size")
         IN  [packet |-> IF command = "HEAD" THEN SubSeq(packet, 1, at - 1) ELSE packet,
              length |-> Len(packet) - at + 1]

(* EntriesComparator: SORT_ASC is 0, so that a bit of it is never set.                     *)
SortBits == [name |-> 2, modified |-> 4, size |-> 8]
EntryBefore(a, b, by) ==
    CASE by = "size" -> b.size < a.size
      [] by = "modified" -> b.modified < a.modified
      [] a.directory # b.directory -> b.directory
      [] OTHER -> b.rank < a.rank
(* HTTP::WriteDirectoryEntries *)
Listing(by) == <<"title", "nl">> \o Map(SortSeq(Entries, LAMBDA a, b : EntryBefore(a, b, by)), LAMBDA entry : entry.name)

Page == <<"page", "nl">>
Root == [kind |-> "folder", modified |-> 1, content |-> 0]

(* HTTPSender::run: the date is the one the session saw, or is looked for now if there    *)
(* was no file; what is read is what is there now.                                          *)
Node == IF request.ofRoot THEN Root ELSE disk
LastModified == IF request.seen > 0 THEN request.seen ELSE disk.modified
Content == LET text == TextOf(Contents[disk.content]) IN
           IF request.parameters THEN ReplaceTemplateTags(text) ELSE text
Outcome ==
    IF LastModified > 0 /\ request.since >= LastModified THEN [code |-> 304, packet |-> Header(FALSE)]
    ELSE IF LastModified = 0 THEN [code |-> 404, packet |-> Header(TRUE) \o Page]
    ELSE IF Node.kind = "folder"
         THEN IF request.isApp THEN [code |-> 200, packet |-> AddHeader(Header(TRUE), "modified") \o Listing(request.by)]
              ELSE [code |-> 301, packet |-> AddHeader(Header(TRUE), "location") \o Page]
    ELSE IF Node.kind = "none" THEN [code |-> 423, packet |-> Header(TRUE) \o Page]
    ELSE [code |-> 200, packet |-> AddHeader(Header(TRUE), "modified") \o Content]

-----------------------------------------------------------------------------
Init ==
    /\ second = 1 /\ changes = 0 /\ request = None /\ reply = None
    /\ disk = [kind |-> "none", modified |-> 0, content |-> 0]
    /\ options \in {Written(kind) : kind \in {"nothing", "null", "true", "false", "name", "file"}}
    /\ copy = [date |-> 0, content |-> 0]

Tick == second < MaxSeconds /\ second' = second + 1 /\ reply' = None
        /\ UNCHANGED <<disk, changes, options, copy, request>>

(* The file is written, replaced by a folder, or removed.                                   *)
Change ==
    /\ changes < MaxChanges /\ changes' = changes + 1
    /\ SameSecond \/ copy.date < second
    /\ \/ \E c \in DOMAIN Contents : disk' = [kind |-> "file", modified |-> second, content |-> c]
       \/ disk' = [kind |-> "folder", modified |-> second, content |-> 0]
       \/ disk' = [kind |-> "none", modified |-> 0, content |-> 0]
    /\ request' = IF request = None THEN None ELSE [request EXCEPT !.states = @ \cup {disk'}]
    /\ reply' = None /\ UNCHANGED <<second, options, copy>>

(* HTTPSession::packetHandler for GET and HEAD, of the file or of the application's       *)
(* folder: a function of the application may answer instead, the index may be the file,    *)
(* and the folder may not be shown.                                                          *)
Ask ==
    /\ request = None
    /\ \E command \in {"GET", "HEAD"}, ofFile, conditional, parameters, answered \in BOOLEAN, by \in DOMAIN SortBits :
          LET indexed == ~ofFile /\ options.index # ""
              listed == ~ofFile /\ ~indexed
          IN  /\ by = "name" \/ (listed /\ ~parameters /\ command = "GET")
              /\ conditional => copy.date > 0 /\ ~listed /\ ~parameters
              /\ IF answered /\ ~listed /\ (indexed => options.canBeMethod)
                 THEN UNCHANGED request /\ reply' = [code |-> 0]
                 ELSE IF listed /\ ~options.directory THEN UNCHANGED request /\ reply' = [code |-> 403]
                 ELSE /\ reply' = None
                      /\ request' = [command |-> command, ofRoot |-> listed, isApp |-> ~ofFile, by |-> by,
                                     parameters |-> parameters, since |-> IF conditional THEN copy.date ELSE 0,
                                     seen |-> IF listed THEN Root.modified ELSE disk.modified,
                                     states |-> {IF listed THEN Root ELSE disk}]
    /\ UNCHANGED <<second, disk, changes, options, copy>>

(* The sender runs on its thread, and the client receives the answer. *)
Send ==
    /\ request # None /\ request' = None
    /\ LET sent == Sent(Outcome.packet, request.command) IN
       reply' = [code |-> Outcome.code, packet |-> sent.packet, length |-> sent.length, to |-> request]
    /\ copy' = IF Outcome.code = 200 /\ request.command = "GET" /\ ~request.ofRoot /\ ~request.parameters /\ disk.kind = "file"
               THEN [date |-> second, content |-> disk.content] ELSE copy
    /\ UNCHANGED <<second, disk, changes, options>>

Next == Tick \/ Change \/ Ask \/ Send
Spec == Init /\ [][Next]_vars

-----------------------------------------------------------------------------
TypeOK ==
    /\ second \in 1 .. MaxSeconds /\ changes \in 0 .. MaxChanges
    /\ disk \in [kind : {"none", "file", "folder"}, modified : 0 .. MaxSeconds, content : {0} \cup DOMAIN Contents]
    /\ copy \in [date : 0 .. MaxSeconds, content : {0} \cup DOMAIN Contents]
    /\ reply.code \in {0, 200, 301, 304, 403, 404, 423}

Answered == "to" \in DOMAIN reply
Kinds == {s.kind : s \in reply.to.states}
(* What the client takes for the content: what follows the first empty line. *)
Received == LET at == ContentAt(reply.packet, 1) IN SubSeq(reply.packet, at, Len(reply.packet))
Given(parts) == IF reply.to.parameters THEN Joined(Map(parts, FilledPart)) ELSE TextOf(parts)

(* An answer is true of the file at some time since it was asked: the copy that the      *)
(* client keeps is what the file was, the text that it gets is one of the file's, with     *)
(* the tags of a template replaced, and what it is told has no file had none               *)
(* (HTTPSender.cpp:58-136, 250-330).                                                         *)
AnswerTrue ==
    Answered =>
        LET known == {s.content : s \in {t \in reply.to.states : t.kind = "file"}} IN
        CASE reply.code = 304 -> copy.content \in known
          [] reply.code \in {404, 423} -> "none" \in Kinds
          [] reply.code = 301 -> "folder" \in Kinds /\ ~reply.to.isApp
          [] reply.code = 200 /\ reply.to.command = "GET" ->
                \/ "folder" \in Kinds /\ reply.to.isApp /\ Received = Listing(reply.to.by)
                \/ \E c \in known : Received = Given(Contents[c])
          [] OTHER -> TRUE

(* The length that an answer says is that of its content, of which a HEAD gets nothing,    *)
(* whatever lines the header was given and whatever the content has                         *)
(* (HTTPSender.cpp:136-168).                                                                  *)
Framed ==
    Answered =>
        /\ reply.to.command = "GET" => reply.length = Len(Received)
        /\ reply.to.command = "HEAD" /\ reply.code # 304 =>
              Received = <<>> /\ (reply.length > 0 \/ \E c \in DOMAIN Contents : Given(Contents[c]) = <<>>)

(* Entries are sorted by an order that sort may be given: of two entries not before each    *)
(* other, a third is before both or neither (HTTP.cpp:280-300).                               *)
Sortable ==
    \A by \in DOMAIN SortBits, a, b, c \in Range(Entries) :
        LET alike(x, y) == ~EntryBefore(x, y, by) /\ ~EntryBefore(y, x, by) IN
        /\ alike(a, a) /\ ~(EntryBefore(a, b, by) /\ EntryBefore(b, a, by))
        /\ EntryBefore(a, b, by) /\ EntryBefore(b, c, by) => EntryBefore(a, c, by)
        /\ alike(a, b) /\ alike(b, c) => alike(a, c)

ReplySound == AnswerTrue /\ Framed /\ Sortable
=============================================================================
