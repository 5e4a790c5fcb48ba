------------------------------- MODULE Addresses -------------------------------
(* IPAddress.cpp and SocketAddress.cpp: an address that is set from hosts, from   *)
(* texts and from names, its text, kept once it has been asked for, and the order *)
(* of addresses, by which sessions are found.  A host of IPv4 has four bytes, one  *)
(* of IPv6 eight words and perhaps the interface it is to be reached by.            *)
(* A text is made of words, of bytes with their dots, of the number or the name of *)
(* a port and of the characters ":", "[", "]" and "%".                              *)
EXTENDS Integers, Sequences, SequencesExt, FiniteSetsExt

CONSTANTS
    HostsV4,     \* quadruples of bytes
    HostsV6,     \* sequences of eight words
    Interfaces,  \* numbers of network interfaces
    Ports,       \* numbers of ports
    Names,       \* what DNS knows: each name with the hosts it has, in their order
    Services     \* what the system knows: each service with its port

Mark(m) == [mark |-> m]
Colon == Mark(":")
MaxPort == 65535
HostV4(bytes) == [family |-> "IPv4", words |-> bytes, scope |-> 0]
HostV6(words, scope) == [family |-> "IPv6", words |-> words, scope |-> scope]
Hosts == {HostV4(b) : b \in HostsV4} \cup {HostV6(w, s) : w \in HostsV6, s \in {0} \cup Interfaces}

AddressAssumption ==
    /\ HostsV4 \subseteq [1 .. 4 -> 0 .. 255] /\ HostsV6 \subseteq [1 .. 8 -> 0 .. 65535]
    /\ Interfaces \subseteq Nat \ {0} /\ Ports \subseteq 0 .. MaxPort
    /\ \A n \in DOMAIN Names : Names[n] \in Seq(Hosts)
    /\ \A s \in DOMAIN Services : Services[s] \in 1 .. MaxPort

VARIABLES
    address,  \* host and port, and the text that is kept (_toString)
    failed    \* whether the last text gave an error

vars == <<address, failed>>

-----------------------------------------------------------------------------
(* IPAddress::toString.  A word that is zero alone is written as nothing: FormatHex *)
(* trims its two bytes.                                                              *)
Zeros(words, i) == Cardinality({j \in i .. 8 : \A k \in i .. j : words[k] = 0})
Hex(word) == IF word = 0 THEN <<>> ELSE <<[word |-> word]>>
Dotted(bytes) == [bytes |-> bytes]
IsIPv4Compatible(words) == \A i \in 1 .. 6 : words[i] = 0
IsIPv4Mapped(words) == words[6] = 65535 /\ \A i \in 1 .. 5 : words[i] = 0
LastBytes(words) == Dotted(<<words[7] \div 256, words[7] % 256, words[8] \div 256, words[8] % 256>>)

RECURSIVE WordsFrom(_, _, _)
WordsFrom(words, i, compressed) ==
    LET run == Zeros(words, i)
        skips == ~compressed /\ run > 1
        next == IF skips THEN i + run ELSE i
    IN  IF i > 8 THEN <<>>
        ELSE (IF skips THEN <<Colon>> ELSE <<>>) \o (IF next > 1 THEN <<Colon>> ELSE <<>>)
             \o (IF next > 8 THEN <<>> ELSE Hex(words[next]) \o WordsFrom(words, next + 1, compressed \/ skips))

HostText(host) ==
    LET words == host.words IN
    IF host.family = "IPv4" THEN <<Dotted(words)>>
    ELSE IF IsIPv4Compatible(words) THEN <<Colon, Colon, LastBytes(words)>>
    ELSE IF IsIPv4Mapped(words) THEN <<Colon, Colon, [word |-> 65535], Colon, LastBytes(words)>>
    ELSE WordsFrom(words, 1, FALSE) \o (IF host.scope > 0 THEN <<Mark("%"), [interface |-> host.scope]>> ELSE <<>>)

(* SocketAddress::toString, without what it keeps. *)
TextOf(a) ==
    (IF a.host.family = "IPv6" THEN <<Mark("[")>> \o HostText(a.host) \o <<Mark("]")>> ELSE HostText(a.host))
    \o <<Colon, [number |-> a.port]>>

-----------------------------------------------------------------------------
(* inet_pton: words with ":" between them, perhaps bytes at the end, and "::" once *)
(* for what is missing.  None if the text is no address.                            *)
None == <<>>
Is(token, kind) == kind \in DOMAIN token
IsList(part) ==
    part = <<>> \/ (Len(part) % 2 = 1 /\
                    \A i \in DOMAIN part : IF i % 2 = 0 THEN part[i] = Colon
                                           ELSE Is(part[i], "word") \/ (i = Len(part) /\ Is(part[i], "bytes")))
Listed(part) ==
    FlattenSeq([i \in 1 .. (Len(part) + 1) \div 2 |->
        LET token == part[2 * i - 1] IN
        IF Is(token, "word") THEN <<token.word>>
        ELSE <<256 * token.bytes[1] + token.bytes[2], 256 * token.bytes[3] + token.bytes[4]>>])

Presentation(text) ==
    LET gaps == {i \in 1 .. Len(text) - 1 : text[i] = Colon /\ text[i + 1] = Colon}
        gap == Min(gaps)
        left == SubSeq(text, 1, gap - 1)
        right == SubSeq(text, gap + 2, Len(text))
        missing == 8 - Len(Listed(left)) - Len(Listed(right))
    IN  IF gaps = {} THEN IF IsList(text) /\ Len(Listed(text)) = 8 THEN Listed(text) ELSE None
        ELSE IF Cardinality(gaps) > 1 \/ ~IsList(left) \/ ~IsList(right) \/ missing < 1 THEN None
        ELSE Listed(left) \o [i \in 1 .. missing |-> 0] \o Listed(right)

(* IPAddress::set: as IPv4, then as IPv6. *)
ParseV4(text) == IF Len(text) = 1 /\ Is(text[1], "bytes") THEN {HostV4(text[1].bytes)} ELSE {}
ParseV6(text) ==
    LET percents == {i \in DOMAIN text : text[i] = Mark("%")}
        words == Presentation(IF percents = {} THEN text ELSE SubSeq(text, 1, Min(percents) - 1))
        scope == IF percents = {} THEN 0 ELSE text[Min(percents) + 1].interface
    IN  IF words = None \/ (percents # {} /\ scope \notin Interfaces) THEN {} ELSE {HostV6(words, scope)}
ParseHost(text) == IF ParseV4(text) # {} THEN ParseV4(text) ELSE ParseV6(text)

-----------------------------------------------------------------------------
(* String::ToNumber for the number of a port. *)
IsPort(n) == n < MaxPort

(* resolveService: a port and whether there is one; port 0 if it is not known. *)
Service(token) ==
    IF Is(token, "number") /\ IsPort(token.number) THEN [port |-> token.number, known |-> TRUE]
    ELSE IF Is(token, "service") /\ token.service \in DOMAIN Services
         THEN [port |-> Services[token.service], known |-> TRUE]
    ELSE [port |-> 0, known |-> FALSE]

(* The host that DNS gives: the first of IPv4, or else the first. *)
Preferred(hosts) ==
    LET v4 == {i \in DOMAIN hosts : hosts[i].family = "IPv4"} IN hosts[IF v4 = {} THEN 1 ELSE Min(v4)]

Unset(family) == [host |-> IF family = "IPv6" THEN HostV6([i \in 1 .. 8 |-> 0], 0) ELSE HostV4(<<0, 0, 0, 0>>),
                  port |-> 0, shown |-> None]

(* Variant: the text that was asked for before stays. *)
PutKeeping(host, port) == address' = [address EXCEPT !.host = host, !.port = port]

(* set: a new address, whose text has not been asked for. *)
Put(host, port) == address' = [host |-> host, port |-> port, shown |-> None]

(* setIntern, of a host or the name of one. *)
SetHost(text, service, resolves) ==
    LET hosts == ParseHost(text)
        named == Len(text) = 1 /\ Is(text[1], "name") /\ text[1].name \in DOMAIN Names
        found == IF named THEN Names[text[1].name] ELSE <<>>
    IN  IF hosts # {} THEN failed' = ~service.known /\ Put(CHOOSE h \in hosts : TRUE, service.port)
        ELSE IF resolves /\ found # <<>> THEN failed' = ~service.known /\ Put(Preferred(found), service.port)
        ELSE failed' = TRUE /\ UNCHANGED address

(* setIntern, of a host and a port in one text. *)
SetText(text, resolves) ==
    LET bracketed == text[1] = Mark("[")
        stop == IF bracketed THEN Mark("]") ELSE Colon
        ends == {i \in DOMAIN text : text[i] = stop}
        last == IF ends = {} THEN Len(text) + 1 ELSE Min(ends)
        colon == IF bracketed THEN last + 1 ELSE last
        host == SubSeq(text, IF bracketed THEN 2 ELSE 1, last - 1)
    IN  IF (bracketed /\ ends = {}) \/ colon > Len(text) THEN failed' = TRUE /\ UNCHANGED address
        ELSE IF text[colon] # Colon \/ Len(text) # colon + 1
             THEN SetHost(host, [port |-> 0, known |-> FALSE], resolves)
        ELSE SetHost(host, Service(text[colon + 1]), resolves)

-----------------------------------------------------------------------------
TypeOK == /\ Len(address.host.words) = (IF address.host.family = "IPv4" THEN 4 ELSE 8) /\ address.port \in 0 .. MaxPort
          /\ failed \in BOOLEAN

Init == address = Unset("IPv4") /\ failed = FALSE

SetAddress == \E h \in Hosts, p \in Ports : Put(h, p) /\ failed' = FALSE

(* The texts of configurations, of commands and of requests: addresses as they are  *)
(* written, names, and what is no address.                                           *)
PortTexts == {[number |-> p] : p \in Ports} \cup {[service |-> s] : s \in DOMAIN Services \cup {"unknown"}}
HostTexts == {<<[name |-> n]>> : n \in DOMAIN Names} \cup {<<[bytes |-> b]>> : b \in HostsV4}
Texts == {h \o <<Colon, p>> : h \in HostTexts, p \in PortTexts} \cup HostTexts
         \cup {<<Mark("["), Colon, Colon, [bytes |-> b], Mark("]"), Colon, p>> : b \in HostsV4, p \in PortTexts}
         \cup {<<Mark("["), [bytes |-> b], Mark("]"), Colon, p>> : b \in HostsV4, p \in PortTexts}
         \cup {<<Mark("["), Colon, Colon, [bytes |-> b], Colon, p>> : b \in HostsV4, p \in PortTexts}

SetAddressText == \E text \in Texts, resolves \in BOOLEAN : SetText(text, resolves)

Reset == address' = Unset(address.host.family) /\ UNCHANGED failed

(* toString. *)
Show == /\ address' = [address EXCEPT !.shown = IF @ = None THEN TextOf(address) ELSE @]
        /\ UNCHANGED failed

Next == SetAddress \/ SetAddressText \/ Reset \/ Show

Spec == Init /\ [][Next]_vars

-----------------------------------------------------------------------------
(* operator< of the two classes; the interface does not count.                       *)
Differs(a, b) == {i \in DOMAIN a : a[i] # b[i]}
HostBefore(a, b) ==
    IF Len(a.words) # Len(b.words) THEN Len(a.words) < Len(b.words)
    ELSE LET differs == Differs(a.words, b.words) IN
         differs # {} /\ a.words[Min(differs)] < b.words[Min(differs)]
Before(a, b) ==
    \/ a.host.family = "IPv4" /\ b.host.family = "IPv6"
    \/ a.host.family = b.host.family /\ HostBefore(a.host, b.host)
    \/ a.host.family = b.host.family /\ a.host.words = b.host.words /\ a.port < b.port
Same(a, b) == a.port = b.port /\ a.host.words = b.host.words

(* Any two addresses have an order, one or the other way, or are the same.          *)
Ordered ==
    \A other \in {[host |-> h, port |-> address.port] : h \in Hosts} \cup {[address EXCEPT !.port = p] : p \in Ports} :
        IF Same(address, other) THEN ~Before(address, other) /\ ~Before(other, address)
        ELSE Before(address, other) <=> ~Before(other, address)

(* The text of an address is its own, though it is kept, and an address is read     *)
(* again from its text, host, interface and port.  Known not to: an address with a   *)
(* word that is zero by itself, and port 65535, which is taken for no number.         *)
LoneZero(words) ==
    \E i \in 1 .. 8 : /\ words[i] = 0
                      /\ \/ Zeros(words, i) = 1 /\ (i = 1 \/ words[i - 1] # 0)
                         \/ \E j \in 1 .. i - 1 : Zeros(words, j) \in 2 .. i - j
Host == address.host
TextReadsBack ==
    address.shown # None =>
        /\ address.shown = TextOf(address)
        /\ (Host.family = "IPv6" /\ ~IsIPv4Compatible(Host.words) /\ ~IsIPv4Mapped(Host.words)) =>
              LoneZero(Host.words) \/ ParseHost(HostText(Host)) = {Host}
        /\ (Host.family = "IPv4" \/ IsIPv4Compatible(Host.words) \/ IsIPv4Mapped(Host.words)) =>
              ParseHost(HostText(Host)) = {[Host EXCEPT !.scope = 0]}
        /\ address.port # MaxPort => Service(Last(address.shown)) = [port |-> address.port, known |-> TRUE]

AddressesRight == Ordered /\ TextReadsBack
=============================================================================
