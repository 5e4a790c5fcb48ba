-------------------------------- MODULE TextUtils --------------------------------
(* The texts that the server takes apart: the URL and the query of a request of HTTP *)
(* or of a connection (Util::UnpackUrl, UnpackQuery), values separated by characters   *)
(* (String::Split, Trim), the names of a path (FileSystem::Unpack, GetName...), base64 *)
(* and files of options (Util::ReadIniFile).  Each is compared with what it should       *)
(* give, said from the text as a whole.                                                  *)
EXTENDS Integers, Sequences, FiniteSets, SequencesExt

CONSTANTS
    Urls, Queries, Lists, NamePaths, Inis, \* the texts: sequences of characters, or of what they are made of
    Bytes,                             \* of base64
    MaxBytes

TextAssumption ==
    /\ Bytes \subseteq 0 .. 255 /\ MaxBytes \in Nat
    /\ \A q \in Queries : \A i \in DOMAIN q :
           /\ {"&", "="} \cap Range(q[i].name) = {}
           /\ "value" \in DOMAIN q[i] => "&" \notin Range(q[i].value)

VARIABLES call \* what was taken apart: its kind and its text
vars == call
None == <<"none">>

(* A text is read from a place; these are the places where characters are not of a set. *)
From(text, i) == SubSeq(text, i, Len(text))
Upto(text, chars, i) == \* the first place from i of one of chars, or the end
    LET at == {k \in i .. Len(text) : text[k] \in chars} IN
    IF at = {} THEN Len(text) + 1 ELSE CHOOSE k \in at : \A n \in at : k <= n
Past(text, chars, i) == \* the first place from i of none of chars, or the end
    LET at == {k \in i .. Len(text) : text[k] \notin chars} IN
    IF at = {} THEN Len(text) + 1 ELSE CHOOSE k \in at : \A n \in at : k <= n

RECURSIVE Joined(_)
Joined(texts) == IF texts = <<>> THEN <<>> ELSE Head(texts) \o Joined(Tail(texts))
(* The pieces of a text between separators, the last one too when it is empty.             *)
RECURSIVE Pieces(_, _)
Pieces(text, chars) ==
    LET at == Upto(text, chars, 1) IN
    IF at > Len(text) THEN <<text>> ELSE <<SubSeq(text, 1, at - 1)>> \o Pieces(From(text, at + 1), chars)
NotEmpty(text) == text # <<>>
WithSlashes(names) == Joined([i \in DOMAIN names |-> <<"/">> \o names[i]])

-----------------------------------------------------------------------------
(* Util::UnpackUrl.  Where the path begins, and the address before it.                    *)
PathFrom(url) ==
    LET at == Upto(url, {"/", ":"}, 1) IN
    IF at > Len(url) \/ url[at] = "/" THEN at ELSE Upto(url, {"/"}, Past(url, {"/"}, at + 1))
AddressOf(url) ==
    LET at == Upto(url, {"/", ":"}, 1) IN
    IF at > Len(url) \/ url[at] = "/" THEN <<>>
    ELSE LET host == Past(url, {"/"}, at + 1) IN SubSeq(url, host, Upto(url, {"/"}, host) - 1)

RECURSIVE WithoutLastSlashes(_)
WithoutLastSlashes(path) ==
    IF path # <<>> /\ Last(path) = "/" THEN WithoutLastSlashes(Front(path)) ELSE path

(* The loop over the path at i: field is where the last name begins.  A position of 0 is  *)
(* npos.                                                                                     *)
RECURSIVE Normalise(_, _, _, _)
Normalise(path, i, field, isFile) ==
    IF i > Len(path) THEN [path |-> path, query |-> <<>>, file |-> IF isFile THEN field ELSE 0]
    ELSE IF path[i] = "?"
         THEN [path |-> WithoutLastSlashes(SubSeq(path, 1, i - 1)), query |-> From(path, i + 1), file |-> IF isFile THEN field ELSE 0]
    ELSE IF path[i] = "/"
         THEN LET erased == SubSeq(path, 1, i) \o From(path, Past(path, {"/"}, i + 1)) IN
              IF i = Len(erased) THEN [path |-> Front(erased), query |-> <<>>, file |-> 0]
              ELSE Normalise(erased, i + 1, i + 1, FALSE)
    ELSE Normalise(path, i + 1, field, TRUE)
UnpackUrl(url) == Normalise(From(url, PathFrom(url)), 1, 1, FALSE)

UrlRead(url) ==
    LET rest == From(url, PathFrom(url))
        ends == Upto(rest, {"?"}, 1)
        pieces == Pieces(SubSeq(rest, 1, ends - 1), {"/"})
        names == SelectSeq(pieces, NotEmpty)
        got == UnpackUrl(url)
    IN  /\ got.path = WithSlashes(names) /\ got.query = From(rest, ends + 1)
        /\ (got.file > 0) <=> (names # <<>> /\ Last(pieces) # <<>>)
        /\ got.file > 0 => From(got.path, got.file) = Last(names)
        /\ "/" \notin Range(AddressOf(url))

-----------------------------------------------------------------------------
(* Util::UnpackQuery.  DecodeURI takes "%" for a digit, and gives it back: what it codes   *)
(* is not decoded.                                                                           *)
DecodeURI(c) == c
Unescaped(text) == [i \in DOMAIN text |-> IF text[i] = "+" THEN " " ELSE DecodeURI(text[i])]
RECURSIVE UnpackQuery(_)
UnpackQuery(query) ==
    LET equals == Upto(query, {"=", "&"}, 1)
        ends == Upto(query, {"&"}, equals + 1)
        name == Unescaped(SubSeq(query, 1, equals - 1))
        rest == UnpackQuery(From(query, ends + 1))
    IN  CASE query = <<>> -> [ends |-> TRUE, fields |-> <<>>]
          [] equals > Len(query) -> [ends |-> TRUE, fields |-> <<[name |-> name, value |-> <<>>]>>]
          [] query[equals] = "&" \* it stays on the "&", and reads names that are empty for ever
               -> [ends |-> FALSE, fields |-> <<[name |-> name, value |-> <<>>]>>]
          [] OTHER -> [rest EXCEPT !.fields =
                          <<[name |-> name, value |-> Unescaped(SubSeq(query, equals + 1, ends - 1))]>> \o @]

(* The names and the values of a query that was written with them: a bare name has neither   *)
(* "=" nor value.  The reading ends unless a name that is bare is followed by another field;  *)
(* what is before that one is read, and all of it when there is none.                           *)
Bare(f) == "value" \notin DOMAIN f
QueryText(fields) ==
    LET field(f) == IF Bare(f) THEN f.name ELSE f.name \o <<"=">> \o f.value
        after(i) == IF i = 1 THEN <<>> ELSE <<"&">>
    IN  Joined([i \in DOMAIN fields |-> after(i) \o field(fields[i])])
QueryRead(fields) ==
    LET bare == {i \in DOMAIN fields : Bare(fields[i])}
        got == UnpackQuery(QueryText(fields))
        read(i) == [name |-> Unescaped(fields[i].name), value |-> IF i \in bare THEN <<>> ELSE Unescaped(fields[i].value)]
        last == CHOOSE n \in 0 .. Len(fields) : \* up to the first that is bare, but for an empty end
            /\ \A i \in bare : n <= IF i = Len(fields) /\ fields[i].name = <<>> THEN i - 1 ELSE i
            /\ n < Len(fields) => \E i \in bare : n = i \/ (n = i - 1 /\ i = Len(fields) /\ fields[i].name = <<>>)
    IN  /\ got.ends <=> bare \subseteq {Len(fields)}
        /\ got.fields = [i \in 1 .. last |-> read(i)]

-----------------------------------------------------------------------------
(* String::Trim, String::Split: a separator at the end has no value after it.                *)
Spaces == {" ", "\n"}
LastNot(text, chars) == LET at == {k \in DOMAIN text : text[k] \notin chars} IN
                        IF at = {} THEN 0 ELSE CHOOSE k \in at : \A n \in at : k >= n
Trim(text, left, right) ==
    SubSeq(text, IF left THEN Past(text, Spaces, 1) ELSE 1, IF right THEN LastNot(text, Spaces) ELSE Len(text))
RECURSIVE Split(_, _, _)
Split(text, trims, ignoresEmpty) ==
    IF text = <<>> THEN <<>>
    ELSE LET begin == IF trims THEN Past(text, Spaces, 1) ELSE 1
             at == Upto(text, {","}, begin)
             end == IF trims /\ at # begin
                    THEN LET last == LastNot(SubSeq(text, begin, at - 1), Spaces) IN begin + last
                    ELSE at
         IN  (IF ignoresEmpty /\ end = begin THEN <<>> ELSE <<SubSeq(text, begin, end - 1)>>)
             \o Split(From(text, at + 1), trims, ignoresEmpty)
SplitRight(text) ==
    \A trims, ignores \in BOOLEAN :
        LET all == Pieces(text, {","})
            kept == IF Last(all) = <<>> THEN Front(all) ELSE all
            trimmed == [i \in DOMAIN kept |-> IF trims THEN Trim(kept[i], TRUE, TRUE) ELSE kept[i]]
        IN  Split(text, trims, ignores) = IF ignores THEN SelectSeq(trimmed, NotEmpty) ELSE trimmed

-----------------------------------------------------------------------------
(* FileSystem: the parts of a path.                                                            *)
Separators == {"/", "\\"}
Separator(path) == LET at == {i \in DOMAIN path : path[i] \in Separators} IN
                   IF at = {} THEN 0 ELSE CHOOSE i \in at : \A n \in at : i >= n
Dot(path) == LET at == {i \in DOMAIN path : path[i] = "."} IN
             IF at = {} THEN 0 ELSE CHOOSE i \in at : \A n \in at : i >= n
GetName(path) == From(path, Separator(path) + 1)
GetBaseName(path) ==
    From(IF Dot(path) > Separator(path) THEN SubSeq(path, 1, Dot(path) - 1) ELSE path, Separator(path) + 1)
GetExtension(path) == IF Dot(path) > Separator(path) THEN From(path, Dot(path) + 1) ELSE <<>>
MakeFile(path) == WithoutLastSlashes(path)
MakeDirectory(path) == IF path # <<>> /\ Last(path) # "/" THEN Append(path, "/") ELSE path
UpTo(path) == IF Separator(path) > 0 THEN SubSeq(path, 1, Separator(path)) ELSE path \* Parent
Pack(names) == WithSlashes(SelectSeq(names, NotEmpty))

(* FileSystem::Unpack, at one name: it and itValue are places of the path.  A name of dots    *)
(* goes up, unless it ends the path.                                                             *)
RECURSIVE Unpack(_, _)
Unpack(path, values) ==
    IF path = <<>> THEN values
    ELSE LET begin == Past(path, Spaces, 1)
             after == Past(path, {"."}, begin)
             end == Upto(path, Separators, begin)
             dots == after > begin /\ after = end /\ end <= Len(path)
             last == begin - 1 + LastNot(SubSeq(path, begin, end - 1), Spaces)
         IN  IF dots THEN Unpack(From(path, end + 1), IF after - begin > 1 /\ values # <<>> THEN Front(values) ELSE values)
             ELSE IF end = begin THEN Unpack(From(path, end + 1), values)
             ELSE Unpack(From(path, last + 2), Append(values, SubSeq(path, begin, last)))

(* What a path names: its pieces, in order, without those that say the folder itself or       *)
(* the one above.                                                                                *)
Above(names) == IF names = <<>> THEN <<>> ELSE Front(names)
Resolved(path) ==
    LET pieces == Pieces(path, Separators)
        Add(i, acc) ==
            LET piece == Trim(pieces[i], TRUE, FALSE)
                dots == piece # <<>> /\ Range(piece) = {"."} /\ i < Len(pieces)
            IN  IF dots THEN IF Len(piece) > 1 THEN Above(acc) ELSE acc
                ELSE IF piece = <<>> THEN acc ELSE Append(acc, Trim(piece, FALSE, TRUE))
        all[i \in 0 .. Len(pieces)] == IF i = 0 THEN <<>> ELSE Add(i, all[i-1])
    IN  all[Len(pieces)]

PathRead(path) ==
    /\ Unpack(path, <<>>) = Resolved(path)
    /\ LET names == Unpack(path, <<>>) IN
       (\A i \in DOMAIN names : Range(names[i]) # {"."}) => Unpack(Pack(names), <<>>) = names
    /\ Separator(path) > 0 => path = UpTo(path) \o GetName(path)
    /\ GetName(path) = GetBaseName(path) \o (IF "." \in Range(GetName(path)) THEN <<".">> \o GetExtension(path) ELSE <<>>)
    /\ MakeFile(MakeDirectory(path)) = MakeFile(path)
    /\ path # <<>> => Last(MakeDirectory(path)) = "/"

-----------------------------------------------------------------------------
(* Util::ToBase64 and FromBase64: the bits that wait are the last of the accumulator; a       *)
(* digit is its value, 64 the padding.                                                          *)
Padding == 64
Digits(bytes) ==
    LET Step(s, byte) ==
            LET bits == s.bits + 8
                accumulator == (s.accumulator * 256 + byte) % 2^14
                count == bits \div 6
            IN  [bits |-> bits - 6 * count, accumulator |-> accumulator,
                 out |-> s.out \o [k \in 1 .. count |-> (accumulator \div 2^(bits - 6 * k)) % 64]]
    IN  FoldLeft(Step, [bits |-> 0, accumulator |-> 0, out |-> <<>>], bytes)
ToBase64(bytes) ==
    LET s == Digits(bytes)
        all == IF s.bits > 0 THEN Append(s.out, (s.accumulator * 2^(6 - s.bits)) % 64) ELSE s.out
        size == ((Len(bytes) + 2) \div 3) * 4
    IN  all \o [i \in 1 .. size - Len(all) |-> Padding]
FromBase64(digits) ==
    LET Step(s, digit) ==
            IF digit = Padding THEN s
            ELSE LET bits == s.bits + 6
                     accumulator == (s.accumulator * 64 + digit) % 2^14
                 IN  IF bits < 8 THEN [s EXCEPT !.bits = bits, !.accumulator = accumulator]
                     ELSE [bits |-> bits - 8, accumulator |-> accumulator,
                           out |-> Append(s.out, (accumulator \div 2^(bits - 8)) % 256)]
    IN  FoldLeft(Step, [bits |-> 0, accumulator |-> 0, out |-> <<>>], digits).out
Base64Read(bytes) ==
    /\ FromBase64(ToBase64(bytes)) = bytes
    /\ Len(ToBase64(bytes)) % 4 = 0 /\ \A i \in 1 .. Len(ToBase64(bytes)) - 2 : ToBase64(bytes)[i] # Padding

-----------------------------------------------------------------------------
(* Util::ReadIniFile, from a place of the file: what is read is the names, with the section   *)
(* they are in, and the values.                                                                  *)
Blanks == {" "}
FullKey(section, key) ==
    (IF Trim(section, FALSE, TRUE) = <<>> THEN <<>> ELSE Trim(section, FALSE, TRUE) \o <<".">>) \o Trim(key, FALSE, TRUE)
RECURSIVE ReadIni(_, _)
ReadIni(file, section) ==
    LET first == Past(file, Spaces, 1) IN
    IF first >= Len(file) THEN <<>>
    ELSE CASE file[first] = ";" -> ReadIni(From(file, Upto(file, {"\n"}, first) + 1), section)
           [] file[first] = "[" ->
                LET name == Past(file, Blanks, first + 1)
                    end == Upto(file, {"]", "\n"}, name + 1)
                IN  ReadIni(From(file, end + 1), SubSeq(file, name, end - 1))
           [] OTHER ->
                LET equals == Upto(file, {"=", "\n"}, first)
                    value == Past(file, Blanks, equals + 1)
                    end == Upto(file, {"\n"}, value + 1)
                    key == SubSeq(file, first, IF equals > Len(file) THEN Len(file) - 1 ELSE equals - 1)
                IN  IF equals > Len(file) \/ file[equals] = "\n"
                    THEN <<[name |-> FullKey(section, key), value |-> <<>>]>>
                         \o ReadIni(From(file, equals + 1), section)
                    ELSE <<[name |-> FullKey(section, key),
                            value |-> Trim(SubSeq(file, value, end - 1), FALSE, TRUE)]>>
                         \o ReadIni(From(file, end + 1), section)
(* The lines of a file: a section, a remark, or a name and its value, which is not empty.        *)
Line(line) ==
    CASE line.kind = "section" -> <<"[", " ">> \o line.name \o <<" ", "]", "\n">>
      [] line.kind = "remark" -> <<";">> \o line.name \o <<"\n">>
      [] line.kind = "option" -> line.name \o <<" ", "=", " ">> \o line.value \o <<" ", "\n">>
SectionAt(lines, i) ==
    LET before == {k \in 1 .. i - 1 : lines[k].kind = "section"} IN
    IF before = {} THEN <<>> ELSE Append(lines[CHOOSE k \in before : \A n \in before : k >= n].name, ".")
IniRead(lines) ==
    LET told == {i \in DOMAIN lines : lines[i].kind = "option"} IN
    Range(ReadIni(Joined([i \in DOMAIN lines |-> Line(lines[i])]), <<>>))
        = {[name |-> SectionAt(lines, i) \o lines[i].name, value |-> lines[i].value] : i \in told}

-----------------------------------------------------------------------------
Init == call = None

Take(kind, texts) == call = None /\ \E text \in texts : call' = <<kind, text>>
ReadUrl == Take("url", Urls)
ReadQuery == Take("query", Queries)
ReadList == Take("list", Lists)
ReadPath == Take("path", NamePaths)
ReadBytes == Take("bytes", UNION {[1 .. n -> Bytes] : n \in 0 .. MaxBytes})
ReadFile == Take("ini", Inis)

Next == ReadUrl \/ ReadQuery \/ ReadList \/ ReadPath \/ ReadBytes \/ ReadFile
Spec == Init /\ [][Next]_vars

(* Every text is taken apart as the whole of it says: no name, field or value is lost, added *)
(* or cut at a separator that is at the beginning, at the end or repeated.  A query is read    *)
(* to its end unless it has a name without "=" before an "&": the reading of that one never     *)
(* ends (Util.cpp:200); what "%" codes is never decoded                                           *)
(* (Util.cpp:116-247, 297-358, String.cpp:35-89, FileSystem.cpp:181-313, Util.h:74-118).            *)
TakenApart ==
    CASE call[1] = "url" -> UrlRead(call[2])
      [] call[1] = "query" -> QueryRead(call[2])
      [] call[1] = "list" -> SplitRight(call[2])
      [] call[1] = "path" -> PathRead(call[2])
      [] call[1] = "bytes" -> Base64Read(call[2])
      [] call[1] = "ini" -> IniRead(call[2])
      [] OTHER -> TRUE
=============================================================================
