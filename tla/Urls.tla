-------------------------------- MODULE Urls --------------------------------
(***************************************************************************)
(* AK/URL and URLParser: the state machine that reads a URL, alone or      *)
(* against a base, its serializers, and the setters.  A character is "h",  *)
(* "f", "g" or "x" (in a scheme: http, file, blob and one that is not      *)
(* special), a digit, a delimiter, or "%c", the percent encoding of c.  A  *)
(* member that is a null string is Null.  An action is a call with its     *)
(* result; percent_encode is read with the return it ends in elsewhere.    *)
(***************************************************************************)
EXTENDS Integers, Sequences, FiniteSets, TLC, SequencesExt

CONSTANTS Letter,  \* the characters that follow a prefix
          MaxRest, \* bound: how many do
          MaxSets  \* bound: setters called one after the other

VARIABLE call

Null == <<"null">>
NoPort == -1
Eof == "eof"
Url == [scheme |-> Null, username |-> Null, password |-> Null, host |-> Null, port |-> NoPort, paths |-> <<>>,
        query |-> Null, fragment |-> Null, cannot |-> FALSE, valid |-> FALSE]
Blank(s) == s \in {Null, <<>>}
IsSpecialScheme(scheme) == scheme \in {<<"h">>, <<"f">>}
IsSpecial(u) == IsSpecialScheme(u.scheme)
DefaultPort(scheme) == IF scheme = <<"h">> THEN 80 ELSE 0
Alpha == {"h", "f", "g", "x"}
Digit == ("0" :> 0) @@ ("8" :> 8)
PortPrefix == <<"h", ":", "/", "/", "x", ":">>

-----------------------------------------------------------------------------
(* Percent encoding                                                        *)

Decoding == ("%x" :> "x") @@ ("%/" :> "/") @@ ("%?" :> "?") @@ ("%#" :> "#") @@ ("% " :> " ") @@ ("%." :> ".")
Encoding == ("/" :> "%/") @@ ("?" :> "%?") @@ ("#" :> "%#") @@ (" " :> "% ")
PercentDecode(s) == [i \in DOMAIN s |-> IF s[i] \in DOMAIN Decoding THEN Decoding[s[i]] ELSE s[i]]
\* code_point_is_in_percent_encode_set
EncodeSet == [c0 |-> {}, fragment |-> {" "}, query |-> {" ", "#"}, path |-> {" ", "#", "?"},
              userinfo |-> {" ", "#", "?", "/"}]
PercentEncode(s, set) == [i \in DOMAIN s |-> IF s[i] \in EncodeSet[set] THEN Encoding[s[i]] ELSE s[i]]

-----------------------------------------------------------------------------
(* Hosts and segments                                                      *)

Forbidden == {" ", "#", "/", ":", "?", "@", "[", "\\", "]", "|"}
NoHost == <<"none">>
\* parse_host: a host in brackets is not implemented, and the parser drops the brackets before.
ParseHost(s, special) ==
    LET host == IF special THEN PercentDecode(s) ELSE PercentEncode(s, "c0")
    IN  IF ToSet(host) \cap Forbidden # {} THEN NoHost ELSE host
StartsWithDriveLetter(s) ==
    /\ Len(s) >= 2 /\ (s[1] \in Alpha \/ s[2] \in {":", "|"})
    /\ Len(s) = 2 \/ s[3] \in {"/", "\\", "?", "#"}
IsDriveLetter(s) == Len(s) = 2 /\ s[1] \in Alpha /\ s[2] \in {":", "|"}
IsNormalizedDriveLetter(s) == IsDriveLetter(s) /\ s[2] = ":"
IsSingleDot(s) == s \in {<<".">>, <<"%.">>}
IsDoubleDot(s) == Len(s) = 2 /\ ToSet(s) \subseteq {".", "%."}
Shortened(u) ==
    IF u.paths = <<>> \/ (u.scheme = <<"f">> /\ Len(u.paths) = 1 /\ IsNormalizedDriveLetter(u.paths[1]))
    THEN u.paths ELSE Front(u.paths)

-----------------------------------------------------------------------------
(* The parser: p is its state, the position, the buffer, and the URL so    *)
(* far.  A step is one turn of the loop; Stay is its "continue".           *)

Stay(p, state) == [p EXCEPT !.state = state]
\* The end of a turn: the loop ends behind the last character.
Advance(p, in) == IF p.at >= Len(in) THEN [p EXCEPT !.status = "done"] ELSE [p EXCEPT !.at = @ + 1]
Go(p, in, state) == Advance(Stay(p, state), in)
Skip(p, in, state) == Advance([Stay(p, state) EXCEPT !.at = @ + 1], in)
Fail(p) == [p EXCEPT !.status = "failed"]
Halt(p) == [p EXCEPT !.status = "halted"]
Cleared(p) == [p EXCEPT !.buffer = <<>>]
Character(p, in) == IF p.at < Len(in) THEN in[p.at + 1] ELSE Eof
Following(p, in) == SubSeq(in, p.at + 2, Len(in))
StartsWith(s, text) == IsPrefix(text, s)
Ends(p, c) == c \in {Eof, "/", "?", "#"} \/ (IsSpecial(p.url) /\ c = "\\")
IsSlash(p, c) == c = "/" \/ (IsSpecial(p.url) /\ c = "\\")
InheritHost(p, base) == [p EXCEPT !.url = [@ EXCEPT !.username = base.username, !.password = base.password,
                                                    !.host = base.host, !.port = base.port]]
ToQuery(p, in) == Go([p EXCEPT !.url.query = <<>>], in, "Query")
ToFragment(p, in) == Go([p EXCEPT !.url.fragment = <<>>], in, "Fragment")

SchemeStart(p, in, c) ==
    IF c \in Alpha THEN Go([p EXCEPT !.buffer = Append(@, c)], in, "Scheme") ELSE Stay(p, "NoScheme")
Scheme(p, in, c, base) ==
    LET q == Cleared([p EXCEPT !.url.scheme = p.buffer])
    IN  IF c \in Alpha \cup DOMAIN Digit \cup {"."} THEN [p EXCEPT !.buffer = Append(@, c), !.at = @ + 1]
        ELSE IF c # ":" THEN [Cleared(Stay(p, "NoScheme")) EXCEPT !.at = 0]
        ELSE IF p.buffer = <<"f">> THEN Go(q, in, "File")
        ELSE IF IsSpecial(q.url)
             THEN Go(q, in, IF base.scheme = q.url.scheme THEN "SpecialRelativeOrAuthority" ELSE "SpecialAuthoritySlashes")
        ELSE IF StartsWith(Following(p, in), <<"/">>) THEN Skip(q, in, "PathOrAuthority")
        ELSE Go([q EXCEPT !.url.cannot = TRUE, !.url.paths = Append(@, <<>>)], in, "CannotBeABaseUrlPath")
NoScheme(p, in, c, base) ==
    IF base = Url \/ (base.cannot /\ c # "#") THEN Fail(p)
    ELSE IF base.cannot
         THEN ToFragment([p EXCEPT !.url = [@ EXCEPT !.scheme = base.scheme, !.paths = base.paths,
                                                     !.query = base.query, !.cannot = TRUE]], in)
    ELSE Stay(p, IF base.scheme # <<"f">> THEN "Relative" ELSE "File")
Relative(p, in, c, base) ==
    LET q == [p EXCEPT !.url.scheme = base.scheme]
        r == [InheritHost(q, base) EXCEPT !.url = [@ EXCEPT !.paths = base.paths, !.query = base.query]]
    IN  IF IsSlash(q, c) THEN Go(q, in, "RelativeSlash")
        ELSE IF c = "?" THEN ToQuery(r, in)
        ELSE IF c = "#" THEN ToFragment(r, in)
        ELSE IF c = Eof THEN Go(r, in, "Relative")
        ELSE Stay([r EXCEPT !.url.query = Null, !.url.paths = IF @ = <<>> THEN @ ELSE Front(@)], "Path")
RelativeSlash(p, in, c, base) ==
    IF IsSpecial(p.url) /\ c \in {"/", "\\"} THEN Go(p, in, "SpecialAuthorityIgnoreSlashes")
    ELSE IF c = "/" THEN Go(p, in, "Authority")
    ELSE Stay(InheritHost(p, base), "Path")
\* SpecialRelativeOrAuthority and SpecialAuthoritySlashes
TwoSlashes(p, in, c, otherwise) ==
    IF c = "/" /\ StartsWith(Following(p, in), <<"/">>) THEN Skip(p, in, "SpecialAuthorityIgnoreSlashes")
    ELSE Stay(p, otherwise)
IgnoreSlashes(p, in, c) ==
    IF c \in {"/", "\\"} THEN Go(p, in, "SpecialAuthorityIgnoreSlashes") ELSE Stay(p, "Authority")
\* What is before an '@' is gone through in a builder that is empty: nothing becomes of it.
\* Mutant: the position goes back only by what is in the buffer.
BackByBuffer(p) == p.at - Len(p.buffer)
BackBeforeBuffer(p) == p.at - Len(p.buffer) - 1
Authority(p, in, c) ==
    IF c = "@" THEN Go([Cleared(p) EXCEPT !.atSeen = TRUE], in, "Authority")
    ELSE IF ~Ends(p, c) THEN Go([p EXCEPT !.buffer = Append(@, c)], in, "Authority")
    ELSE IF p.atSeen /\ p.buffer = <<>> THEN Fail(p)
    ELSE Go([Cleared(p) EXCEPT !.at = BackBeforeBuffer(p)], in, "Host")
Host(p, in, c) ==
    LET host == ParseHost(p.buffer, IsSpecial(p.url))
        q == Cleared([p EXCEPT !.url.host = host])
        colon == c = ":" /\ ~p.brackets
    IN  IF colon \/ Ends(p, c)
        THEN IF p.buffer = <<>> /\ (colon \/ IsSpecial(p.url)) THEN Fail(p)
             ELSE IF host = NoHost THEN Fail(p)
             ELSE IF colon THEN Go(q, in, "Port") ELSE Stay(q, "Port")
        ELSE IF c \in {"[", "]"} THEN Go([p EXCEPT !.brackets = (c = "[")], in, "Host")
        ELSE Go([p EXCEPT !.buffer = Append(@, c)], in, "Host")
\* The number is read by to_uint, whose trimming leaves the first digit.
PortUnlessDefault(u, port) == IF port = DefaultPort(u.scheme) THEN NoPort ELSE port
Port(p, in, c) ==
    IF c \in DOMAIN Digit THEN Go([p EXCEPT !.buffer = Append(@, c)], in, "Port")
    ELSE IF ~Ends(p, c) THEN Fail(p)
    ELSE IF p.buffer = <<>> THEN Stay(p, "PathStart")
    ELSE Stay(Cleared([p EXCEPT !.url.port = PortUnlessDefault(p.url, Digit[p.buffer[1]])]), "PathStart")
\* Without a base, a character that is no slash changes nothing and is gone, here and in FileSlash.
File(p, in, c, base) ==
    LET q == [p EXCEPT !.url.scheme = <<"f">>, !.url.host = <<>>]
        r == [q EXCEPT !.url = [@ EXCEPT !.host = base.host, !.paths = base.paths, !.query = base.query]]
        drive == StartsWithDriveLetter(SubSeq(in, p.at + 1, Len(in)))
    IN  IF c \in {"/", "\\"} THEN Go(q, in, "FileSlash")
        ELSE IF base.scheme # <<"f">> THEN Go(q, in, "File")
        ELSE IF c = "?" THEN ToQuery(r, in)
        ELSE IF c = "#" THEN ToFragment(r, in)
        ELSE IF c = Eof THEN Go(r, in, "File")
        ELSE Stay([r EXCEPT !.url.query = Null, !.url.paths = IF drive THEN <<>> ELSE Shortened(r.url)], "Path")
FileSlash(p, in, c, base) ==
    LET q == [p EXCEPT !.url.host = base.host]
        drive == StartsWithDriveLetter(SubSeq(in, p.at + 1, Len(in)))
    IN  IF c \in {"/", "\\"} THEN Go(p, in, "FileHost")
        ELSE IF base.scheme # <<"f">> THEN Go(p, in, "FileSlash")
        ELSE IF ~drive /\ base.paths = <<>> THEN Halt(p)
        ELSE IF ~drive /\ IsNormalizedDriveLetter(base.paths[1])
             THEN Stay([q EXCEPT !.url.paths = Append(@, base.paths[1])], "Path")
        ELSE Stay(q, "Path")
FileHost(p, in, c) ==
    LET host == ParseHost(p.buffer, FALSE)
    IN  IF c \notin {Eof, "/", "\\", "?", "#"} THEN Go([p EXCEPT !.buffer = Append(@, c)], in, "FileHost")
        ELSE IF IsDriveLetter(p.buffer) THEN Stay(p, "Path")
        ELSE IF host = NoHost THEN Fail(p)
        ELSE Stay(Cleared([p EXCEPT !.url.host = host]), "PathStart")
PathStart(p, in, c) ==
    IF IsSpecial(p.url) THEN IF c \in {"/", "\\"} THEN Go(p, in, "Path") ELSE Stay(p, "Path")
    ELSE CASE c = "?" -> ToQuery(p, in)
           [] c = "#" -> ToFragment(p, in)
           [] c = Eof -> Go(p, in, "PathStart")
           [] c = "/" -> Go(p, in, "Path")
           [] OTHER -> Stay(p, "Path")
DotsShorten(u, slash) == IF slash THEN Shortened(u) ELSE Append(Shortened(u), <<>>)
Segment(p, c) ==
    LET drive == p.url.scheme = <<"f">> /\ p.url.paths = <<>> /\ IsDriveLetter(p.buffer)
    IN  IF IsDoubleDot(p.buffer) THEN DotsShorten(p.url, IsSlash(p, c))
        ELSE IF IsSingleDot(p.buffer) THEN IF IsSlash(p, c) THEN p.url.paths ELSE Append(p.url.paths, <<>>)
        ELSE Append(p.url.paths, PercentDecode(IF drive THEN <<p.buffer[1], ":">> ELSE p.buffer))
Path(p, in, c) ==
    LET q == Cleared([p EXCEPT !.url.paths = Segment(p, c)])
    IN  IF ~Ends(p, c) THEN Go([p EXCEPT !.buffer = @ \o PercentEncode(<<c>>, "path")], in, "Path")
        ELSE IF c = "?" THEN ToQuery(q, in) ELSE IF c = "#" THEN ToFragment(q, in) ELSE Go(q, in, "Path")
\* The buffer is kept where the path ends: it comes again in what follows.
CannotBeABaseUrlPath(p, in, c) ==
    LET q == [p EXCEPT !.url.paths = <<PercentDecode(p.buffer)>>]
    IN  IF p.url.paths # <<<<>>>> THEN Halt(p)
        ELSE IF c = "?" THEN ToQuery(q, in) ELSE IF c = "#" THEN ToFragment(q, in)
        ELSE IF c = Eof THEN Go(q, in, "CannotBeABaseUrlPath")
        ELSE Go([p EXCEPT !.buffer = @ \o PercentEncode(<<c>>, "c0")], in, "CannotBeABaseUrlPath")
Query(p, in, c) ==
    LET q == Cleared([p EXCEPT !.url.query = PercentEncode(p.buffer, "query")])
    IN  IF c \notin {Eof, "#"} THEN Go([p EXCEPT !.buffer = Append(@, c)], in, "Query")
        ELSE IF p.url.query # <<>> THEN Halt(p)
        ELSE IF c = "#" THEN ToFragment(q, in) ELSE Go(q, in, "Query")
Fragment(p, in, c) ==
    IF c # Eof THEN Go([p EXCEPT !.buffer = Append(@, c)], in, "Fragment")
    ELSE Go(Cleared([p EXCEPT !.url.fragment = PercentDecode(p.buffer)]), in, "Fragment")

Turn(p, in, base) ==
    LET c == Character(p, in)
    IN  CASE p.state = "SchemeStart" -> SchemeStart(p, in, c)
          [] p.state = "Scheme" -> Scheme(p, in, c, base)
          [] p.state = "NoScheme" -> NoScheme(p, in, c, base)
          [] p.state = "SpecialRelativeOrAuthority" -> TwoSlashes(p, in, c, "Relative")
          [] p.state = "PathOrAuthority" -> IF c = "/" THEN Go(p, in, "Authority") ELSE Stay(p, "Path")
          [] p.state = "Relative" -> Relative(p, in, c, base)
          [] p.state = "RelativeSlash" -> RelativeSlash(p, in, c, base)
          [] p.state = "SpecialAuthoritySlashes" -> TwoSlashes(p, in, c, "SpecialAuthorityIgnoreSlashes")
          [] p.state = "SpecialAuthorityIgnoreSlashes" -> IgnoreSlashes(p, in, c)
          [] p.state = "Authority" -> Authority(p, in, c)
          [] p.state = "Host" -> Host(p, in, c)
          [] p.state = "Port" -> Port(p, in, c)
          [] p.state = "File" -> File(p, in, c, base)
          [] p.state = "FileSlash" -> FileSlash(p, in, c, base)
          [] p.state = "FileHost" -> FileHost(p, in, c)
          [] p.state = "PathStart" -> PathStart(p, in, c)
          [] p.state = "Path" -> Path(p, in, c)
          [] p.state = "CannotBeABaseUrlPath" -> CannotBeABaseUrlPath(p, in, c)
          [] p.state = "Query" -> Query(p, in, c)
          [] p.state = "Fragment" -> Fragment(p, in, c)

\* bound: the turns a parse may take before it counts as one that does not end
MaxTurns(in) == 4 * Len(in) + 8
RECURSIVE Turns(_, _, _, _)
Turns(p, in, base, left) ==
    IF p.status # "running" THEN p
    ELSE IF left = 0 THEN [p EXCEPT !.status = "endless"]
    ELSE Turns(Turn(p, in, base), in, base, left - 1)
\* URLParser::parse, on what is left of the input without blanks at its ends.
Parse(in, base) ==
    LET begun == [state |-> "SchemeStart", at |-> 0, buffer |-> <<>>, atSeen |-> FALSE, brackets |-> FALSE,
                  url |-> Url, status |-> "running"]
        p == Turns(begun, in, base, MaxTurns(in))
    IN  IF in = <<>> THEN [status |-> "failed", url |-> Url]
        ELSE [status |-> p.status, url |-> IF p.status = "done" THEN [p.url EXCEPT !.valid = TRUE] ELSE Url]

-----------------------------------------------------------------------------
(* Serializers and setters                                                 *)

DigitName == (8 :> "8") @@ (0 :> "0")
Credentials(u) ==
    IF Blank(u.username) /\ Blank(u.password) THEN <<>>
    ELSE PercentEncode(u.username, "userinfo")
         \o (IF Blank(u.password) THEN <<>> ELSE <<":">> \o PercentEncode(u.password, "userinfo")) \o <<"@">>
HostAndPort(u, credentials) ==
    IF u.host = Null THEN <<>>
    ELSE <<"/", "/">> \o (IF credentials THEN Credentials(u) ELSE <<>>) \o u.host
         \o (IF u.port = NoPort THEN <<>> ELSE <<":", DigitName[u.port]>>)
\* Mutant: no dot keeps an empty first segment from being read as an authority.
NoDot(u) == <<>>
DotBefore(u) == IF u.host = Null /\ Len(u.paths) > 1 /\ u.paths[1] = <<>> THEN <<"/", ".">> ELSE <<>>
Serialize(u, credentials, fragment) ==
    u.scheme \o <<":">> \o HostAndPort(u, credentials)
    \o (IF u.cannot THEN PercentEncode(u.paths[1], "path")
        ELSE DotBefore(u) \o FlattenSeq([i \in DOMAIN u.paths |-> <<"/">> \o PercentEncode(u.paths[i], "path")]))
    \o (IF u.query = Null THEN <<>> ELSE <<"?">> \o PercentEncode(u.query, "query"))
    \o (IF ~fragment \/ u.fragment = Null THEN <<>> ELSE <<"#">> \o PercentEncode(u.fragment, "fragment"))
\* serialize_origin; of a blob the origin of the URL in its path.
SerializeOrigin(u) ==
    LET inner == IF u.scheme = <<"g">> THEN Parse(u.paths[1], Url).url ELSE u
    IN  IF inner.scheme # <<"h">> \/ ~inner.valid THEN Null ELSE inner.scheme \o <<":">> \o HostAndPort(inner, FALSE)
UrlEquals(a, b, fragments) ==
    a.valid /\ b.valid /\ Serialize(a, TRUE, fragments) = Serialize(b, TRUE, fragments)

ComputeValidity(u) ==
    /\ ~Blank(u.scheme)
    /\ IF u.cannot THEN Len(u.paths) = 1 /\ u.paths[1] # <<>> ELSE u.paths # <<>>
    /\ u.scheme = <<"f">> => u.host # Null
Revalidated(u) == [u EXCEPT !.valid = ComputeValidity(u)]
SetPort(u, port) ==
    IF port = DefaultPort(u.scheme) THEN [u EXCEPT !.port = NoPort] ELSE Revalidated([u EXCEPT !.port = port])
\* create_with_file_scheme, of the parts of an absolute path
WithFileScheme(parts, slash, hostname) ==
    LET u == Revalidated([Url EXCEPT !.scheme = <<"f">>, !.host = IF Blank(hostname) THEN <<>> ELSE hostname,
                                     !.paths = parts])
    IN  IF slash THEN [u EXCEPT !.paths = Append(@, <<>>)] ELSE u
Setters(u) ==
    {[u EXCEPT !.query = <<"x">>], [u EXCEPT !.fragment = <<"x">>], [u EXCEPT !.cannot = ~@]}
    \cup {Revalidated([u EXCEPT !.scheme = s]) : s \in {<<>>, <<"h">>, <<"f">>, <<"x">>}}
    \cup {Revalidated([u EXCEPT !.host = s]) : s \in {<<>>, <<"x">>}}
    \cup {Revalidated([u EXCEPT !.username = <<"x">>]), Revalidated([u EXCEPT !.password = <<"x">>])}
    \cup {Revalidated([u EXCEPT !.paths = s]) : s \in {<<>>, <<<<>>>>, <<<<"x">>, <<>>>>}}
    \cup {SetPort(u, port) : port \in {NoPort, 80, 8}}

-----------------------------------------------------------------------------
Bases ==
    {Url} \cup {Parse(in, Url).url : in \in
        {<<"h", ":", "/", "/", "x", ":", "8", "/", "x", "/", "x", "?", "x", "#", "x">>, <<"x", ":", "x">>,
         <<"x", ":", "/", "x", "/", "x">>, <<"f", ":", "/", "/", "/", "x", ":", "/", "x">>, <<"f", ":">>}}
Prefix ==
    {<<>>, <<"h", ":">>, <<"h", ":", "/", "/">>, <<"f", ":">>, <<"f", ":", "/", "/">>, <<"x", ":">>,
     <<"x", ":", "/">>, <<"g", ":", "h", ":">>, PortPrefix}
Idle == [op |-> "none"]
Init == call = Idle
ParseInput ==
    \E prefix \in Prefix, rest \in BoundedSeq(Letter, MaxRest), base \in Bases :
        /\ base = Url \/ prefix \in {<<>>, <<"h", ":">>}
        /\ LET r == Parse(prefix \o rest, base)
               text == IF r.status = "done" THEN Serialize(r.url, TRUE, TRUE) ELSE <<>>
           IN  call' = [op |-> "parse", in |-> prefix \o rest, base |-> base, r |-> r, text |-> text,
                        rest |-> rest, again |-> Parse(text, Url), origin |-> IF r.status = "done" THEN SerializeOrigin(r.url) ELSE Null]
Create ==
    \E parts \in BoundedSeq({<<"x">>, <<"h">>}, 2), slash \in BOOLEAN, host \in {Null, <<"x">>} :
        LET u == WithFileScheme(parts, slash, host)
        IN  call' = [op |-> "create", u |-> u, slash |-> slash, parts |-> parts, again |-> Parse(Serialize(u, TRUE, TRUE), Url)]
Set ==
    \/ call = Idle /\ \E u \in {b \in Bases : b.port # 8} : call' = [op |-> "set", u |-> u, sets |-> 0, was |-> u]
    \/ /\ call.op = "set" /\ call.sets < MaxSets
       /\ \E u \in Setters(call.u) : call' = [op |-> "set", u |-> u, sets |-> call.sets + 1, was |-> call.u]
Next == (call = Idle /\ (ParseInput \/ Create)) \/ Set
Spec == Init /\ [][Next]_call

-----------------------------------------------------------------------------
Accepted == call.op = "parse" /\ call.r.status = "done"

\* The parser ends on every input, alone or against a base, no VERIFY in it fails, and what it
\* accepts has the members its kind needs: a special URL a host, one that cannot be a base one
\* path and no host.  (A base without a path is where it halts.)  A port is the first digit of
\* the one in the text, which trimming leaves of it.
WrittenPort == \* the digits behind the colon, where they end the authority; none of another input
    LET Stop(k) == k = Len(call.rest) \/ call.rest[k + 1] \notin DOMAIN Digit
        n == CHOOSE k \in 0 .. Len(call.rest) : Stop(k) /\ \A i \in 1 .. k : call.rest[i] \in DOMAIN Digit
    IN  IF call.in = PortPrefix \o call.rest /\ "@" \notin ToSet(call.rest) THEN SubSeq(call.rest, 1, n) ELSE <<>>
ParserEnds ==
    /\ call.op = "parse" =>
           /\ call.r.status # "endless"
           /\ call.r.status = "halted" => call.base.scheme = <<"f">> /\ call.base.paths = <<>>
    /\ Accepted =>
           LET u == call.r.url
           IN  /\ ~Blank(u.scheme)
               /\ u.scheme = <<"h">> => ~Blank(u.host)
               /\ u.scheme = <<"f">> => u.host # Null
               /\ u.cannot => Len(u.paths) = 1 /\ u.host = Null /\ u.port = NoPort
               /\ ~u.cannot => \A i \in DOMAIN u.paths : ~IsDoubleDot(u.paths[i])
               /\ u.port # NoPort => u.port # DefaultPort(u.scheme)
               /\ WrittenPort # <<>> => u.port = Digit[Head(WrittenPort)]
\* Not so of URLParser.cpp:495, since to_uint trims as StringUtils.cpp:316-324 do: a port is the one in the text.
PortsRead ==
    Accepted /\ WrittenPort # <<>> =>
        LET port == FoldLeft(LAMBDA n, c : 10 * n + Digit[c], 0, WrittenPort)
        IN  call.r.url.port = PortUnlessDefault(call.r.url, port)

\* What serialize writes of a URL that was parsed is parsed to that URL again, but for those
\* that SerializesAlways names.
SerializesBack ==
    /\ Accepted /\ (\A i \in DOMAIN call.in : call.in[i] # "%/")
       /\ (IsSpecial(call.r.url) => call.r.url.paths # <<>>)
       /\ (call.r.url.cannot => call.r.url.query = Null /\ call.r.url.fragment = Null) =>
           call.again = call.r
    /\ call.op = "create" /\ (call.parts # <<>> \/ call.slash) =>
           call.again.status = "done" /\ UrlEquals([call.u EXCEPT !.valid = TRUE], call.again.url, TRUE)
    /\ Accepted /\ call.origin # Null => SerializeOrigin(Parse(call.origin, Url).url) = call.origin

\* Not so: a file URL can be parsed against any base (URLParser.cpp:545-558 asks for the first segment of a
\* base that has none), and whatever URL is serialized comes back: not an escaped slash in a path, which was
\* decoded (620), a special URL that has no path yet, nor the query or fragment of a URL that cannot be a
\* base, which starts with its path for the buffer is not cleared (637-662).
NeverHalts == call.op = "parse" => call.r.status # "halted"
SerializesAlways == Accepted => call.again = call.r

\* URL.h: "The member variables cannot contain any percent encoded sequences."
NothingEncoded ==
    Accepted => /\ call.r.url.query # Null => ToSet(call.r.url.query) \cap DOMAIN Decoding = {}
                /\ call.r.url.fragment # Null => ToSet(call.r.url.fragment) \cap DOMAIN Decoding = {}

\* URL.h: "If the port is the default port for the scheme, m_port should be empty."
DefaultPortEmpty == call.op = "set" /\ call.u.port # NoPort => call.u.port # DefaultPort(call.u.scheme)
=============================================================================
