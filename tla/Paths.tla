------------------------------- MODULE Paths -------------------------------
(***************************************************************************)
(* AK/LexicalPath.h/.cpp: paths taken apart and put together as text.  A   *)
(* path is a sequence of characters, "/", "." and letters; an action is a  *)
(* call with its result.  The null string is left to its callers.          *)
(***************************************************************************)
EXTENDS Integers, Sequences, FiniteSets, SequencesExt

CONSTANTS Letter, MaxPath, \* the names' letters and the length of a path
          MaxPrefix        \* bound: the length of the path a relative one starts from

VARIABLE call

Dot == <<".">>
DotDot == <<".", ".">>
Slash == <<"/">>
ContainsText(s, t) == \E i \in 0 .. Len(s) - Len(t) : SubSeq(s, i + 1, i + Len(t)) = t
EndsInSlash(s) == s # <<>> /\ Last(s) = "/"
LastOf(s, c) == \* find_last, counted from 1, or 0
    LET at == {i \in DOMAIN s : s[i] = c} IN IF at = {} THEN 0 ELSE CHOOSE i \in at : \A j \in at : j <= i

\* split_view('/'), which keeps no empty part, and join('/').
RECURSIVE Parts(_, _)
Parts(s, part) ==
    LET kept == IF part = <<>> THEN <<>> ELSE <<part>>
    IN  IF s = <<>> THEN kept
        ELSE IF Head(s) = "/" THEN kept \o Parts(Tail(s), <<>>) ELSE Parts(Tail(s), Append(part, Head(s)))
Join(parts) == FlattenSeq([i \in DOMAIN parts |-> IF i = 1 THEN parts[i] ELSE Slash \o parts[i]])
IsAbsolute(s) == s # <<>> /\ s[1] = "/"

\* One part of canonicalized_path's loop.  Mutant: a ".." takes off a ".." as well.
TakesAny(parts, part, absolute) ==
    CASE part = Dot -> parts
      [] part = DotDot /\ parts = <<>> /\ absolute -> parts
      [] part = DotDot /\ parts # <<>> -> Front(parts)
      [] OTHER -> Append(parts, part)
WithPart(parts, part, absolute) ==
    CASE part = Dot -> parts
      [] part = DotDot /\ parts = <<>> /\ absolute -> parts
      [] part = DotDot /\ parts # <<>> /\ Last(parts) # DotDot -> Front(parts)
      [] OTHER -> Append(parts, part)
\* Without dots, "//" and a slash at the end a path is taken to be canonical as it is.
CanonicalizedPath(s) ==
    LET parts == FoldLeft(LAMBDA acc, part : WithPart(acc, part, IsAbsolute(s)), <<>>, Parts(s, <<>>))
    IN  IF s = <<>> THEN Dot
        ELSE IF ~ContainsText(s, Dot) /\ ~ContainsText(s, <<"/", "/">>) /\ ~EndsInSlash(s) THEN s
        ELSE IF IsAbsolute(s) THEN Slash \o Join(parts)
        ELSE IF parts = <<>> THEN Dot ELSE Join(parts)

\* The constructor.
LexicalPath(s) ==
    LET string == CanonicalizedPath(s)
        slash == LastOf(string, "/")
        parts == Parts(string, <<>>)
        basename == IF string = Slash THEN string ELSE Last(parts)
        dot == LastOf(basename, ".")
    IN  [string |-> string, parts |-> parts, basename |-> basename,
         dirname |-> IF slash = 0 THEN Dot ELSE IF slash = 1 THEN Slash ELSE SubSeq(string, 1, slash - 1),
         title |-> IF dot > 1 THEN SubSeq(basename, 1, dot - 1) ELSE basename,
         extension |-> IF dot > 1 THEN SubSeq(basename, dot + 1, Len(basename)) ELSE <<>>]
Joined(first, rest) == LexicalPath(first \o Slash \o rest)
AbsolutePath(dir, target) ==
    IF IsAbsolute(LexicalPath(target).string) THEN CanonicalizedPath(target)
    ELSE CanonicalizedPath(Joined(dir, target).string)
RelativePath(path, prefix) ==
    LET p == CanonicalizedPath(path)  q == CanonicalizedPath(prefix)
    IN  IF ~IsAbsolute(path) \/ ~IsAbsolute(prefix) THEN <<>>
        ELSE IF path = prefix \/ p = q THEN Dot
        ELSE IF q = Slash THEN Tail(p)
        ELSE IF IsStrictPrefix(q, p) /\ p[Len(q) + 1] = "/" THEN SubSeq(p, Len(q) + 2, Len(p))
        ELSE p

-----------------------------------------------------------------------------
Idle == [op |-> "none"]
Init == call = Idle
Parse ==
    \E s \in BoundedSeq(Letter \cup {"/", "."}, MaxPath) :
        call' = [op |-> "parse", s |-> s, path |-> LexicalPath(s), parent |-> Joined(CanonicalizedPath(s), DotDot).string]
Relate ==
    \E s \in BoundedSeq(Letter \cup {"/", "."}, MaxPrefix), prefix \in BoundedSeq(Letter \cup {"/", "."}, MaxPrefix) :
        call' = [op |-> "relate", s |-> s, prefix |-> prefix,
                 absolute |-> AbsolutePath(prefix, s), relative |-> RelativePath(s, prefix)]
Next == call = Idle /\ (Parse \/ Relate)
Spec == Init /\ [][Next]_call

-----------------------------------------------------------------------------
(* Properties                                                              *)

\* Where a path leads: how far up it goes from where it starts, and then down which names.
Walk(s) ==
    FoldLeft(LAMBDA at, part :
               CASE part = Dot -> at
                 [] part = DotDot /\ at.down # <<>> -> [at EXCEPT !.down = Front(@)]
                 [] part = DotDot /\ at.down = <<>> -> IF IsAbsolute(s) THEN at ELSE [at EXCEPT !.up = @ + 1]
                 [] OTHER -> [at EXCEPT !.down = Append(@, part)],
             [absolute |-> IsAbsolute(s), up |-> 0, down |-> <<>>], Parts(s, <<>>))
\* A canonical path leads where the path did, is the only canonical path that does, and is
\* made of its directory and its base name, and the base name of title and extension; a path
\* relative to a prefix leads from the prefix to where the path did.
PathsLead ==
    /\ call.op = "parse" =>
          LET p == call.path  string == p.string
          IN  /\ Walk(string) = Walk(call.s)
              /\ CanonicalizedPath(string) = string
              /\ string = IF IsAbsolute(call.s) THEN Slash \o Join(Walk(call.s).down)
                          ELSE IF Walk(call.s).up = 0 /\ Walk(call.s).down = <<>> THEN Dot
                          ELSE Join([i \in 1 .. Walk(call.s).up |-> DotDot] \o Walk(call.s).down)
              /\ string # Slash /\ string # Dot =>
                    Walk(p.dirname \o Slash \o p.basename) = Walk(string)
              /\ p.basename \in {p.title, p.title \o Dot \o p.extension} /\ p.title # <<>>
              /\ Walk(call.parent) = Walk(string \o Slash \o DotDot)
    /\ call.op = "relate" /\ IsAbsolute(call.s) /\ IsAbsolute(call.prefix) =>
          AbsolutePath(call.prefix, call.relative) = CanonicalizedPath(call.s)
    /\ call.op = "relate" /\ IsAbsolute(call.prefix) => IsAbsolute(call.absolute)
=============================================================================
