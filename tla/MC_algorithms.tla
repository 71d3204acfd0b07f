--------------------------- MODULE MC_algorithms ---------------------------
(* The pure computations of AK and of the boot code: subject says whose    *)
(* call, obj, is made.  A behaviour is one call with one input (a URL's    *)
(* setters are called one after the other).                                *)
EXTENDS Integers, Sequences

VARIABLES subject, obj

Numeric == INSTANCE Numbers WITH call <- obj, Widths <- {2, 3}, GroupBits <- 2, ValueBits <- 5, MaxBytes <- 4
Wide == INSTANCE WideIntegers WITH call <- obj, LimbBits <- 2, Level <- {1, 2}, MaxExponent <- 3,
            Sample <- 0 .. 17 \cup {31, 32, 48, 63, 64, 65, 127, 128, 129, 160, 192, 239, 240, 254, 255}
Times == INSTANCE TimeValues WITH call <- obj, SecondBits <- 4, Nano <- 8, Micro <- 4, Milli <- 2, MaxRaw <- 9,
            Year <- {1, 4, 1600} \cup 1899 .. 1901 \cup 1968 .. 1973 \cup {1999, 2000, 2001, 2023, 2024} \cup 2099 .. 2101
Unicode == INSTANCE UnicodeViews WITH call <- obj, MaxBytes <- 4, MaxUnits <- 4,
            CodePoint <- {0, 65, 127, 128, 2047, 2048, 4095, 55295, 55296, 57343, 57344, 65533, 65535, 65536,
                          131071, 1114111, 1114112},
            Byte <- {65, 128, 191, 195, 226, 240, 244, 248}, Unit <- {65, 55296, 56319, 56320, 57343, 65533}
Search == INSTANCE StringSearch WITH call <- obj, Letter <- {"A", "a", "b"}, MaxHaystack <- 5, MaxNeedle <- 3,
                                     MaxMask <- 4, BitapLimit <- 3
Text == INSTANCE Strings WITH call <- obj, Width <- 5, MaxDigits <- 3, MaxLength <- 3,
            RomanValue <- 1 .. 50 \cup {88, 89, 90, 94, 99, 100, 399, 400, 444, 499, 500, 899, 900, 944, 999, 1000,
                                        1888, 1994, 2023, 3888, 3999, 4000},
            BijectiveValue <- 0 .. 17 \cup {26, 27, 28, 62, 63, 64, 65, 80, 81}
Sorted == INSTANCE Sorting WITH call <- obj, Element <- 0 .. 3, MaxSize <- 6, Letter <- {"a", "A", "_"},
                                MaxNeedle <- 4, MaxText <- 5, RecursionLimit <- 4, MaxMatches <- 3, IndexValues <- 3
Path == INSTANCE Paths WITH call <- obj, Letter <- {"a"}, MaxPath <- 7, MaxPrefix <- 4
Lexer == INSTANCE Lexers WITH lexer <- obj, MaxInput <- 5, CodePointBits <- 8, LastCodePoint <- 15,
            Unit <- {<<0, 0, 4, 1>>, <<13, 8, 0, 0>>, <<13, 11, 15, 15>>, <<13, 12, 0, 1>>, <<13, 15, 15, 15>>,
                     <<14, 0, 0, 0>>}
JsonText == INSTANCE Json WITH call <- obj, NarrowBits <- 4, MaxText <- 4, MaxString <- 4, MaxNumber <- 4
Url == INSTANCE Urls WITH call <- obj, Letter <- {"x", "/", ".", "?", "#", ":", "@", "8", "0", "%/"}, MaxRest <- 3, MaxSets <- 3
Address == INSTANCE Addresses WITH call <- obj, Group <- {0, 1, 31}, Octet <- {0, 1, 9, 16, 255}, MaxParts <- 5,
                                   Unit <- 1, MaxBytes <- 3, Garbage <- 0
Formatted == INSTANCE Printf WITH call <- obj, NarrowBits <- 8, WideBits <- 10, DecimalDivisor <- 1000, OctalDivisor <- 8,
            Value <- {0, 1, 9, 10, 61, 64, 255, 300, 824, 1023}, FieldWidth <- {0, 2, 5}, MaxFormat <- 4,
            FormatCharacter <- {"%", "a", "d", "s", "n", "0", "5", ".", "*", "-"}
Boot == INSTANCE Aarch64Boot WITH call <- obj, Word <- 1024, Screen <- 1 .. 3, Logo <- 1 .. 4, TableSize <- 2,
                                  Pages <- 10, PinsPerWord <- 2

-----------------------------------------------------------------------------
Init ==
    \/ subject = "numbers" /\ Numeric!Init
    \/ subject = "wide" /\ Wide!Init
    \/ subject = "times" /\ Times!Init
    \/ subject = "unicode" /\ Unicode!Init
    \/ subject = "search" /\ Search!Init
    \/ subject = "strings" /\ Text!Init
    \/ subject = "sorting" /\ Sorted!Init
    \/ subject = "paths" /\ Path!Init
    \/ subject = "lexer" /\ Lexer!Init
    \/ subject = "json" /\ JsonText!Init
    \/ subject = "urls" /\ Url!Init
    \/ subject = "addresses" /\ Address!Init
    \/ subject = "printf" /\ Formatted!Init
    \/ subject = "boot" /\ Boot!Init

Next ==
    /\ UNCHANGED subject
    /\ \/ subject = "numbers" /\ Numeric!Next
       \/ subject = "wide" /\ Wide!Next
       \/ subject = "times" /\ Times!Next
       \/ subject = "unicode" /\ Unicode!Next
       \/ subject = "search" /\ Search!Next
       \/ subject = "strings" /\ Text!Next
       \/ subject = "sorting" /\ Sorted!Next
       \/ subject = "paths" /\ Path!Next
       \/ subject = "lexer" /\ Lexer!Next
       \/ subject = "json" /\ JsonText!Next
       \/ subject = "urls" /\ Url!Next
       \/ subject = "addresses" /\ Address!Next
       \/ subject = "printf" /\ Formatted!Next
       \/ subject = "boot" /\ Boot!Next
Spec == Init /\ [][Next]_<<subject, obj>>

-----------------------------------------------------------------------------
\* Checked, saturating, wide and time arithmetic give the number they stand for or say that they
\* cannot; pages map to themselves and registers hold what was asked.
ArithmeticExact ==
    /\ subject = "numbers" => Numeric!ArithmeticExact /\ Numeric!PowersExact
    /\ subject = "wide" => Wide!WideExact /\ Wide!BitsExact
    /\ subject = "times" => Times!TimesExact /\ Times!CalendarAgrees
    /\ subject = "boot" => Boot!IdentityMapped /\ Boot!RegistersExact

\* What is written as text or bytes is read back the same, and what is read means what was written:
\* code points, numbers, addresses, printf.
TextsRoundTrip ==
    /\ subject = "numbers" => Numeric!NumbersRead
    /\ subject = "unicode" => Unicode!RoundTrips /\ Unicode!ValidityExact /\ Unicode!OffsetsAgree
    /\ subject = "strings" => Text!NumbersRead /\ Text!NumbersWritten /\ Text!ChangesKeep
    /\ subject = "addresses" => Address!RoundTrips /\ Address!TextsMean
    /\ subject = "printf" => /\ Formatted!ReturnsLength /\ Formatted!NumbersWritten
                             /\ Formatted!TextsWritten /\ Formatted!FormatsRead

\* Searching, matching, splitting and sorting agree with their definitions; the logo is drawn in place.
SearchesAgree ==
    /\ subject = "search" => Search!MasksMean /\ Search!SearchesAgree /\ Search!PartsJoin /\ Search!ComparesAlike
    /\ subject = "sorting" => Sorted!SortsAll /\ Sorted!FindsNearby /\ Sorted!MatchesInOrder
    /\ subject = "boot" => Boot!LogoDrawn

\* A parser ends, takes what its grammar says, and keeps what it took: JSON, URLs, paths, lexers,
\* the header of the boot logo.
ParsersAgree ==
    /\ subject = "json" => JsonText!AcceptsTheGrammar /\ JsonText!ValuesKept /\ JsonText!EqualityAgrees
    /\ subject = "urls" => Url!ParserEnds /\ Url!SerializesBack
    /\ subject = "paths" => Path!PathsLead
    /\ subject = "lexer" => Lexer!ConsumesWhatItReturns /\ Lexer!EscapesExact /\ Lexer!DatesInRange
    /\ subject = "boot" => Boot!HeadersParsed
=============================================================================
