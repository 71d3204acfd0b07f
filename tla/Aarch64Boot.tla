---------------------------- MODULE Aarch64Boot ----------------------------
(***************************************************************************)
(* What the aarch64 kernel computes while it boots: the header of the boot *)
(* logo, the logo on the framebuffer, the identity map, and the registers  *)
(* of the pins and the UART.  An action is one call with its result.       *)
(***************************************************************************)
EXTENDS Integers, Sequences, FiniteSets, SequencesExt

CONSTANTS Word,         \* the values of a u32, 2 ^ 32 in the code
          Screen, Logo, \* the widths and heights drawn
          TableSize,    \* the entries of a page table, 512 in the code
          Pages,        \* bound: the pages of the allocator
          PinsPerWord   \* the pins of one function_select register, 10 in the code

VARIABLE call

-----------------------------------------------------------------------------
(* BootPPMParser.  A character is its code less that of '0'; 10 stands for *)
(* all that is neither a digit nor named here.  A parser is [at, ok].      *)

NewLine == -38
Blank == -16
Hash == -13
P == 32
CheckPosition(buffer, at) == at <= Len(buffer)
\* Past the buffer nothing is known; no character the parser looks for is there.
At(buffer, at) == IF CheckPosition(buffer, at) THEN buffer[at] ELSE 10
ParseMagic(buffer, at) ==
    IF At(buffer, at) # P \/ At(buffer, at + 1) # 6 THEN [at |-> at, ok |-> FALSE]
    ELSE [at |-> at + 2, ok |-> CheckPosition(buffer, at + 2)]
ParseNewLine(buffer, at) ==
    IF At(buffer, at) # NewLine THEN [at |-> at, ok |-> FALSE]
    ELSE [at |-> at + 1, ok |-> CheckPosition(buffer, at + 1)]
\* The first position from at on that holds one of the ends, or the end of the buffer.
UpTo(buffer, at, ends) ==
    LET stops == {k \in at .. Len(buffer) : buffer[k] \in ends} \cup {IF at > Len(buffer) THEN at ELSE Len(buffer) + 1}
    IN  CHOOSE k \in stops : \A j \in stops : k <= j
\* Mutant: the new line that ends the comment stays.
CommentOnly(buffer, at) == UpTo(buffer, at, {NewLine})
PastComment(buffer, at) == UpTo(buffer, at, {NewLine}) + 1
ParseComment(buffer, at) ==
    LET end == IF At(buffer, at) = Hash THEN PastComment(buffer, at) ELSE at
    IN  [at |-> end, ok |-> CheckPosition(buffer, end)]
\* The lowest digit first; what is no digit counts as its distance from '0'.
ParseInteger(buffer, at) ==
    LET end == UpTo(buffer, at, {Blank, NewLine})
        digits == SubSeq(buffer, at, end - 1)
    IN  [at |-> end + 1, ok |-> CheckPosition(buffer, end + 1),
         value |-> FoldRight(LAMBDA c, sum : [total |-> (sum.total + sum.multiplier * c) % Word,
                                              multiplier |-> (10 * sum.multiplier) % Word],
                             digits, [total |-> 0, multiplier |-> 1]).total]
Failed == [ok |-> FALSE]
Parse(buffer) ==
    LET magic == ParseMagic(buffer, 1)
        line == ParseNewLine(buffer, magic.at)
        comment == ParseComment(buffer, line.at)
        width == ParseInteger(buffer, comment.at)
        height == ParseInteger(buffer, width.at)
        colors == ParseInteger(buffer, height.at)
    IN  IF /\ CheckPosition(buffer, 1) /\ magic.ok /\ line.ok /\ comment.ok /\ width.ok /\ height.ok
           /\ colors.ok /\ colors.value = 255
        THEN [ok |-> TRUE, width |-> width.value, height |-> height.value, pixels |-> colors.at]
        ELSE Failed

-----------------------------------------------------------------------------
(* draw_logo: the pixels of the framebuffer in the order they are written, *)
(* each [at, shows]: its offset in bytes and the logo's pixel, 0 for none  *)

Centered(outer, inner) == ((outer - inner) % Word) \div 2
\* Mutant: the next row starts where the last one ended.
NoPadding(width, pitch, at) == at
RowEnd(width, pitch, at) == at + pitch - 4 * width
DrawLogo(width, height, pitch, logoWidth, logoHeight) ==
    LET left == Centered(width, logoWidth)
        top == Centered(height, logoHeight)
        Inside(x, y) == /\ x >= left /\ x < (left + logoWidth) % Word
                        /\ y >= top /\ y < (top + logoHeight) % Word
        Pixel(acc, k) ==
            LET x == k % width  y == k \div width
                after == [acc EXCEPT !.written = Append(@, [at |-> acc.at, shows |-> IF Inside(x, y) THEN acc.next ELSE 0]),
                                     !.next = IF Inside(x, y) THEN @ + 1 ELSE @, !.at = @ + 4]
            IN  IF x = width - 1 THEN [after EXCEPT !.at = RowEnd(width, pitch, @)] ELSE after
    IN  FoldLeft(Pixel, [at |-> 0, next |-> 1, written |-> <<>>], [k \in 1 .. width * height |-> k - 1]).written

-----------------------------------------------------------------------------
(* The identity map.  A page table is a sequence of entries, 0 for none;   *)
(* one of the last level is a page and its flags.  Addresses count pages.  *)

Panicked == [panic |-> TRUE]
Index(address, level) == 1 + ((address \div TableSize ^ (3 - level)) % TableSize)
EmptyTable == [i \in 1 .. TableSize |-> 0]
\* take_page: PANIC when there is none left; the page is zeroed.
\* Mutant: there is one page too many.
OneTooMany(memory) == memory.taken > Pages
Exhausted(memory) == memory.taken = Pages
TakePage(memory) ==
    IF memory = Panicked \/ Exhausted(memory) THEN Panicked
    ELSE [memory EXCEPT !.taken = @ + 1, !.table = Append(@, EmptyTable)]
\* The table below entry i of a table, made if there is none; a table is named by its page.
Below(walk, i) ==
    IF walk.memory = Panicked THEN walk
    ELSE IF walk.memory.table[walk.page][i] # 0
    THEN [walk EXCEPT !.page = walk.memory.table[walk.page][i]]
    ELSE LET memory == TakePage(walk.memory)
         IN  IF memory = Panicked THEN [walk EXCEPT !.memory = Panicked]
             ELSE [memory |-> [memory EXCEPT !.table[walk.page][i] = memory.taken], page |-> memory.taken]
InsertEntry(memory, address, flags) ==
    LET walk == Below(Below(Below([memory |-> memory, page |-> 1], Index(address, 0)), Index(address, 1)), Index(address, 2))
    IN  IF walk.memory = Panicked THEN Panicked
        ELSE [walk.memory EXCEPT !.table[walk.page][Index(address, 3)] = address + TableSize ^ 4 * flags]
\* insert_identity_entries_for_physical_memory_range; after the range end is not mapped.
Pagewise(start, end) == [k \in 1 .. end - start |-> start + k - 1]
InsertRange(memory, start, end, flags) ==
    FoldLeft(LAMBDA m, address : IF m = Panicked THEN m ELSE InsertEntry(m, address, flags), memory, Pagewise(start, end))
NormalFlags == 1
DeviceFlags == 2
BuildIdentityMap(normalEnd, deviceStart, deviceEnd) ==
    LET root == TakePage([panic |-> FALSE, taken |-> 0, table |-> <<>>])
    IN  IF root = Panicked THEN Panicked
        ELSE InsertRange(InsertRange(root, 0, normalEnd, NormalFlags), deviceStart, deviceEnd, DeviceFlags)

-----------------------------------------------------------------------------
(* Pins and UART                                                           *)

\* set_pin_function: three bits of a function_select register.
\* Mutant: the bits of the old function stay.
OldKept(word, shift) == word
OldCleared(word, shift) == word - (((word \div 2 ^ shift) % 8) * 2 ^ shift)
SetPinFunction(words, pin, function) ==
    LET shift == 3 * (pin % PinsPerWord)
        cleared == OldCleared(words[1 + (pin \div PinsPerWord)], shift)
        old == (cleared \div 2 ^ shift) % 8
        either == CHOOSE f \in 0 .. 7 : \A b \in {1, 2, 4} :
                      (f \div b) % 2 = (IF 1 \in {(old \div b) % 2, (function \div b) % 2} THEN 1 ELSE 0)
    IN  [words EXCEPT ![1 + (pin \div PinsPerWord)] = cleared + (either - old) * 2 ^ shift]
\* UART::set_baud_rate: the divisor in 64ths, rounded.
Divisor(baud, frequency) == (4 * frequency + (baud \div 2)) \div baud
SetBaudRate(baud, frequency) == [integer |-> Divisor(baud, frequency) \div 64, fraction |-> Divisor(baud, frequency) % 64]

-----------------------------------------------------------------------------
Idle == [op |-> "idle"]
Init == call = Idle

\* The pieces of a header, right and wrong, cut anywhere.
Letter == 49
Integers10 == {<<>>, <<1>>, <<2, 0>>, <<Letter>>}
ParseHeader ==
    \E magic \in {<<P, 6>>, <<P, 5>>}, line \in {<<NewLine>>, <<Blank>>},
       comment \in {<<>>, <<Hash, NewLine>>, <<Hash, Letter, Blank, NewLine>>},
       width \in Integers10, between \in {Blank, NewLine}, height \in {<<3>>, <<1, 2>>},
       colors \in {<<2, 5, 5>>, <<2, 5>>}, pixels \in {<<>>, <<Letter>>}, cut \in 0 .. 17 :
        LET whole == magic \o line \o comment \o width \o <<between>> \o height \o <<NewLine>> \o colors \o <<NewLine>> \o pixels
        IN  /\ cut <= Len(whole)
            /\ call' = [op |-> "parse", whole |-> cut = Len(whole), right |-> magic[2] = 6 /\ line = <<NewLine>> /\ Len(colors) = 3,
                        width |-> width, height |-> height, pixels |-> pixels, size |-> cut,
                        result |-> Parse(SubSeq(whole, 1, cut))]
Draw ==
    \E width, height \in Screen, logoWidth, logoHeight \in Logo, padding \in {0, 3} :
        call' = [op |-> "draw", width |-> width, height |-> height, pitch |-> 4 * width + padding,
                 logo |-> <<logoWidth, logoHeight>>,
                 result |-> DrawLogo(width, height, 4 * width + padding, logoWidth, logoHeight)]
Map ==
    \E normalEnd, deviceStart, deviceEnd \in 0 .. TableSize ^ 4 :
        /\ deviceStart <= deviceEnd
        /\ call' = [op |-> "map", normalEnd |-> normalEnd, deviceStart |-> deviceStart, deviceEnd |-> deviceEnd,
                    result |-> BuildIdentityMap(normalEnd, deviceStart, deviceEnd)]
SetPin ==
    \E word \in [1 .. 2 -> {0, 7, 21, 42, 63}], pin \in 0 .. 2 * PinsPerWord - 1, function \in 0 .. 7 :
        call' = [op |-> "pin", before |-> word, pin |-> pin, function |-> function,
                 result |-> SetPinFunction(word, pin, function)]
Baud ==
    \E baud \in 1 .. 9, frequency \in 0 .. 200 :
        call' = [op |-> "baud", baud |-> baud, frequency |-> frequency, result |-> SetBaudRate(baud, frequency)]
Next == call = Idle /\ (ParseHeader \/ Draw \/ Map \/ SetPin \/ Baud)
Spec == Init /\ [][Next]_call

-----------------------------------------------------------------------------
(* Properties                                                              *)

RECURSIVE Decimal(_)
Decimal(digits) == IF digits = <<>> THEN 0 ELSE 10 * Decimal(Front(digits)) + Last(digits)
\* A header is taken exactly when it is whole, its magic, new line and 255 are there and a pixel
\* follows; its numbers are the ones written, its pixels in the buffer (BootPPMParser.cpp).
HeadersParsed ==
    call.op = "parse" =>
        /\ call.result.ok = (call.whole /\ call.right /\ call.pixels # <<>>)
        /\ call.result.ok => /\ call.result.pixels = call.size /\ call.result.height = Decimal(call.height)
                             /\ call.width # <<Letter>> => call.result.width = Decimal(call.width)

\* Not so of BootPPMParser.cpp:90-93, where any character is a digit: a number that is not one is refused.
LettersRefused == call.op = "parse" /\ call.result.ok => call.width # <<Letter>>

\* Every pixel of the screen is written once, in its place and inside its row, and a logo that fits
\* is shown whole in the middle, its pixels in their order; one that does not is not read at all.
LogoDrawn ==
    call.op = "draw" =>
        LET lw == call.logo[1]  lh == call.logo[2]
            fits == lw <= call.width /\ lh <= call.height
            left == (call.width - lw) \div 2  top == (call.height - lh) \div 2
            Shown(x, y) == IF fits /\ x - left \in 0 .. lw - 1 /\ y - top \in 0 .. lh - 1
                           THEN 1 + (y - top) * lw + (x - left) ELSE 0
        IN  call.result = [k \in 1 .. call.width * call.height |->
                LET x == (k - 1) % call.width  y == (k - 1) \div call.width
                IN  [at |-> y * call.pitch + 4 * x, shows |-> Shown(x, y)]]

\* The walk the processor makes from the first page, which switch_to_page_table takes for the root.
Walked(memory, address) ==
    LET Next4(page, level) == IF page = 0 THEN 0 ELSE memory.table[page][Index(address, level)]
    IN  Next4(Next4(Next4(Next4(1, 0), 1), 2), 3)
TablesFor(addresses) ==
    1 + Cardinality({a \div TableSize : a \in addresses}) + Cardinality({a \div TableSize ^ 2 : a \in addresses})
      + Cardinality({a \div TableSize ^ 3 : a \in addresses})
\* Every page of the two ranges is mapped to itself with its range's flags and no other is; the
\* allocator panics exactly when the tables this takes are more than its pages.
IdentityMapped ==
    call.op = "map" =>
        LET normal == 0 .. call.normalEnd - 1
            device == call.deviceStart .. call.deviceEnd - 1
        IN  IF call.result = Panicked THEN TablesFor(normal \cup device) > Pages
            ELSE /\ TablesFor(normal \cup device) <= Pages
                 /\ \A address \in 0 .. TableSize ^ 4 - 1 :
                        Walked(call.result, address) = IF address \in device THEN address + TableSize ^ 4 * DeviceFlags
                                                       ELSE IF address \in normal THEN address + TableSize ^ 4 * NormalFlags ELSE 0

FunctionOf(words, pin) == (words[1 + (pin \div PinsPerWord)] \div 8 ^ (pin % PinsPerWord)) % 8
\* A pin gets its function and every other pin keeps its own (GPIO.cpp:40); the divisor is within
\* half a 64th of frequency / (16 baud), and exactly 1.0 at the clock the UART asks for (UART.cpp:82).
RegistersExact ==
    /\ call.op = "pin" => \A pin \in 0 .. 2 * PinsPerWord - 1 :
           FunctionOf(call.result, pin) = IF pin = call.pin THEN call.function ELSE FunctionOf(call.before, pin)
    /\ call.op = "baud" =>
           LET divisor == 64 * call.result.integer + call.result.fraction
               error == divisor * call.baud - 4 * call.frequency
           IN  /\ 2 * error <= call.baud /\ -2 * error <= call.baud
               /\ call.frequency = 16 * call.baud => call.result = [integer |-> 1, fraction |-> 0]
=============================================================================
