---------------------------- MODULE MCAlgorithms ----------------------------
(***************************************************************************)
(* The pure algorithms for TLC.  A state is one job: a family of functions *)
(* and an input, on which the property of the family is evaluated.  The    *)
(* initial states hold one part of the input, so that TLC's workers can    *)
(* share the rest.                                                         *)
(***************************************************************************)
EXTENDS Integers, Sequences, SequencesExt, FiniteSetsExt, TLC

CONSTANTS WordBits, MAX_NUM_DIGITS, MANTISSA_WIDTH, EXPONENT_WIDTH,
          DESC_ARR_LEN, BUFF_SIZE, BLOCK_SIZE, GROUP, SIZE_T,
          Families        \* the families of this run

S == INSTANCE Sorting
C == INSTANCE Calendar
N == INSTANCE Numbers
G == INSTANCE Getopt
W == INSTANCE WideInt
D == INSTANCE Decimal
F == INSTANCE FloatOps
T == INSTANCE Strings
M == INSTANCE Memory
K == INSTANCE Scanf
E == INSTANCE FEnv
B == INSTANCE BlockStore WITH BLOCK_SIZE <- 2
I == INSTANCE Dir WITH BUFSIZE <- 3
L == INSTANCE Spawn WITH OPEN_MAX <- 3, Missing <- "missing"

\* fma on a format whose double has just the bits that fmaf needs, and hypot on one with
\* a longer mantissa; the x87's long double with a longer mantissa for its square root.
A == INSTANCE FloatArith WITH
       MANTISSA_WIDTH <- 2, EXPONENT_WIDTH <- 3, WORD_BITS <- 5, DOUBLE_WIDTH <- 6
H == INSTANCE FloatArith WITH
       MANTISSA_WIDTH <- 3, EXPONENT_WIDTH <- 3, WORD_BITS <- 6, DOUBLE_WIDTH <- 8
X == INSTANCE LongDouble WITH MANTISSA_WIDTH <- 2, EXPONENT_WIDTH <- 3
Y == INSTANCE LongDouble

\* strtod, strtof and strtold on small formats: a word of the table of powers is as
\* wide as the mantissa word, twice as wide, and half as wide.  The first has the
\* larger exponents, the second ties among the subnormals that TLC's integers hold.
SD == INSTANCE StrToFloat WITH
        MANTISSA_WIDTH <- 4, EXPONENT_WIDTH <- 5, BITS <- 10, PowerBits <- 10, Long <- FALSE,
        MIN_EXP_10 <- -9, MAX_EXP_10 <- 6, UPPER_BOUND <- 5, LOWER_BOUND <- -10,
        EXACT_POWERS_OF_TEN <- 2, DIGITS_IN_MANTISSA <- 1, MAX_NUM_DIGITS <- 30
SF == INSTANCE StrToFloat WITH
        MANTISSA_WIDTH <- 4, EXPONENT_WIDTH <- 4, BITS <- 10, PowerBits <- 20, Long <- FALSE,
        MIN_EXP_10 <- -9, MAX_EXP_10 <- 6, UPPER_BOUND <- 3, LOWER_BOUND <- -8,
        EXACT_POWERS_OF_TEN <- 0, DIGITS_IN_MANTISSA <- 1, MAX_NUM_DIGITS <- 30
SL == INSTANCE StrToFloat WITH
        MANTISSA_WIDTH <- 5, EXPONENT_WIDTH <- 5, BITS <- 14, PowerBits <- 7, Long <- TRUE,
        MIN_EXP_10 <- -6, MAX_EXP_10 <- 4, UPPER_BOUND <- 5, LOWER_BOUND <- -11,
        EXACT_POWERS_OF_TEN <- 2, DIGITS_IN_MANTISSA <- 1, MAX_NUM_DIGITS <- 30

\* printf with a double that has no whole number of hexadecimal digits, and with one
\* that has and whose exponents reach further.
P == INSTANCE Printf WITH MANTISSA_WIDTH <- 7, EXPONENT_WIDTH <- 4
Q == INSTANCE Printf WITH MANTISSA_WIDTH <- 4, EXPONENT_WIDTH <- 5

VARIABLES family, part, input

vars == <<family, part, input>>

(***************************************************************************)
(* Inputs                                                                  *)
(***************************************************************************)
\* Arrays: four keys up to length 5, three keys at length 6, two at length 8.
Keys(n) == CASE n <= 5 -> 0 .. 3 [] n <= 6 -> 0 .. 2 [] OTHER -> 0 .. 1

Arrays(n) == {[i \in 1 .. n |-> <<k[i], i>>] : k \in [1 .. n -> Keys(n)]}

\* Years around the turns of the 4, 100 and 400 year cycles on both sides of the
\* year 0, the epoch and March 2000.
Years == UNION {c - 3 .. c + 3 : c \in {-400, -100, 0, 1600, 1900, 1970, 2000, 2100}}

\* Strings of at most four characters; 127 and 128, the limits of the eight bit
\* types, are among the numbers they can be.
Characters == {"0", "1", "2", "7", "8", "f", "x", "z", " ", "-"}
Texts == {s \o t : s \in SeqOf(Characters, 2), t \in SeqOf(Characters, 2)}

\* Options of "abc:": c takes an argument, which may look like an option.
Items == [c : {"a", "b"}, arg : {<<>>}, attach : {FALSE}, join : BOOLEAN]
         \cup [c : {"c"}, arg : {<<"v">>, <<"-", "a">>}, attach : BOOLEAN, join : BOOLEAN]

Endings == {<<>>, << <<"w">>, <<"-", "a">> >>, << <<"-">> >>, << <<>> >>,
            << <<"-", "-">>, <<"-", "a">> >>, << <<"-", "z">> >>, << <<"-", "c">> >>}

DigitSeqs(n) == SeqOf({0, 1, 2, 5, 9}, n)

Finite == {x \in F!Floats : x.exp < F!MAX_EXPONENT}

FiniteA == {x \in A!Floats : x.exp < A!MAX_EXPONENT}
FiniteH == {x \in H!Floats : x.exp < H!MAX_EXPONENT}

\* Programs of a block store: at step i, i is pushed or an element is popped.
Steps(first, n) == {[i \in 1 .. n |-> IF b[i] THEN first + i ELSE 0] : b \in [1 .. n -> BOOLEAN]}

\* File actions, and what malloc gives the three calls that add them.
Act(type, fd, newfd, path) == [type |-> type, fd |-> fd, newfd |-> newfd, path |-> path]
Acts == {Act("open", fd, 0, "file") : fd \in -1 .. 3} \cup {Act("open", 1, 0, "missing")}
        \cup {Act("close", fd, 0, "") : fd \in -1 .. 2}
        \cup {Act("dup2", d[1], d[2], "") : d \in {<<0, 2>>, <<1, 0>>, <<2, 1>>, <<1, 1>>, <<0, 3>>, <<0, -1>>}}
Memories == {[i \in 1 .. 3 |-> "null"]}
            \cup {[i \in 1 .. 3 |-> IF i = k THEN "none" ELSE "dirty"] : k \in 0 .. 3}
Tables == {[f \in open |-> <<"in", "out", "err">>[f + 1]] : open \in {{0, 1, 2}, {0, 1}, {0, 2}, {1, 2}}}

\* Items of a format: each kind of argument, numbers and stars, and text.
Item(name, lm, flags, w, p, v) ==
  [name |-> name, lm |-> lm, flags |-> flags, w |-> w, p |-> p, v |-> v]

FormatItems == {
  Item("raw", "none", {}, P!Absent, P!Absent, <<"q", "r">>),
  Item("%", "none", {}, P!Absent, P!Absent, 0),
  Item("d", "none", {}, P!Absent, P!Absent, -3),
  Item("u", "l", {"0"}, P!Star(4), P!Absent, 12),
  Item("d", "none", {"+"}, P!Star(-4), P!Star(2), 5),
  Item("s", "none", {}, P!Absent, P!Star(2), <<"a", "b", "c">>),
  Item("c", "none", {"-"}, P!Given(3), P!Absent, "k"),
  Item("n", "j", {}, P!Absent, P!Absent, 1),
  Item("p", "none", {}, P!Absent, P!Absent, 0)}

Places(items) == 1 .. Len(P!AllSlots(items))

\* An integer conversion of a value of its type; # with a zero is left out.
IntItems(name) ==
  {i \in {Item(name, lm, flags, w, p, v) :
           lm \in {"hh", "none", "j"}, flags \in SUBSET {"-", "+", " ", "#", "0"},
           w \in {P!Absent, P!Given(4), P!Star(-6)}, p \in {P!Absent, P!Given(0), P!Given(3)},
           v \in {-16, -8, -2, -1, 0, 1, 7, 15}} :
     /\ i.v \in -(2 ^ (P!Bits(i.lm) - 1)) .. 2 ^ (P!Bits(i.lm) - 1) - 1
     /\ i.v # 0 \/ "#" \notin i.flags}

\* Floats in their fields; the rounding modes vary where there is no padding.
Fields == {<<{}, 0>>, <<{"-"}, 9>>, <<{"0", "+"}, 9>>, <<{"#", " "}, 9>>}
Precisions == {-1, 0, 1, 3, 5, 8}
ModesOf(sec, modes) == IF sec.min_width = 0 THEN modes ELSE {"TONEAREST"}
FloatSections(x) ==
  {[flags |-> f[1], min_width |-> f[2], precision |-> p, val |-> x] : f \in Fields, p \in Precisions}

\* Operands of two and three words, and of four words with the words 0 and 3.
Operands(n) == IF n < 4 THEN W!Words(n) ELSE [1 .. n -> {0, 3}]

\* Hexadecimal digits, as many as a mantissa holds and more.
HexTails == SeqOf({0, 1, 7, 8, 15}, 2) \cup {<<0, 0, 1>>, <<8, 0, 0>>, <<8, 0, 1>>, <<7, 15, 15>>}

\* Numbers of bytes around every limit at which a function changes its ways, distances
\* between overlapping buffers and places of a difference.
Counts == 0 .. 66 \cup UNION {c - 1 .. c + 1 : c \in {80, 96, 112, 128, 160, 192, 256, 384, 448}}
Deltas(n) == {-n, 1 - n, -130, -65, -64, -63, -33, -32, -16, -9, -2, -1, 0,
              1, 3, 8, 17, 31, 32, 33, 63, 64, 66, 130, n - 1, n}
DifferAt(n) == {0, 1, 2, 7, 8, 15, 16, 17, 31, 32, 47, 63, 64, 95, 127, 128, n - 17, n - 2, n - 1} \cap 0 .. n

\* Items of a format for scanf, and texts for them.
ScanItem(name, w, star, v) == [name |-> name, w |-> w, star |-> star, v |-> v]
SetItem(w, star, invert, members) ==
  ScanItem("[", w, star, [invert |-> invert, members |-> members])

ScanItems == {
  ScanItem("raw", 0, FALSE, <<"a">>), ScanItem("raw", 0, FALSE, <<" ", "b">>),
  ScanItem("%", 0, FALSE, 0), ScanItem("s", 0, FALSE, 0), ScanItem("s", 2, FALSE, 0),
  ScanItem("s", 1, TRUE, 0), ScanItem("c", 0, FALSE, 0), ScanItem("c", 2, FALSE, 0),
  SetItem(0, FALSE, FALSE, << <<"]">>, <<"b", "a">> >>),
  SetItem(2, FALSE, TRUE, << <<"a">>, <<"-">> >>),
  SetItem(0, TRUE, FALSE, << <<"-">>, <<"a">>, <<"%">> >>)}

ScanTexts(n) ==
  {<<"a", "a", "b", " ", "b">>, <<" ", "a", "b", "%", "a", "]">>}
  \cup IF n < 3 THEN SeqOf({"a", "b", " ", "%"}, 4 - n) ELSE {}

ScanSlots(items) == 1 .. K!Slot(items, Len(items))

Init ==
  /\ input = <<>>
  /\ family \in Families
  /\ \/ family = "sort" /\ part \in 0 .. 8
     \/ family = "store" /\ part \in Steps(0, 4)
     \/ family = "spawn" /\ part \in Acts
     \/ family = "dir" /\ part \in SeqOf(1 .. 3, 4)
     \/ family = "calendar" /\ part \in Years
     \/ family = "read" /\ part \in SeqOf(Characters, 2)
     \/ family = "write" /\ part \in 2 .. 36
     \/ family = "getopt" /\ part \in SeqOf(Items, 1)
     \/ family = "wide" /\ part \in UNION {Operands(n) : n \in 2 .. 4}
     \/ family = "decimal" /\ part \in DigitSeqs(2)
     \/ family = "strtod" /\ part \in 1 .. 1019
     \/ family = "halfway" /\ part \in 0 .. 31
     \/ family = "strtohex" /\ part \in 1 .. 15
     \/ family = "strtold" /\ part \in {37 * k + 1 : k \in 0 .. 440}
     \/ family = "float" /\ part \in Finite
     \/ family = "fma" /\ part \in {x \in FiniteA : ~x.sign}
     \/ family = "hypot" /\ part \in {x \in FiniteH : ~x.sign}
     \/ family = "x87" /\ part \in X!LongDoubles
     \/ family = "x87root" /\ part \in {x \in Y!LongDoubles : x.exp < 2}
     \/ family = "fenv" /\ part \in UNION {{<<m, s>> : s \in E!Steps(m)} : m \in E!Machines}
     \/ family = "string" /\ part \in SeqOf({1, 4, 5}, 4)
     \/ family = "memory" /\ part \in Counts
     \/ family = "scan" /\ part \in SeqOf(ScanItems, 3)
     \/ family = "format" /\ part \in SeqOf(FormatItems, 3)
     \/ family = "integer" /\ part \in {"d", "u", "x", "o"}
     \/ family = "printdouble" /\ part \in {x \in P!Floats : x.exp \in {0, 6, 13, 15}}
     \/ family = "printlong" /\ part \in {x \in Q!Floats : x.exp % 2 = 0 \/ x.exp \in {1, 31}}

Pick(f, inputs) == family = f /\ input = <<>> /\ input' \in inputs /\ UNCHANGED <<family, part>>

Next ==
  \/ Pick("sort", {<<a>> : a \in Arrays(part)})
  \/ Pick("store", {<<part \o more>> : more \in Steps(4, 5)})
  \/ Pick("spawn", {<<part, b, c>> : b \in Acts, c \in Acts})
  \/ Pick("dir", {<<o>> : o \in [1 .. 5 -> {"full", "one", "fails"}]})
  \/ Pick("calendar", {<<part>>})
  \/ Pick("read", {<<part \o s, b>> : s \in SeqOf(Characters, 2), b \in {0, 10, 16, 36}})
  \/ Pick("write", {<<v, part>> : v \in -128 .. 127})
  \/ Pick("getopt", {<<part \o i, e>> : i \in SeqOf(Items, 2), e \in Endings})
  \/ Pick("wide", {<<b>> : b \in Operands(Len(part))})
  \/ Pick("decimal", {<<a, e, s>> : a \in DigitSeqs(2), e \in -1 .. 1, s \in {-9, -4, -1, 2, 3, 4, 7}})
  \/ Pick("strtod", {<<e>> : e \in -9 .. 6})
  \/ Pick("halfway", {<<e>> : e \in -11 .. 12})
  \/ Pick("strtohex", {<<d, n, e>> : d \in HexTails, n \in 0 .. 2, e \in -17 .. 7})
  \/ Pick("strtold", {<<e>> : e \in -6 .. 4})
  \/ Pick("float", {<<y>> : y \in Finite})
  \/ Pick("fma", {<<y>> : y \in {f \in FiniteA : A!Magnitude(f) >= A!Magnitude(part)}})
  \/ Pick("hypot", {<<y>> : y \in FiniteH})
  \/ Pick("x87", {<<y>> : y \in X!LongDoubles})
  \/ Pick("x87root", {<<[part EXCEPT !.exp = @ + 2 * k]>> : k \in 0 .. 7})
  \/ Pick("fenv", {<<s>> : s \in E!Steps(part[1])})
  \/ Pick("string", {<<t, n>> : t \in SeqOf({1, 4}, 2), n \in 0 .. 6})
  \/ Pick("memory", {<<ptr>> : ptr \in {1000, 1001, 1047}})
  \/ Pick("scan", {<<t>> : t \in ScanTexts(Len(part))})
  \/ Pick("format", {<<perm>> : perm \in {p \in Permutations(Places(part)) : Len(P!AllSlots(part)) + Len(part) <= 6}})
  \/ Pick("integer", {<<i>> : i \in IntItems(part)})
  \/ Pick("printdouble", {<<s>> : s \in FloatSections(part)})
  \/ Pick("printlong", {<<s>> : s \in FloatSections(part)})

Spec == Init /\ [][Next]_vars

Job(f) == family = f /\ input # <<>>

(***************************************************************************)
(* Properties                                                              *)
(***************************************************************************)
\* qsort sorts every array and loses nothing, its loops stay inside the array and
\* its recursion ends; bsearch finds a key exactly when it is there.  A block store is
\* the list of what was pushed and not popped, in either order, and has no block too
\* many.  The child of posix_spawn carries out the file actions in the order they were
\* added, whichever calls failed, and leaves no other descriptor open.  readdir hands out
\* every record once, whatever getdents fetches at a time and when it fails.
ListsAreRight ==
  /\ Job("sort") => S!SortsAndFinds(input[1])
  /\ Job("store") => \A reverse \in BOOLEAN : B!StoreIsList(B!NewStore(reverse), <<>>, input[1])
  /\ Job("dir") => I!ReadsDirectory(part, input[1])
  /\ Job("spawn") => \A memory \in Memories, table \in Tables :
       L!SpawnActsInOrder([i \in 1 .. 3 |-> [act |-> input[i], memory |-> memory[i]]], table)

\* gmtime walks through the calendar day by day and mktime is its inverse, also for
\* fields out of range, before and after the epoch.
CalendarIsRight == Job("calendar") => C!YearIsRight(input[1])

\* strtol and its relatives read the longest number and saturate exactly at the
\* type's limits; what IntegerToString writes fits its buffer and reads back.
NumbersAreRight ==
  /\ Job("read") => /\ N!ReadsNumber(input[1], input[2], -128, 127)
                    /\ N!ReadsNumber(input[1], input[2], 0, 255)
  /\ Job("write") => N!WritesNumber(input[1], 1, input[2])

\* getopt reports the options of a command line however they are written.
GetoptIsRight ==
  Job("getopt") =>
    \A optstring \in {<<"a", "b", "c", ":">>, <<":", "a", "c", ":", "b">>} :
      G!ParsesLine(part \o input[1], input[2], optstring)

\* Multi-word arithmetic is arithmetic modulo 2^Bits.
WideIntIsExact == Job("wide") => W!ExactArithmetic(part, input[1])

\* strtod and strtof return the nearest float, the end of the number and ERANGE when
\* they must, whichever of the three algorithms answers and however many digits there
\* are; strtold does when the sum of its middle products fits two words.  The decimals
\* of the slow path are exact until they say truncated.
StrtodIsRight ==
  /\ Job("decimal") => D!ExactDecimal(part, input[1], input[2], input[3])
  /\ Job("strtod") => SD!ReadsNearest(part, input[1]) /\ SF!ReadsNearest(part, input[1])
  /\ Job("strtold") /\ SL!MiddleFits(part, input[1]) => SL!ReadsNearest(part, input[1])
  /\ Job("halfway") =>
       /\ part > 15 /\ input[1] >= -8 => SD!ReadsHalfway(2 * part + 1, input[1])
       /\ input[1] \in -10 .. 2 /\ part > 15 => SF!ReadsHalfway(2 * part + 1, input[1])
       /\ input[1] = -11 /\ part <= 21 => SF!ReadsHalfway(2 * part + 1, input[1])
  /\ Job("strtohex") => SF!ReadsHexadecimal(<<part>> \o input[1],
                          Min({input[2], Len(input[1]) + 1}), input[3] - 4 * Len(input[1]), <<"p">>)
  /\ family = "strtohex" /\ input = <<>> => SD!ReadsWords

\* Rounding to integers, scaling, square root, fmod and remquo give the float that
\* arithmetic on the values asks for, for every float and pair of floats.  fma and hypot
\* are rounded once.  nextafter and the square root of the x87's long double reach the
\* next and the nearest number also across the explicit leading bit.  The flags,
\* enabled exceptions and rounding mode that a program sees are the ones its calls
\* and computations made, in each unit of each processor, and a Windows fenv_t comes
\* back as it was written.
FloatsAreExact ==
  /\ family = "float" /\ input = <<>> =>
       /\ F!RoundsToInteger(part)
       /\ \A e \in -22 .. 22 : F!ScalesExactly(part, e)
       /\ \A mode \in F!Modes : F!RootIsRounded(part, mode)
  /\ Job("float") => F!RemaindersAreExact(part, input[1])
  /\ Job("fma") => /\ \A z \in FiniteA : A!FmaIsRoundedOnce(part, input[1], z)
                   /\ A!MinMaxAreRight(part, input[1]) /\ A!MinMaxAreRight(input[1], part)
  /\ Job("hypot") => H!HypotIsRoundedOnce(part, input[1])
  /\ Job("x87") => X!NextIsNeighbour(part, input[1])
  /\ Job("x87root") => \A mode \in Y!Modes : Y!RootIsRoundedX(input[1], mode)
  /\ family = "fenv" /\ input = <<>> => E!Environments(part[1], <<>>) /\ E!WinEnvironments
  /\ Job("fenv") => E!Environments(part[1], <<part[2], input[1]>>)

\* Searching a string finds the first place whatever the alignment, strtok yields
\* the tokens, and the copies with a limit stay inside it.  memcpy, memset and the
\* comparisons touch the bytes they are given, all of them and no other; memmove moves
\* the bytes that were there, however the buffers overlap; memcmp finds the first
\* difference.
StringsAreRight ==
  /\ Job("string") => /\ T!CopiesAreBounded(part, input[1], input[2], 3)
                      /\ T!SearchesAreRight(part, <<input[2], 4, 4>>, input[2] % 2, {1, 5}, input[1])
  /\ Job("memory") => /\ M!WritesItsBytes(input[1], part)
                      /\ M!ReadsItsBytes(input[1], part)
                      /\ \A delta \in Deltas(part) : M!MovesOriginals(input[1], delta, part)
                      /\ M!ComparesBytes(input[1], part, DifferAt(part) \cup {part}, {1, 8})

\* printf finds the arguments of a format, in order or by number, converts each and
\* reports and stores what it should, to a string of any size and to a file.  scanf
\* stores in each argument the longest text that its conversion may take, from a
\* string and from a file, and leaves the rest.
FormatsAreRight ==
  /\ Job("format") =>
       /\ P!PrintsFormat(part, input[1], TRUE)
       /\ input[1] = [k \in Places(part) |-> k] => P!PrintsFormat(part, input[1], FALSE)
  /\ Job("integer") => P!PrintsInteger(input[1])
  /\ Job("scan") =>
       /\ \A perm \in Permutations(ScanSlots(part)) : K!ScansFormat(part, input[1], perm, TRUE)
       /\ K!ScansFormat(part, input[1], [k \in ScanSlots(part) |-> k], FALSE)

\* %a prints the value in every rounding mode, and %f does where it does not hold back
\* a block of nines and its rounding is not a tie, upward or downward, each correctly
\* rounded in its field.
FloatTextIsRight ==
  /\ Job("printdouble") => \A mode \in ModesOf(input[1], P!Modes) : P!FloatTextIsRight(input[1], mode)
  /\ Job("printlong") => \A mode \in ModesOf(input[1], Q!Modes) : Q!FloatTextIsRight(input[1], mode)

\* A file gets what a string gets: "this version of write will copy length copies of
\* new_char into output using chars_write" (src/stdio/printf_core/writer.h:47).
PaddingReachesFiles == Job("format") => P!FileTextIsStringText(part)

\* The nearest float: "Takes a mantissa and base 10 exponent and converts it into its
\* closest floating point type T equivalient." (src/__support/str_to_float.h:584)
LongDoubleIsNearest == Job("strtold") => SL!ReadsNearest(part, input[1])
=============================================================================
