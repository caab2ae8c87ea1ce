---------------------------------- MODULE Library ----------------------------------
(***************************************************************************)
(* The algorithms of lib/: division of double words by means of the CPU's  *)
(* division of a double word by a word, the conversion of text to an int,  *)
(* heap sort and binary search (arithmetic.c, stdlib.c); printf's          *)
(* conversions and the buffer of vsnprintf, the layout of hex_dump, and    *)
(* the functions on overlapping memory, bounded strings and tokens         *)
(* (stdio.c, string.c).  A conversion is a record of what its letters say; *)
(* a character is a string; memory is a sequence of characters and an      *)
(* address an index into it.  A call is chosen, then made.                 *)
(***************************************************************************)
EXTENDS Integers, Sequences, SequencesExt, TLC

CONSTANTS
  W,             \* bits of a word, a power of 2; 32
  IntBits,       \* bits of an int
  Calls,         \* the calls that may be made
  BufLen,        \* size of format_integer's buffer, 64
  PerLine,       \* bytes in a line of hex_dump, 16
  Kilo           \* 1024

VARIABLES call, result
vars == <<call, result>>
-------------------------------------------------------------------------------
(* arithmetic.c and stdlib.c. *)

Word == 2^W
Double == Word * Word
Trap == Double * Double   \* a divide error

\* divl.
Divl(n, d) == IF d > 0 /\ n \div d < Word THEN n \div d ELSE Trap

Halves == SelectSeq([i \in 1..W |-> 2^(W - i)], LAMBDA s : s < W)

\* Mutant: a word with its first bit set at a boundary counts as shorter.
NlzOff(x) ==
  FoldLeft(LAMBDA r, s : IF r.x <= 2^(W - s) THEN [n |-> r.n + s, x |-> r.x * 2^s] ELSE r,
           [n |-> 0, x |-> x], Halves).n

\* nlz: halve the word, then the half, down to a bit.
Nlz(x) ==
  FoldLeft(LAMBDA r, s : IF r.x < 2^(W - s) THEN [n |-> r.n + s, x |-> r.x * 2^s] ELSE r,
           [n |-> 0, x |-> x], Halves).n

\* Mutant: the estimate is taken for the quotient.
UdivEstimate(n, d) ==
  IF d < Word THEN Divl(Word * ((n \div Word) % d) + (n % Word), d) + Word * ((n \div Word) \div d)
  ELSE IF n < d THEN 0
  ELSE LET s == Nlz(d \div Word)
       IN  Divl(n \div 2, (d * 2^s) \div Word) \div 2^(W - 1 - s)

\* udiv64: by a word directly, else an estimate that may be one too large.
Udiv(n, d) ==
  IF d < Word THEN Divl(Word * ((n \div Word) % d) + (n % Word), d) + Word * ((n \div Word) \div d)
  ELSE IF n < d THEN 0
  ELSE LET s == Nlz(d \div Word)
           q == Divl(n \div 2, (d * 2^s % Double) \div Word) \div 2^(W - 1 - s)
       IN  IF (n - (q - 1) * d) % Double < d THEN q - 1 ELSE q

AsSigned(x, size) == LET y == x % size IN IF y >= size \div 2 THEN y - size ELSE y
Magnitude(n) == IF n >= 0 THEN n ELSE -n

\* sdiv64, umod64 and smod64; the latter two return a word.
Sdiv(n, d) ==
  LET q == Udiv(Magnitude(n), Magnitude(d))
  IN  AsSigned(IF (n < 0) <=> (d < 0) THEN q ELSE -q, Double)
Umod(n, d) == (n - d * Udiv(n, d)) % Word
Smod(n, d) == AsSigned(n - d * Sdiv(n, d), Word)

Lowest == -2^(IntBits - 1)
DigitOf == [ch \in {"0", "1", "2", "3", "4", "5", "6", "7", "8", "9"} |->
              CHOOSE k \in 0..9 : ToString(k) = ch]
\* The sign and the digits that atoi finds.
Blank(s) == SelectInSeq(s \o <<"end">>, LAMBDA ch : ch # " ")
Negative(s) == Blank(s) <= Len(s) /\ s[Blank(s)] = "-"
DigitsOf(s) ==
  LET from == IF Blank(s) <= Len(s) /\ s[Blank(s)] \in {"+", "-"} THEN Blank(s) + 1 ELSE Blank(s)
      rest == SubSeq(s, from, Len(s))
  IN  SubSeq(rest, 1, SelectInSeq(rest \o <<"end">>, LAMBDA ch : ch \notin DOMAIN DigitOf) - 1)

\* Mutant: the value is built up as a positive one.
AtoiPositive(s) ==
  LET value == FoldLeft(LAMBDA v, ch : IF v = Trap \/ v * 10 + DigitOf[ch] >= -Lowest THEN Trap
                                       ELSE v * 10 + DigitOf[ch], 0, DigitsOf(s))
  IN  IF Negative(s) /\ value # Trap THEN -value ELSE value

\* atoi, which builds up a negative value; Trap where an int would overflow.
Atoi(s) ==
  LET value == FoldLeft(LAMBDA v, ch : IF v = Trap \/ v * 10 - DigitOf[ch] < Lowest THEN Trap
                                       ELSE v * 10 - DigitOf[ch], 0, DigitsOf(s))
  IN  IF value = Trap \/ Negative(s) THEN value
      ELSE IF value = Lowest THEN Trap ELSE -value
-------------------------------------------------------------------------------
Swap(a, i, j) == [a EXCEPT ![i] = a[j], ![j] = a[i]]

\* Mutant: the right child of the last parent is overlooked.
LargestShort(a, i, cnt) ==
  LET m == IF 2 * i <= cnt /\ a[2 * i].key > a[i].key THEN 2 * i ELSE i
  IN  IF 2 * i + 1 < cnt /\ a[2 * i + 1].key > a[m].key THEN 2 * i + 1 ELSE m

\* The index of the largest among i and its children.
Largest(a, i, cnt) ==
  LET m == IF 2 * i <= cnt /\ a[2 * i].key > a[i].key THEN 2 * i ELSE i
  IN  IF 2 * i + 1 <= cnt /\ a[2 * i + 1].key > a[m].key THEN 2 * i + 1 ELSE m

\* heapify.
RECURSIVE Heapify(_, _, _)
Heapify(a, i, cnt) ==
  LET m == Largest(a, i, cnt) IN IF m = i THEN a ELSE Heapify(Swap(a, i, m), m, cnt)

Down(from, to) == [i \in 1..from - to + 1 |-> from - i + 1]

\* sort: build a heap, then move its top behind it until one is left.
SortArray(a) ==
  LET n == Len(a)
      heap == FoldLeft(LAMBDA b, i : Heapify(b, i, n), a, Down(n \div 2, 1))
  IN  FoldLeft(LAMBDA b, i : Heapify(Swap(b, 1, i), 1, i - 1), heap, Down(n, 2))

\* Mutant: the middle is looked at again.
RECURSIVE SearchAgain(_, _, _, _)
SearchAgain(a, key, first, last) ==
  IF first + 1 >= last THEN IF first < last /\ a[first + 1].key = key THEN first ELSE -1
  ELSE LET m == first + (last - first) \div 2
       IN  IF key < a[m + 1].key THEN SearchAgain(a, key, first, m - 1)
           ELSE SearchAgain(a, key, m, last)

\* binary_search between first and last, positions from 0: a match's or -1.
RECURSIVE Search(_, _, _, _)
Search(a, key, first, last) ==
  IF first >= last THEN -1
  ELSE LET m == first + (last - first) \div 2
       IN  CASE key < a[m + 1].key -> Search(a, key, first, m)
             [] key > a[m + 1].key -> Search(a, key, m + 1, last)
             [] OTHER -> m
-------------------------------------------------------------------------------
Nul == "nul"
Digit == <<"0", "1", "2", "3", "4", "5", "6", "7", "8", "9", "a", "b", "c", "d", "e", "f">>
Conversions ==
  [d |-> [base |-> 10, group |-> 3, x |-> FALSE], u |-> [base |-> 10, group |-> 3, x |-> FALSE],
   o |-> [base |-> 8, group |-> 3, x |-> FALSE], x |-> [base |-> 16, group |-> 4, x |-> TRUE]]

Abs(n) == IF n < 0 THEN -n ELSE n
AtLeast(a, b) == IF a > b THEN a ELSE b
AtMost(a, b) == IF a < b THEN a ELSE b
\* output_dup.
Dup(ch, n) == [i \in 1..n |-> ch]
-------------------------------------------------------------------------------
(* stdio.c. *)

\* Mutant: a precision does not turn the zeros off.
ParseKeepsZero(c) ==
  [flags |-> (IF "-" \in c.flags THEN c.flags \ {"0"} ELSE c.flags)
               \cup (IF c.width < 0 THEN {"-"} ELSE {}),
   width |-> Abs(c.width), precision |-> AtLeast(c.precision, -1)]

\* parse_conversion; a width below 0 comes from `*'.
ParseConversion(c) ==
  [flags |-> ((IF "-" \in c.flags THEN c.flags \ {"0"} ELSE c.flags)
                \cup (IF c.width < 0 THEN {"-"} ELSE {}))
               \ ((IF "+" \in c.flags THEN {" "} ELSE {})
                   \cup (IF c.precision >= 0 THEN {"0"} ELSE {})),
   width |-> Abs(c.width), precision |-> AtLeast(c.precision, -1)]

\* The argument as its type has it, by the h letters: c.bits wide.
Value(c) ==
  LET u == c.value % 2^c.bits
  IN  IF c.conv = "d" /\ u >= 2^(c.bits - 1) THEN u - 2^c.bits ELSE u

SignOf(conv, value, flags) ==
  CASE conv # "d" -> <<>>
    [] value < 0 -> <<"-">>
    [] "+" \in flags -> <<"+">>
    [] " " \in flags -> <<" ">>
    [] OTHER -> <<>>
PrefixOf(conv, value, flags) ==
  IF "#" \in flags /\ value # 0 /\ Conversions[conv].x THEN <<"0", "x">> ELSE <<>>

\* The digits that are left of n characters already in buf, the last one first;
\* count of them are digits.
RECURSIVE Accumulate(_, _, _, _)
Accumulate(value, b, grouped, count) ==
  IF value = 0 THEN <<>>
  ELSE (IF grouped /\ count > 0 /\ count % b.group = 0 THEN <<",">> ELSE <<>>)
         \o <<Digit[(value % b.base) + 1]>> \o Accumulate(value \div b.base, b, grouped, count + 1)

\* buf, in the order it is printed.
Body(value, b, f) ==
  LET ds == Reverse(Accumulate(value, b, "'" \in f.flags, 0))
      precision == IF f.precision < 0 THEN 1 ELSE AtMost(f.precision, BufLen - 1)
      padded == Dup("0", AtLeast(precision - Len(ds), 0)) \o ds
  IN  IF "#" \in f.flags /\ b.base = 8 /\ (padded = <<>> \/ padded[1] # "0")
      THEN <<"0">> \o padded ELSE padded

\* Mutant: the sign does not count against the width.
PadNoSign(f, pre, body) == AtLeast(f.width - Len(body) - (IF Len(pre) > 1 THEN 2 ELSE 0), 0)

\* pad_cnt.
PadCount(f, pre, body) == AtLeast(f.width - Len(body) - Len(pre), 0)

\* format_integer.
FormatInteger(conv, value, f) ==
  LET body == Body(Abs(value), Conversions[conv], f)
      pre == SignOf(conv, value, f.flags) \o PrefixOf(conv, value, f.flags)
      pad == PadCount(f, pre, body)
      On(cond, ch) == IF cond THEN Dup(ch, pad) ELSE <<>>
  IN  On(f.flags \cap {"-", "0"} = {}, " ") \o pre \o On("0" \in f.flags, "0")
        \o body \o On("-" \in f.flags, " ")

\* format_string.
FormatString(s, f) ==
  LET pad == Dup(" ", AtLeast(f.width - Len(s), 0))
  IN  IF "-" \in f.flags THEN s \o pad ELSE pad \o s

\* One conversion of __vprintf; strnlen limits a string to the precision.
ConvertField(c) ==
  LET f == ParseConversion(c)
  IN  CASE c.conv = "s" ->
             FormatString(IF f.precision < 0 THEN c.string
                          ELSE SubSeq(c.string, 1, AtMost(f.precision, Len(c.string))), f)
        [] c.conv = "c" -> FormatString(SubSeq(c.string, 1, 1), f)
        [] OTHER -> FormatInteger(c.conv, Value(c), f)

\* Mutant: the last place is not kept for the terminator.
HelperOff(aux, ch, size) ==
  [length |-> aux.length + 1,
   buffer |-> IF aux.length < size THEN Append(aux.buffer, ch) ELSE aux.buffer]

\* vsnprintf_helper: aux.buffer is what lies before aux.p.
Helper(aux, ch, size) ==
  [length |-> aux.length + 1,
   buffer |-> IF aux.length < AtLeast(size - 1, 0) THEN Append(aux.buffer, ch) ELSE aux.buffer]

\* vsnprintf of one conversion.
Vsnprintf(c, size) ==
  LET aux == FoldLeft(LAMBDA a, ch : Helper(a, ch, size),
                      [length |-> 0, buffer |-> <<>>], ConvertField(c))
  IN  [written |-> IF size > 0 THEN Append(aux.buffer, Nul) ELSE aux.buffer,
       length |-> aux.length, all |-> ConvertField(c)]

\* Mutant: the last line is filled up with bytes beyond the end.
EndAlways(start, size) == PerLine

\* The end of a line's bytes.
LineEnd(start, size) == IF PerLine - start > size THEN start + size ELSE PerLine

\* hex_dump: of each line its offset and, per column, the byte's index or -1.
RECURSIVE HexDump(_, _, _)
HexDump(ofs, first, size) ==
  IF size = 0 THEN <<>>
  ELSE LET start == ofs % PerLine
           end == LineEnd(start, size)
           n == AtMost(end - start, size)
       IN  << [at |-> ofs - start,
               hex |-> [i \in 0..PerLine - 1 |-> IF i \in start..end - 1 THEN first + i - start
                                                ELSE -1]] >>
             \o HexDump(ofs + n, first + n, size - n)

\* print_human_readable_size: the number and which of the five units.
RECURSIVE HumanReadable(_, _)
HumanReadable(size, unit) ==
  IF size >= Kilo /\ unit < 4 THEN HumanReadable(size \div Kilo, unit + 1)
  ELSE [number |-> size, unit |-> unit]
-------------------------------------------------------------------------------
(* string.c. *)

Upwards(n) == [k \in 1..n |-> k - 1]
StrLen(m, p) == CHOOSE k \in 0..Len(m) : m[p + k] = Nul /\ \A j \in 0..k - 1 : m[p + j] # Nul
CopyBytes(m, dst, src, order) ==
  FoldLeft(LAMBDA b, k : [b EXCEPT ![dst + k] = b[src + k]], m, order)

\* Mutant: always from the first byte on.
MemmoveUp(m, dst, src, n) ==
  [mem |-> CopyBytes(m, dst, src, Upwards(n)), ret |-> dst + n]

\* memmove; copying upwards leaves dst behind the last byte.
Memmove(m, dst, src, n) ==
  IF dst < src THEN [mem |-> CopyBytes(m, dst, src, Upwards(n)), ret |-> dst + n]
  ELSE [mem |-> CopyBytes(m, dst, src, Reverse(Upwards(n))), ret |-> dst]

\* strlcpy.
Strlcpy(m, dst, src, size) ==
  LET n == StrLen(m, src)
      k == AtMost(n, size - 1)
  IN  [mem |-> IF size = 0 THEN m ELSE [CopyBytes(m, dst, src, Upwards(k)) EXCEPT ![dst + k] = Nul],
       ret |-> n]

\* Mutant: no place is kept for the terminator.
CopyCountFull(n, at, size) == AtMost(n, size - at)

\* copy_cnt of strlcat.
CopyCount(n, at, size) == AtMost(n, size - at - 1)

\* strlcat.
Strlcat(m, dst, src, size) ==
  LET n == StrLen(m, src)
      at == StrLen(m, dst)
      k == CopyCount(n, at, size)
  IN  [mem |-> IF at >= size THEN m
               ELSE [CopyBytes(m, dst + at, src, Upwards(k)) EXCEPT ![dst + at + k] = Nul],
       ret |-> n + at]

\* strstr; 0 for a null pointer.
Strstr(m, hay, needle) ==
  LET n == StrLen(m, needle)
      at == {i \in 0..StrLen(m, hay) - n : \A k \in 0..n - 1 : m[hay + i + k] = m[needle + k]}
  IN  IF at = {} THEN 0 ELSE hay + Min(at)

\* Where strspn (in = TRUE) or strcspn stops.
Span(m, p, set, in) == Min({i \in p..p + StrLen(m, p) : m[i] = Nul \/ ((m[i] \in set) # in)})

\* Mutant: the delimiter behind a token is not skipped but left in place.
StrtokNoCut(t, delimiters) ==
  LET token == Span(t.mem, t.save, delimiters, TRUE)
      end == Span(t.mem, token, delimiters, FALSE)
  IN  [mem |-> t.mem, save |-> end,
       tokens |-> IF t.mem[token] = Nul THEN t.tokens ELSE Append(t.tokens, token)]

\* strtok_r, from save_ptr.
Strtok(t, delimiters) ==
  LET token == Span(t.mem, t.save, delimiters, TRUE)
      end == Span(t.mem, token, delimiters, FALSE)
  IN  CASE t.mem[token] = Nul -> [t EXCEPT !.save = token]
        [] t.mem[end] = Nul -> [t EXCEPT !.save = end, !.tokens = Append(@, token)]
        [] OTHER -> [mem |-> [t.mem EXCEPT ![end] = Nul], save |-> end + 1,
                     tokens |-> Append(t.tokens, token)]
-------------------------------------------------------------------------------
None == [of |-> "none"]
Init == call \in Calls /\ result = None

Make(kind, r) == call.kind = kind /\ result = None /\ result' = r /\ UNCHANGED call
Divide ==
  Make("unsigned", [quotient |-> Udiv(call.n, call.d), remainder |-> Umod(call.n, call.d)])
DivideSigned ==
  Make("signed", [quotient |-> Sdiv(call.n, call.d), remainder |-> Smod(call.n, call.d)])
Sort == Make("sort", [array |-> SortArray(call.array)])
Find == Make("find", [at |-> Search(call.array, call.key, 0, Len(call.array))])

Convert == Make("atoi", [number |-> Atoi(call.text)])

PrintField == Make("printf", Vsnprintf(call.conversion, call.size))
Dump == Make("dump", [lines |-> HexDump(call.ofs, 0, call.size)])
PrintSize == Make("size", HumanReadable(call.size, 0))
Move == Make("memmove", Memmove(call.mem, call.dst, call.src, call.size))
CopyString == Make("strlcpy", Strlcpy(call.mem, call.dst, call.src, call.size))
Concatenate == Make("strlcat", Strlcat(call.mem, call.dst, call.src, call.size))
FindString == Make("strstr", [ret |-> Strstr(call.mem, call.dst, call.src)])
Tokenize ==
  Make("strtok", FoldLeft(Strtok, [mem |-> call.mem, save |-> 1, tokens |-> <<>>], call.delimiters))

\* The caller may call again.
Again == result # None /\ result' = None /\ UNCHANGED call

Next ==
  \/ Divide \/ DivideSigned \/ Convert \/ Sort \/ Find
  \/ PrintField \/ Dump \/ PrintSize
  \/ Move \/ CopyString \/ Concatenate \/ FindString \/ Tokenize
  \/ Again
Spec == Init /\ [][Next]_vars
-------------------------------------------------------------------------------
Sign(n) == IF n < 0 THEN -1 ELSE 1
Quotient(n, d) == Sign(n) * Sign(d) * (Magnitude(n) \div Magnitude(d))
Remainder(n, d) == n - d * Quotient(n, d)
Divided == call.kind \in {"unsigned", "signed"} /\ result # None

\* arithmetic.c: quotients are exact up to the wrap of the smallest number by
\* -1, no divide error occurs, and remainders that fit into a word are exact.
DivisionRight ==
  Divided =>
    LET q == Quotient(call.n, call.d)  r == Remainder(call.n, call.d)
    IN  /\ result.quotient = IF call.kind = "signed" THEN AsSigned(q, Double) ELSE q
        /\ (IF call.kind = "signed" THEN AsSigned(r, Word) ELSE r % Word) = r =>
             result.remainder = r

\* stdlib.c:28: every text that is an int's is converted to it, the lowest too,
\* and no step on the way overflows.
AtoiRight ==
  call.kind = "atoi" /\ result # None =>
    LET n == FoldLeft(LAMBDA v, ch : v * 10 + DigitOf[ch], 0, DigitsOf(call.text))
        number == IF Negative(call.text) THEN -n ELSE n
    IN  Lowest <= number /\ number < -Lowest => result.number = number

\* stdlib.c: the array is a permutation of what it was, in order, and a key is
\* found if and only if it is there.
SortRight ==
  result # None =>
    /\ call.kind = "sort" =>
         /\ \A i \in 1..Len(call.array) - 1 : result.array[i].key <= result.array[i + 1].key
         /\ ToSet(result.array) = ToSet(call.array) /\ Len(result.array) = Len(call.array)
    /\ call.kind = "find" =>
         IF result.at = -1 THEN \A e \in ToSet(call.array) : e.key # call.key
         ELSE call.array[result.at + 1].key = call.key

StdlibRight == DivisionRight /\ AtoiRight /\ SortRight

Made(kind) == call.kind = kind /\ result # None

\* s is value's numeral in base b.base, grouped or not, without leading zeros.
IsNumeral(s, value, b, grouped) ==
  LET ds == SelectSeq(s, LAMBDA ch : ch # ",")
      DigitValue(ch) == CHOOSE k \in 0..15 : Digit[k + 1] = ch
  IN  /\ ds # <<>> => ds[1] # "0" /\ s[1] # ","
      /\ \A i \in DOMAIN ds : ds[i] \in ToSet(SubSeq(Digit, 1, b.base))
      /\ \A i \in DOMAIN s : s[i] = "," <=> grouped /\ (Len(s) - i + 1) % (b.group + 1) = 0
      /\ FoldLeft(LAMBDA n, ch : n * b.base + DigitValue(ch), 0, ds) = value

\* What the C standard, which the comments of stdio.c repeat, says of a field: s
\* on the side that the flags say and blanks up to the width, or zeros after the
\* sign; a precision is a least number of digits, which buf may cut.
NumberField(c, out) ==
  LET b == Conversions[c.conv]
      v == Value(c)
      left == "-" \in c.flags \/ c.width < 0
      filled == "0" \in c.flags /\ ~left /\ c.precision < 0
      pre == SignOf(c.conv, v, c.flags) \o PrefixOf(c.conv, v, c.flags)
      least == IF c.precision < 0 THEN 1 ELSE AtMost(c.precision, BufLen - 1)
  IN  \E n \in 0..Len(out) :
        LET octal == "#" \in c.flags /\ c.conv = "o" /\ n >= least
            zeros == IF octal THEN 1 ELSE AtLeast(least - n, 0)
            pad == AtLeast(Abs(c.width) - Len(pre) - zeros - n, 0)
            from == Len(pre) + zeros + IF left THEN 0 ELSE pad
            numeral == SubSeq(out, from + 1, from + n)
        IN  /\ from + n <= Len(out) /\ IsNumeral(numeral, Abs(v), b, "'" \in c.flags)
            /\ out = CASE left -> pre \o Dup("0", zeros) \o numeral \o Dup(" ", pad)
                       [] filled -> pre \o Dup("0", pad + zeros) \o numeral
                       [] OTHER -> Dup(" ", pad) \o pre \o Dup("0", zeros) \o numeral

StringField(c, out) ==
  LET s == SubSeq(c.string, 1, CASE c.conv = "c" -> 1
                                 [] c.precision < 0 -> Len(c.string)
                                 [] OTHER -> AtMost(c.precision, Len(c.string)))
  IN  /\ Len(out) = AtLeast(Abs(c.width), Len(s))
      /\ IF "-" \in c.flags \/ c.width < 0 THEN IsPrefix(s, out) ELSE IsSuffix(s, out)
      /\ \A i \in DOMAIN out : out[i] = " " \/ out[i] \in ToSet(s)

\* stdio.c:373: known oddity: `*' with a negative width leaves the zeros of a
\* 0 flag on, and the field is padded on both sides.
ZerosAndMinus(c) == "0" \in c.flags /\ c.width < 0 /\ "-" \notin c.flags /\ c.precision < 0

\* stdio.c: a field is what its conversion says, whatever flags, width, precision
\* and value come together; and the buffer holds as much of it as fits
\* before the terminator and nothing behind, with the full length returned.
PrintfRight ==
  Made("printf") =>
    LET c == call.conversion  size == call.size
    IN  /\ c.conv \in {"s", "c"} => StringField(c, result.all)
        /\ c.conv \notin {"s", "c"} /\ ~ZerosAndMinus(c) => NumberField(c, result.all)
        /\ result.length = Len(result.all) /\ Len(result.written) <= size
        /\ size > 0 => /\ Last(result.written) = Nul /\ IsPrefix(Front(result.written), result.all)
                       /\ Len(result.written) = AtMost(size, result.length + 1)

\* hex_dump: byte k is shown once, on the line and in the column of its offset.
DumpRight ==
  Made("dump") =>
    /\ \A l \in DOMAIN result.lines, i \in 0..PerLine - 1 :
         LET k == result.lines[l].at + i - call.ofs
         IN  result.lines[l].hex[i] = IF k \in 0..call.size - 1 THEN k ELSE -1
    /\ \A k \in 0..call.size - 1 :
         \E l \in DOMAIN result.lines :
            result.lines[l].at = call.ofs + k - ((call.ofs + k) % PerLine)
    /\ \A l \in 2..Len(result.lines) : result.lines[l].at > result.lines[l - 1].at

\* The number is the size in its unit, and only the largest unit has large numbers.
SizeRight ==
  Made("size") =>
    /\ call.size \div Kilo^result.unit = result.number
    /\ result.number < Kilo \/ result.unit = 4
    /\ result.unit > 0 => result.number > 0

Str(m, p) == SubSeq(m, p, p + StrLen(m, p) - 1)
Elsewhere(at, n) ==
  \A i \in DOMAIN call.mem : i \notin at..at + n - 1 => result.mem[i] = call.mem[i]

\* string.c: memmove moves what was there, however source and destination overlap;
\* bounded copies end with a terminator and stay within size; strstr finds the
\* first occurrence.
StringsRight ==
  /\ Made("memmove") =>
       /\ \A k \in 0..call.size - 1 : result.mem[call.dst + k] = call.mem[call.src + k]
       /\ Elsewhere(call.dst, call.size)
  /\ Made("strlcpy") =>
       LET s == Str(call.mem, call.src)
       IN  /\ result.ret = Len(s) /\ Elsewhere(call.dst, call.size)
           /\ call.size > 0 =>
                Str(result.mem, call.dst) = SubSeq(s, 1, AtMost(Len(s), call.size - 1))
  /\ Made("strlcat") =>
       LET d == Str(call.mem, call.dst)
           s == d \o Str(call.mem, call.src)
       IN  /\ result.ret = Len(s) /\ Elsewhere(call.dst, call.size)
           /\ Str(result.mem, call.dst) =
                SubSeq(s, 1, AtLeast(Len(d), AtMost(Len(s), call.size - 1)))
  /\ Made("strstr") =>
       LET Occurs(p) == IsPrefix(Str(call.mem, call.src), Str(call.mem, p))
           hay == call.dst..call.dst + StrLen(call.mem, call.dst)
       IN  IF result.ret = 0 THEN \A p \in hay : ~Occurs(p)
           ELSE /\ result.ret \in hay /\ Occurs(result.ret)
                /\ \A p \in hay : Occurs(p) => p >= result.ret

\* strtok_r: each call takes the next stretch without its own delimiters; what
\* lies between two tokens is a delimiter of the first's call and then delimiters
\* of the second's; no token is empty, and none is left when a call finds none.
TokensRight ==
  Made("strtok") =>
    LET sets == call.delimiters
        at(k) == result.tokens[k]
        end(k) == at(k) + StrLen(result.mem, at(k))
        n == Len(result.tokens)
        from(k) == IF k = 1 THEN 1 ELSE end(k - 1) + 1
        size == StrLen(call.mem, 1)
    IN  /\ \A k \in 1..n :
             /\ at(k) < end(k) /\ \A i \in at(k)..end(k) - 1 : call.mem[i] \notin sets[k]
             /\ end(k) = size + 1 \/ call.mem[end(k)] \in sets[k]
             /\ \A i \in from(k)..at(k) - 1 : call.mem[i] \in sets[k]
        /\ n < Len(sets) => \A i \in from(n + 1)..size : call.mem[i] \in sets[n + 1]

TextRight == PrintfRight /\ DumpRight /\ SizeRight /\ StringsRight /\ TokensRight

LibraryRight == StdlibRight /\ TextRight
=============================================================================
