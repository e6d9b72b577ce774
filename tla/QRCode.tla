------------------------------ MODULE QRCode ------------------------------
(* The QR code the browser draws when an authenticator app is set up           *)
(* (web/static/qrcode.js): bytes, correction level M, versions 1 to 16.  A     *)
(* text is a sequence of character codes, a symbol a function from places      *)
(* <<x, y>> to 0 and 1.                                                        *)
EXTENDS Integers, Sequences, FiniteSets, SequencesExt, FiniteSetsExt, Bitwise, TLC

CONSTANT Texts   \* the texts that are drawn

VARIABLE drawing \* the loop over the masks: its text, the candidate, the best

UpTo(n) == [i \in 1 .. n |-> i - 1]
Bits(val, len) == [i \in 1 .. len |-> (val \div (2 ^ (len - i))) % 2]
BitsOf(bytes) == [i \in 1 .. 8 * Len(bytes) |-> (bytes[((i - 1) \div 8) + 1] \div (2 ^ (7 - ((i - 1) % 8)))) % 2]
Number(bits) == FoldLeft(LAMBDA v, b : 2 * v + b, 0, bits)
Bytes(bits) == [i \in 1 .. Len(bits) \div 8 |-> Number(SubSeq(bits, 8 * i - 7, 8 * i))]
Zeros(n) == [i \in 1 .. n |-> 0]

-----------------------------------------------------------------------------
(* The field with 256 elements                                               *)
Double(x) == IF 2 * x < 256 THEN 2 * x ELSE (2 * x) ^^ 285
EXP == FoldLeft(LAMBDA s, i : Append(s, Double(Last(s))), <<1>>, UpTo(254))
LOG == [x \in 1 .. 255 |-> (CHOOSE i \in 1 .. 255 : EXP[i] = x) - 1]
Power(i) == EXP[(i % 255) + 1]
Mul(a, b) == IF a = 0 \/ b = 0 THEN 0 ELSE Power(LOG[a] + LOG[b])

\* The product of (x + 2^i) for i < n; the first coefficient is that of x^0.
RsPoly(n) ==
    FoldLeft(LAMBDA p, i : Append([j \in 1 .. i + 1 |-> Mul(p[j], Power(i)) ^^ (IF j > 1 THEN p[j - 1] ELSE 0)],
                                  p[i + 1]),
             <<1>>, UpTo(n))

RsEncode(data, n) ==
    LET gen == RsPoly(n) IN
    FoldLeft(LAMBDA rem, d : LET factor == d ^^ rem[1]
                             IN Append([j \in 1 .. n - 1 |-> rem[j + 1] ^^ Mul(gen[j + 1], factor)],
                                       Mul(gen[n + 1], factor)),
             Zeros(n), data)

-----------------------------------------------------------------------------
(* The code words                                                            *)
Size(size, data, ec, blocks, aligns) ==
    [size |-> size, data |-> data, ec |-> ec, blocks |-> blocks, aligns |-> aligns]
SPEC == << Size(21, 16, 10, 1, {}), Size(25, 28, 16, 1, {18}), Size(29, 44, 26, 1, {22}),
    Size(33, 64, 18, 2, {26}), Size(37, 86, 24, 2, {30}), Size(41, 108, 16, 4, {34}),
    Size(45, 124, 18, 4, {22, 38}), Size(49, 154, 22, 4, {24, 42}), Size(53, 182, 22, 5, {26, 46}),
    Size(57, 216, 26, 5, {28, 50}), Size(61, 254, 30, 5, {30, 54}), Size(65, 290, 22, 8, {32, 58}),
    Size(69, 334, 22, 9, {34, 62}), Size(73, 365, 24, 9, {26, 46, 66}),
    Size(77, 415, 24, 10, {26, 48, 70}), Size(81, 453, 28, 10, {26, 50, 74}) >>

Utf8Of(c) ==
    IF c < 128 THEN <<c>>
    ELSE IF c < 2048 THEN <<192 + (c \div 64), 128 + (c % 64)>>
    ELSE <<224 + (c \div 4096), 128 + ((c \div 64) % 64), 128 + (c % 64)>>
Utf8Bytes(text) == FlattenSeq([i \in DOMAIN text |-> Utf8Of(text[i])])

LenBitsFor(ver) == IF ver >= 10 THEN 16 ELSE 8

\* Fault: the header is forgotten.
WholeCapacity(ver) == SPEC[ver].data

ByteCapacity(ver) == (8 * SPEC[ver].data - 4 - LenBitsFor(ver)) \div 8
Fitting(n) == {v \in 1 .. 16 : ByteCapacity(v) >= n}

DataBytes(payload, ver) ==
    LET capacity == 8 * SPEC[ver].data
        head == Bits(4, 4) \o Bits(Len(payload), LenBitsFor(ver))
                  \o BitsOf(payload)
        ended == head \o Zeros(Min({4, Max({0, capacity - Len(head)})}))
        bytes == Bytes(ended \o Zeros((8 - (Len(ended) % 8)) % 8))
    IN bytes \o [i \in 1 .. SPEC[ver].data - Len(bytes) |-> IF i % 2 = 1 THEN 236 ELSE 17]

\* Fault: the long blocks come first.
LongBlocksFirst(s) == LET long == s.data % s.blocks IN
    [b \in 1 .. s.blocks |-> (s.data \div s.blocks) + IF b <= long THEN 1 ELSE 0]

BlockLengths(s) == LET short == s.blocks - (s.data % s.blocks) IN
    [b \in 1 .. s.blocks |-> (s.data \div s.blocks) + IF b <= short THEN 0 ELSE 1]

InTurn(parts) ==
    FlattenSeq([i \in 1 .. Max({Len(parts[b]) : b \in DOMAIN parts}) |->
        LET has == SelectSeq([b \in DOMAIN parts |-> b], LAMBDA b : i <= Len(parts[b]))
        IN [k \in DOMAIN has |-> parts[has[k]][i]]])

BuildData(payload, ver) ==
    LET s == SPEC[ver]
        bytes == DataBytes(payload, ver)
        len == BlockLengths(s)
        off(b) == FoldLeft(LAMBDA n, i : n + len[i], 0, [i \in 1 .. b - 1 |-> i])
        d == [b \in 1 .. s.blocks |-> SubSeq(bytes, off(b) + 1, off(b) + len[b])]
    IN InTurn(d) \o InTurn([b \in 1 .. s.blocks |-> RsEncode(d[b], s.ec)])

-----------------------------------------------------------------------------
(* The symbol                                                                *)
Unset == 2   \* a place nothing was drawn on yet
Places(size) == (0 .. size - 1) \X (0 .. size - 1)
Dist(a, b) == IF a > b THEN a - b ELSE b - a
Ring(p, cx, cy) == Max({Dist(p[1], cx), Dist(p[2], cy)})

\* What is drawn last counts.
Draw(m, drawn, bit(_)) == [p \in drawn \cap DOMAIN m |-> bit(p)] @@ m
Free(m, places) == {p \in places : m[p] = Unset}

SetFinder(m, ox, oy) ==
    Draw(m, {p \in DOMAIN m : Ring(p, ox + 3, oy + 3) <= 4},
         LAMBDA p : IF Ring(p, ox + 3, oy + 3) \in {0, 1, 3} THEN 1 ELSE 0)

SetAlign(m, c) == Draw(m, {p \in DOMAIN m : Ring(p, c[1], c[2]) <= 2},
                       LAMBDA p : IF Ring(p, c[1], c[2]) = 1 THEN 0 ELSE 1)

AlignCenters(s) ==
    {c \in ({6} \cup s.aligns) \X ({6} \cup s.aligns) :
        /\ ~(c[1] < 9 /\ c[2] < 9) /\ ~(c[1] > s.size - 10 /\ c[2] < 9)
        /\ ~(c[1] < 9 /\ c[2] > s.size - 10)}

VersionPlaces(size, bit) == LET a == bit \div 3
                                b == size - 11 + (bit % 3) IN {<<a, b>>, <<b, a>>}

\* Everything but the data, the format and the version.
Template(ver) ==
    LET s == SPEC[ver]
        n == s.size
        finders == SetFinder(SetFinder(SetFinder([p \in Places(n) |-> Unset], 0, 0), n - 7, 0), 0, n - 7)
        timing == Draw(finders, Free(finders, {p \in Places(n) : \E i \in 8 .. n - 9 : p \in {<<i, 6>>, <<6, i>>}}),
                           LAMBDA p : IF (p[1] + p[2]) % 2 = 0 THEN 1 ELSE 0)
        aligned == FoldSet(LAMBDA c, m : SetAlign(m, c), timing, AlignCenters(s))
        formats == {p \in Places(n) : \/ p[2] = 8 /\ (p[1] < 9 \/ p[1] >= n - 8)
                                      \/ p[1] = 8 /\ (p[2] < 9 \/ p[2] >= n - 8)}
        format == Draw(aligned, Free(aligned, formats), LAMBDA p : 0)
        dark == [format EXCEPT ![<<8, n - 8>>] = 1]
    IN IF ver < 7 THEN dark
       ELSE Draw(dark, UNION {VersionPlaces(n, i) : i \in 0 .. 17}, LAMBDA p : 0)

\* The k-th pair of columns from the right (the timing column left out), and
\* its places for data, from below and from above in turn.
Right(size, k) == LET x == size + 1 - 2 * k IN IF x <= 6 THEN x - 1 ELSE x
Path(m, size, k) ==
    SelectSeq([i \in 1 .. 2 * size |->
                   <<Right(size, k) - ((i - 1) % 2), IF k % 2 = 1 THEN size - 1 - ((i - 1) \div 2) ELSE (i - 1) \div 2>>],
              LAMBDA p : m[p] = Unset)

ApplyMask(id, p) == LET x == p[1]
                        y == p[2] IN
    CASE id = 0 -> (x + y) % 2 = 0
      [] id = 1 -> y % 2 = 0
      [] id = 2 -> x % 3 = 0
      [] id = 3 -> (x + y) % 3 = 0
      [] id = 4 -> ((y \div 2) + (x \div 3)) % 2 = 0
      [] id = 5 -> ((x * y) % 2) + ((x * y) % 3) = 0
      [] id = 6 -> (((x * y) % 2) + ((x * y) % 3)) % 2 = 0
      [] OTHER -> (((x + y) % 2) + ((x * y) % 3)) % 2 = 0

FormatBits(mask) ==
    LET rem == FoldLeft(LAMBDA r, i : (2 * r) ^^ ((r \div 512) * 1335), mask, UpTo(10))
    IN (1024 * mask + (rem % 1024)) ^^ 21522

VersionBits(ver) ==
    LET rem == FoldLeft(LAMBDA r, i : IF (r \div (2 ^ i)) % 2 = 1 THEN r ^^ (7973 * (2 ^ (i - 12))) ELSE r,
                        ver * 4096, [k \in 1 .. 6 |-> 18 - k])
    IN 4096 * ver + (rem % 4096)

\* Where bit i of the format goes, in its two copies.
FirstCopy == [i \in 0 .. 14 |->
    << <<8, 0>>, <<8, 1>>, <<8, 2>>, <<8, 3>>, <<8, 4>>, <<8, 5>>, <<8, 7>>, <<8, 8>>, <<7, 8>>,
       <<5, 8>>, <<4, 8>>, <<3, 8>>, <<2, 8>>, <<1, 8>>, <<0, 8>> >>[i + 1]]

\* Fault: the second copy starts one bit early on the column (an older version).
SecondCopyShifted(size) ==
    [i \in 0 .. 14 |-> IF i < 7 THEN <<size - 1 - i, 8>> ELSE <<8, size - 15 + i>>]

SecondCopy(size) ==
    [i \in 0 .. 14 |-> IF i < 8 THEN <<size - 1 - i, 8>> ELSE <<8, size - 15 + i>>]

DrawBits(m, bits, places) ==
    Draw(m, {places[i] : i \in DOMAIN places},
         LAMBDA p : (bits \div (2 ^ (CHOOSE i \in DOMAIN places : places[i] = p))) % 2)

EncodeWithMask(template, code, mask, ver) ==
    LET size == SPEC[ver].size
        bit(i, p) == LET b == IF i <= 8 * Len(code) THEN BitsOf(code)[i] ELSE 0
                     IN IF ApplyMask(mask, p) THEN 1 - b ELSE b
        column(m, k) ==
            LET path == Path(template, size, k)
                before == Cardinality({p \in DOMAIN template : template[p] = Unset /\ p[1] > Right(size, k)})
            IN Draw(m, ToSet(path), LAMBDA p : bit(before + CHOOSE i \in DOMAIN path : path[i] = p, p))
        filled == FoldLeft(column, template, [k \in 1 .. (size - 1) \div 2 |-> k])
        formatted == DrawBits(DrawBits(filled, FormatBits(mask), FirstCopy), FormatBits(mask), SecondCopy(size))
    IN IF ver < 7 THEN formatted
       ELSE Draw(formatted, UNION {VersionPlaces(size, i) : i \in 0 .. 17}, LAMBDA p :
                 (VersionBits(ver) \div (2 ^ (CHOOSE i \in 0 .. 17 : p \in VersionPlaces(size, i)))) % 2)

\* Five and more of one colour in a line: three, and one for each more.
MaskPenalty(m, size) ==
    LET at(d, l, i) == IF d = "row" THEN m[<<i, l>>] ELSE m[<<l, i>>]
        five == {f \in {"row", "column"} \X (0 .. size - 1) \X (0 .. size - 5) :
                   \A k \in 1 .. 4 : at(f[1], f[2], f[3] + k) = at(f[1], f[2], f[3])}
    IN Cardinality(five) + 2 * Cardinality({f \in five : <<f[1], f[2], f[3] - 1>> \notin five})

-----------------------------------------------------------------------------
(* encode() tries the masks in turn and keeps the first with the least       *)
(* penalty; mount() shows the symbol, or why there is none.                  *)
Undrawn == [text |-> <<>>, ver |-> 0, code |-> <<>>, mask |-> 0, best |-> <<>>, score |-> -1,
            shown |-> "nothing"]

QRInit == drawing = Undrawn

Mount(text) ==
    /\ drawing = Undrawn
    /\ LET bytes == Utf8Bytes(text)
           fits == Fitting(Len(bytes))
       IN drawing' = IF fits = {} THEN [Undrawn EXCEPT !.text = text, !.shown = "too long"]
                     ELSE [Undrawn EXCEPT !.text = text, !.ver = Min(fits), !.code = BuildData(bytes, Min(fits))]

TryMask ==
    /\ drawing.ver > 0 /\ drawing.shown = "nothing"
    /\ \E cand \in {EncodeWithMask(Template(drawing.ver), drawing.code, drawing.mask, drawing.ver)} :
         LET penalty == MaskPenalty(cand, SPEC[drawing.ver].size)
             better == drawing.score < 0 \/ penalty < drawing.score
         IN drawing' = [drawing EXCEPT !.mask = @ + 1,
                                       !.best = IF better THEN cand ELSE @,
                                       !.score = IF better THEN penalty ELSE @,
                                       !.shown = IF drawing.mask = 7 THEN "symbol" ELSE @]

QRNext == (\E text \in Texts : Mount(text)) \/ TryMask

-----------------------------------------------------------------------------
(* A reader after ISO 18004: what it knows of the symbol is its size and the *)
(* tables of correction level M; it corrects no errors.                      *)
Field(m, places) == [i \in DOMAIN places |-> m[places[i]]]

\* The format words of level M.
FormatWord(mask) ==
    << 21522, 20773, 24188, 23371, 17913, 16590, 20375, 19104 >>[mask + 1]
\* The version words of versions 7 to 16.
VersionWord(ver) ==
    << 31892, 34236, 39577, 42195, 48118, 51042, 55367, 58893, 63784, 68472 >>[ver - 6]

MasksRead(m, places) == {k \in 0 .. 7 : \A i \in 0 .. 14 : m[places[i]] = (FormatWord(k) \div (2 ^ i)) % 2}
VersionRead(m, ver) ==
    LET size == 17 + 4 * ver IN
    ver >= 7 => \A i \in 0 .. 17 : \A p \in {<<i \div 3, size - 11 + (i % 3)>>, <<size - 11 + (i % 3), i \div 3>>} :
                    m[p] = (VersionWord(ver) \div (2 ^ i)) % 2

\* Row and column of the centres of the alignment patterns, from the version.
AlignSteps(ver) ==
    IF ver = 1 THEN {}
    ELSE LET last == 10 + 4 * ver
             count == (ver \div 7) + 2
             gap == 2 * ((last - 6 + 2 * (count - 1) - 1) \div (2 * (count - 1)))
         IN {6} \cup {last - k * gap : k \in 0 .. count - 2}

Fixed(ver, p) ==
    LET size == 17 + 4 * ver
        x == p[1]
        y == p[2]
        steps == AlignSteps(ver)
        first == 6
        last == size - 7
    IN \/ x = 6
       \/ y = 6
       \/ x <= 8 /\ y <= 8
       \/ x <= 8 /\ y >= size - 8
       \/ x >= size - 8 /\ y <= 8
       \/ \E c \in (steps \X steps) \ {<<first, first>>, <<first, last>>, <<last, first>>} : Ring(p, c[1], c[2]) <= 2
       \/ ver >= 7 /\ x <= 5 /\ y >= size - 11
       \/ ver >= 7 /\ y <= 5 /\ x >= size - 11

\* The columns are read in pairs from the right, the timing column left out.
ReadingOrder(ver) ==
    LET size == 17 + 4 * ver
        columns == [k \in 1 .. (size - 1) \div 2 |-> IF size + 1 - 2 * k > 6 THEN size + 1 - 2 * k ELSE size - 2 * k]
        place(k, r) == <<columns[k] - (r % 2), IF k % 2 = 1 THEN size - 1 - (r \div 2) ELSE r \div 2>>
    IN SelectSeq([i \in 1 .. size * (size - 1) |-> place(((i - 1) \div (2 * size)) + 1, (i - 1) % (2 * size))],
                 LAMBDA p : ~Fixed(ver, p))

CodeRead(m, ver, mask) ==
    LET order == ReadingOrder(ver)
    IN Bytes([i \in DOMAIN order |-> IF ApplyMask(mask, order[i]) THEN 1 - m[order[i]] ELSE m[order[i]]])

\* The data words of block b, then its correction words, taken out of the sequence.
BlockRead(code, s, b) ==
    LET short == s.data \div s.blocks
        own == short + IF b > s.blocks - (s.data % s.blocks) THEN 1 ELSE 0
        at(i) == IF i <= short THEN (i - 1) * s.blocks + b ELSE short * s.blocks + b - (s.blocks - (s.data % s.blocks))
    IN [i \in 1 .. own |-> code[at(i)]] \o [i \in 1 .. s.ec |-> code[s.data + (i - 1) * s.blocks + b]]

TextRead(m, ver, mask) ==
    LET s == SPEC[ver]
        code == CodeRead(m, ver, mask)
        words == FlattenSeq([b \in 1 .. s.blocks |-> LET w == BlockRead(code, s, b) IN SubSeq(w, 1, Len(w) - s.ec)])
        bits == BitsOf(words)
        head == 4 + IF ver >= 10 THEN 16 ELSE 8
        len == Number(SubSeq(bits, 5, head))
    IN IF Number(SubSeq(bits, 1, 4)) # 4 THEN <<>> ELSE Bytes(SubSeq(bits, head + 1, head + 8 * len))

\* UTF-8 of characters up to 65535.
Decodes(bytes, text) ==
    LET starts == SelectSeq([i \in DOMAIN bytes |-> i], LAMBDA i : bytes[i] \div 64 # 2)
        char(i) == IF bytes[i] < 128 THEN bytes[i]
                   ELSE IF bytes[i] < 224 THEN (bytes[i] % 32) * 64 + (bytes[i + 1] % 64)
                   ELSE (bytes[i] % 16) * 4096 + (bytes[i + 1] % 64) * 64 + (bytes[i + 2] % 64)
    IN text = [k \in DOMAIN starts |-> char(starts[k])]

(* Whichever copy of the format a reader finds, and wherever it looks for    *)
(* the version, it takes the mask that was chosen, and the data of a symbol  *)
(* that is shown are the text: no other text, no part of one (encode).       *)
TextReadsBack ==
    drawing.shown = "symbol" =>
        LET m == drawing.best
            last == 16 + 4 * drawing.ver
            masks == MasksRead(m, FirstCopy)
        IN /\ masks = MasksRead(m, [i \in 0 .. 14 |-> IF i < 8 THEN <<last - i, 8>> ELSE <<8, last - 14 + i>>])
           /\ VersionRead(m, drawing.ver)
           /\ \E k \in masks : Decodes(TextRead(m, drawing.ver, k), drawing.text)

(* "local QR encoder (byte mode, ECC-M)" (qrcode.js:2): every block of the   *)
(* symbol is a word of the Reed-Solomon code of its level, so that a reader, *)
(* which checks that first, accepts it.                                      *)
BlocksAreCodewords ==
    drawing.shown = "symbol" =>
        LET s == SPEC[drawing.ver]
            code == CodeRead(drawing.best, drawing.ver, CHOOSE k \in MasksRead(drawing.best, FirstCopy) : TRUE)
        IN \A b \in 1 .. s.blocks : \A r \in 0 .. s.ec - 1 :
               FoldLeft(LAMBDA v, c : Mul(v, Power(r)) ^^ c, 0, BlockRead(code, s, b)) = 0
=============================================================================
