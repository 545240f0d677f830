---------------------------- MODULE WriterProofs ----------------------------
(***************************************************************************)
(* For every set of outputs, size of channel, limits and faults: the types  *)
(* of the outputs, and that no file of theirs grows beyond max_file_size.   *)
(*                                                                         *)
(* The count of bytes of a writer is of the lines in its file and of those  *)
(* in its buffer, so the invariant is about both; it must hold for writers  *)
(* side by side in one directory, and of the file a restart finds.          *)
(***************************************************************************)
EXTENDS DiagnosticsWriter, SequenceTheorems, FiniteSetTheorems,
        WellFoundedInduction, TLAPS

\* Every set of numbers has a least element: the induction that follows is
\* over the least counterexample.
LEMMA LeastNumber ==
    ASSUME NEW T \in SUBSET Nat, T # {}
    PROVE  \E x \in T : \A y \in T : x <= y
<1>1. IsWellFoundedOn(OpToRel(<, Nat), Nat)
  BY NatLessThanWellFounded
<1> DEFINE R == OpToRel(<, Nat)
<1>2. \A x, y \in Nat : <<x, y>> \in R <=> x < y
  BY DEF OpToRel
<1> HIDE DEF R
<1>3. PICK x \in T : \A y \in T : ~(<<y, x>> \in R)
  BY <1>1, WFMin DEF R
<1>4. \A y \in T : x <= y
  <2> TAKE y \in T
  <2>1. x \in Nat /\ y \in Nat
    OBVIOUS
  <2>2. ~(y < x)
    BY <1>2, <1>3, <2>1
  <2> QED
    BY <2>1, <2>2
<1> QED
  BY <1>4

\* Induction up to n: a set of numbers that holds 0 and the successor of each
\* of its numbers below n holds them all.
LEMMA UpTo ==
    ASSUME NEW n \in Nat, NEW S, 0 \in S,
           \A i \in 1 .. n : i - 1 \in S => i \in S
    PROVE  \A i \in 0 .. n : i \in S
<1> DEFINE T == {i \in 0 .. n : i \notin S}
<1> SUFFICES ASSUME T # {} PROVE FALSE
  OBVIOUS
<1>1. T \in SUBSET Nat
  OBVIOUS
<1>2. PICK x \in T : \A y \in T : x <= y
  BY <1>1, LeastNumber
<1>3. x \in 1 .. n /\ x - 1 \in 0 .. n /\ ~(x <= x - 1)
  BY <1>2
<1>4. x - 1 \in S
  BY <1>2, <1>3
<1> QED
  BY <1>2, <1>3, <1>4

-----------------------------------------------------------------------------
(* The size of a file *)

Bytes(lines) == FoldLeft(LAMBDA n, l : n + LineSize[l], 0, lines)

\* t[i] is the size of the first i lines.
Totals(t, lines) ==
    /\ t \in [0 .. Len(lines) -> Nat]
    /\ t[0] = 0
    /\ \A i \in 1 .. Len(lines) : t[i] = t[i - 1] + LineSize[lines[i]]

\* g is the size of each subset of the first n lines, as MapThenFoldSet sums it.
Sums(g, lines, n) ==
    g = [s \in SUBSET (1 .. n) |->
            IF s = {} THEN 0 ELSE g[s \ {Max(s)}] + LineSize[lines[Max(s)]]]

LEMMA BytesIsSum ==
    ASSUME NEW lines, DOMAIN lines = 1 .. Len(lines)
    PROVE  Bytes(lines) = (CHOOSE g : Sums(g, lines, Len(lines)))[1 .. Len(lines)]
BY DEF Bytes, FoldLeft, MapThenFoldSet, Sums

LEMMA HighestIs ==
    ASSUME NEW n \in Nat, NEW s \in SUBSET (1 .. n), n \in s
    PROVE  Max(s) = n
<1>1. \A y \in s : n >= y
  OBVIOUS
<1>2. \A x \in s : (\A y \in s : x >= y) => x = n
  OBVIOUS
<1> QED
  BY <1>1, <1>2 DEF Max

LEMMA SumsExist ==
    ASSUME NEW lines, NEW m \in Nat
    PROVE  \E g : Sums(g, lines, m)
<1> DEFINE S == {n \in Nat : \E g : Sums(g, lines, n)}
<1>1. 0 \in S
  <2> DEFINE g == [s \in SUBSET (1 .. 0) |-> 0]
  <2>1. \A s \in SUBSET (1 .. 0) : s = {}
    OBVIOUS
  <2>2. Sums(g, lines, 0)
    BY <2>1 DEF Sums
  <2> QED
    BY <2>2
<1>2. ASSUME NEW n \in 1 .. m, n - 1 \in S
      PROVE  n \in S
  <2>1. PICK g : Sums(g, lines, n - 1)
    BY <1>2
  <2> DEFINE h == [s \in SUBSET (1 .. n) |->
                     IF n \in s THEN g[s \ {n}] + LineSize[lines[n]] ELSE g[s]]
             k == [s \in SUBSET (1 .. n) |->
                     IF s = {} THEN 0
                     ELSE h[s \ {Max(s)}] + LineSize[lines[Max(s)]]]
  <2>2. \A s \in SUBSET (1 .. n) : n \notin s => s \in SUBSET (1 .. n - 1)
    OBVIOUS
  <2>3. ASSUME NEW s \in SUBSET (1 .. n) PROVE h[s] = k[s]
    <3>1. CASE n \in s
      <4>1. Max(s) = n
        BY <3>1, HighestIs
      <4>2. s \ {n} \in SUBSET (1 .. n) /\ n \notin s \ {n} /\ s # {}
        BY <3>1
      <4> QED
        BY <3>1, <4>1, <4>2
    <3>2. CASE n \notin s
      <4>1. s \in SUBSET (1 .. n - 1)
        BY <2>2, <3>2
      <4>2. g[s] = IF s = {} THEN 0
                   ELSE g[s \ {Max(s)}] + LineSize[lines[Max(s)]]
        BY <2>1, <4>1 DEF Sums
      <4>3. s \ {Max(s)} \in SUBSET (1 .. n) /\ n \notin s \ {Max(s)}
        BY <3>2
      <4> QED
        BY <3>2, <4>2, <4>3
    <3> QED
      BY <3>1, <3>2
  <2>4. h = k
    BY <2>3
  <2>5. Sums(h, lines, n)
    BY <2>4 DEF Sums
  <2> QED
    BY <2>5
<1> HIDE DEF S
<1>3. m \in S
  BY <1>1, <1>2, UpTo
<1> QED
  BY <1>3 DEF S

LEMMA BytesTotal ==
    ASSUME NEW lines \in Seq(Line)
    PROVE  \E t : Totals(t, lines) /\ Bytes(lines) = t[Len(lines)]
<1> DEFINE len == Len(lines)
           g   == CHOOSE f : Sums(f, lines, len)
           t   == [i \in 0 .. len |-> g[1 .. i]]
<1>1. len \in Nat /\ DOMAIN lines = 1 .. len
  OBVIOUS
<1>2. Sums(g, lines, len)
  BY <1>1, SumsExist
<1>3. Bytes(lines) = g[1 .. len]
  BY <1>1, BytesIsSum
<1> HIDE DEF g, len
<1>4. t[0] = 0
  <2>1. 1 .. 0 = {} /\ 0 \in 0 .. len
    BY <1>1
  <2>2. g[{}] = 0
    BY <1>2 DEF Sums
  <2> QED
    BY <2>1, <2>2
<1>5. ASSUME NEW i \in 1 .. len PROVE t[i] = t[i - 1] + LineSize[lines[i]]
  <2>1. 1 .. i \in SUBSET (1 .. len) /\ i \in 1 .. i /\ 1 .. i # {}
    BY <1>1
  <2>2. Max(1 .. i) = i
    BY <2>1, HighestIs
  <2>3. (1 .. i) \ {i} = 1 .. (i - 1)
    BY <1>1
  <2>4. g[1 .. i] = g[1 .. (i - 1)] + LineSize[lines[i]]
    BY <1>2, <2>1, <2>2, <2>3 DEF Sums
  <2> QED
    BY <1>1, <2>4
<1>6. t = [i \in 0 .. len |-> t[i]] /\ t[len] = g[1 .. len]
  BY <1>1
<1> HIDE DEF t
<1>7. \A i \in 0 .. len : t[i] \in Nat
  <2> DEFINE S == {i \in 0 .. len : t[i] \in Nat}
  <2>1. 0 \in S
    BY <1>1, <1>4
  <2>2. ASSUME NEW i \in 1 .. len, i - 1 \in S PROVE i \in S
    <3>1. LineSize[lines[i]] \in Nat
      BY WriterAssumption DEF len
    <3> QED
      BY <1>1, <1>5, <2>2, <3>1
  <2> HIDE DEF S
  <2>3. \A i \in 0 .. len : i \in S
    BY <1>1, <2>1, <2>2, UpTo
  <2> QED
    BY <2>3 DEF S
<1>8. t \in [0 .. len -> Nat]
  BY <1>6, <1>7
<1>9. Totals(t, lines)
  BY <1>4, <1>5, <1>8 DEF Totals, len
<1> QED
  BY <1>3, <1>6, <1>9 DEF len

LEMMA TotalsAgree ==
    ASSUME NEW p \in Seq(Line), NEW s \in Seq(Line), Len(p) <= Len(s),
           \A i \in 1 .. Len(p) : p[i] = s[i],
           NEW t, NEW u, Totals(t, p), Totals(u, s)
    PROVE  \A i \in 0 .. Len(p) : t[i] = u[i]
<1> DEFINE S == {i \in 0 .. Len(p) : t[i] = u[i]}
<1>1. 0 \in S
  BY DEF Totals
<1>2. ASSUME NEW i \in 1 .. Len(p), i - 1 \in S PROVE i \in S
  BY <1>2 DEF Totals
<1> HIDE DEF S
<1>3. Len(p) \in Nat
  OBVIOUS
<1>4. \A i \in 0 .. Len(p) : i \in S
  BY <1>1, <1>2, <1>3, UpTo
<1> QED
  BY <1>4 DEF S

LEMMA BytesOfNone == Bytes(<<>>) = 0
<1>1. <<>> \in Seq(Line) /\ Len(<<>>) = 0
  OBVIOUS
<1> QED
  BY <1>1, BytesTotal DEF Totals

LEMMA BytesAppend ==
    ASSUME NEW p \in Seq(Line), NEW l \in Line
    PROVE  Bytes(p \o <<l>>) = Bytes(p) + LineSize[l]
<1> DEFINE s == p \o <<l>>
<1>1. /\ s \in Seq(Line) /\ Len(s) = Len(p) + 1 /\ s[Len(s)] = l
      /\ \A i \in 1 .. Len(p) : s[i] = p[i]
      /\ Len(p) \in Nat
  OBVIOUS
<1> HIDE DEF s
<1>2. PICK t : Totals(t, p) /\ Bytes(p) = t[Len(p)]
  BY BytesTotal
<1>3. PICK u : Totals(u, s) /\ Bytes(s) = u[Len(s)]
  BY <1>1, BytesTotal
<1>4. t[Len(p)] = u[Len(p)]
  BY <1>1, <1>2, <1>3, TotalsAgree
<1>5. u[Len(s)] = u[Len(s) - 1] + LineSize[s[Len(s)]]
  BY <1>1, <1>3 DEF Totals
<1> QED
  BY <1>1, <1>2, <1>3, <1>4, <1>5 DEF s

LEMMA BytesPrefix ==
    ASSUME NEW p \in Seq(Line), NEW s \in Seq(Line), Len(p) <= Len(s),
           \A i \in 1 .. Len(p) : p[i] = s[i]
    PROVE  Bytes(p) \in Nat /\ Bytes(s) \in Nat /\ Bytes(p) <= Bytes(s)
<1>1. PICK t : Totals(t, p) /\ Bytes(p) = t[Len(p)]
  BY BytesTotal
<1>2. PICK u : Totals(u, s) /\ Bytes(s) = u[Len(s)]
  BY BytesTotal
<1>3. t[Len(p)] = u[Len(p)]
  BY <1>1, <1>2, TotalsAgree
<1> DEFINE m == Len(p)
           S == {i \in 0 .. Len(s) : i < m \/ u[m] <= u[i]}
<1>4. m \in Nat /\ Len(s) \in Nat /\ m <= Len(s)
  OBVIOUS
<1> HIDE DEF m
<1>5. 0 \in S
  BY <1>2, <1>4 DEF Totals
<1>6. ASSUME NEW i \in 1 .. Len(s), i - 1 \in S PROVE i \in S
  <2>1. LineSize[s[i]] \in Nat /\ u[i] \in Nat /\ u[i - 1] \in Nat /\ u[m] \in Nat
    <3>1. s[i] \in Line
      OBVIOUS
    <3>2. LineSize[s[i]] \in Nat
      BY <3>1, WriterAssumption
    <3>3. i \in 0 .. Len(s) /\ i - 1 \in 0 .. Len(s) /\ m \in 0 .. Len(s)
      BY <1>4
    <3> QED
      BY <1>2, <3>2, <3>3 DEF Totals
  <2>2. u[i] = u[i - 1] + LineSize[s[i]]
    BY <1>2 DEF Totals
  <2>3. CASE i - 1 < m
    BY <1>4, <2>1, <2>3
  <2>4. CASE u[m] <= u[i - 1]
    BY <1>4, <2>1, <2>2, <2>4
  <2> QED
    BY <1>4, <1>6, <2>3, <2>4
<1> HIDE DEF S
<1>7. Len(s) \in S
  <2>1. Len(s) \in Nat /\ Len(s) \in 0 .. Len(s)
    BY <1>4
  <2>2. \A i \in 0 .. Len(s) : i \in S
    BY <1>5, <1>6, <2>1, UpTo
  <2> QED
    BY <2>1, <2>2
<1>8. u[m] <= u[Len(s)] /\ u[m] \in Nat /\ u[Len(s)] \in Nat
  <2>1. m \in 0 .. Len(s) /\ Len(s) \in 0 .. Len(s) /\ ~(Len(s) < m)
    BY <1>4
  <2>2. u \in [0 .. Len(s) -> Nat]
    BY <1>2 DEF Totals
  <2>3. u[m] <= u[Len(s)]
    BY <1>7, <2>1 DEF S
  <2> QED
    BY <2>1, <2>2, <2>3
<1> QED
  BY <1>1, <1>2, <1>3, <1>8 DEF m

LEMMA SizeIs ==
    ASSUME NEW f, NEW fs
    PROVE  Size(f, fs) = IF f.zip THEN 1 ELSE Bytes(fs[f].lines)
BY DEF Size, Bytes

-----------------------------------------------------------------------------
(* The invariant *)

Fits(lines) == Limit # None => Len(lines) <= 1 \/ Bytes(lines) <= Limit

FilesOK(fs) ==
    \A f \in DOMAIN fs :
        /\ f.stem \in {Stem[w] : w \in Writer}
        /\ fs[f].lines \in Seq(Line) /\ fs[f].whole \in BOOLEAN
        /\ ~f.zip => Fits(fs[f].lines)

\* Names of rotated files.
RotatedNames(names) ==
    \A f \in names :
        /\ f = [stem |-> f.stem, day |-> f.day, seq |-> f.seq, zip |-> FALSE]
        /\ f.day # 0

\* The lines of w, in its file and in its buffer.
Held(w) == files[Live(w)].lines \o buf[w]

\* The count is of both, and both together fit into the file.
WriterOK(w) ==
    /\ mode[w] = "file" /\ linked[w] =>
          /\ Live(w) \in DOMAIN files
          /\ bytes_written[w] = Bytes(Held(w)) /\ Fits(Held(w))
    /\ mode[w] # "file" => buf[w] = <<>>

WriterTypes ==
    /\ sent \in 0..Cardinality(Line) /\ day \in 1..MaxDay
    /\ crashes \in 0..MaxFaults /\ failures \in 0..MaxFaults
    /\ mode \in [Writer -> {"unspawned", "cleanup", "open", "file", "stderr"}]
    /\ linked \in [Writer -> BOOLEAN]
    /\ bytes_written \in [Writer -> Nat]
    /\ chan \in [Writer -> Seq(Line)] /\ \A w \in Writer : Len(chan[w]) <= Capacity
    /\ buf \in [Writer -> Seq(Line)]
    /\ newest \in [Writer -> Nat]

WInv ==
    /\ WriterTypes /\ FilesOK(files) /\ RotatedNames(compressing)
    /\ \A w \in Writer : WriterOK(w)

\* The count of lines is a number, and so is the limit, if there is one.
LEMMA Numbers ==
    /\ Cardinality(Line) \in Nat /\ Line \subseteq Nat
    /\ Limit # None => Limit \in Nat
<1>1. Cardinality(Line) \in Nat
  BY WriterAssumption, FS_CardinalityType
<1>2. Line \subseteq Nat
  BY <1>1, WriterAssumption
<1>3. Limit # None => Limit \in Nat
  BY WriterAssumption DEF Limit
<1> QED
  BY <1>1, <1>2, <1>3

LEMMA WInvImplies == WInv => TypeOK /\ FilesWithinLimit
<1> SUFFICES ASSUME WInv PROVE TypeOK /\ FilesWithinLimit
  OBVIOUS
<1>1. TypeOK
  BY DEF WInv, WriterTypes, FilesOK, RotatedNames, TypeOK
<1>2. FilesWithinLimit
  BY SizeIs DEF WInv, FilesOK, Fits, FilesWithinLimit
<1> QED
  BY <1>1, <1>2

-----------------------------------------------------------------------------
(* Files *)

LEMMA WithOK ==
    ASSUME NEW fs, FilesOK(fs), NEW f, NEW c, NEW w \in Writer,
           f.stem = Stem[w], c.lines \in Seq(Line), c.whole \in BOOLEAN,
           f.zip \/ Fits(c.lines)
    PROVE  FilesOK(With(fs, f, c))
<1> DEFINE h == With(fs, f, c)
<1>1. /\ DOMAIN h = DOMAIN fs \union {f} /\ h[f] = c
      /\ \A g \in DOMAIN fs : g # f => h[g] = fs[g]
  BY DEF With
<1> HIDE DEF h
<1>2. ASSUME NEW g \in DOMAIN h
      PROVE  /\ g.stem \in {Stem[v] : v \in Writer}
             /\ h[g].lines \in Seq(Line) /\ h[g].whole \in BOOLEAN
             /\ ~g.zip => Fits(h[g].lines)
  <2>1. CASE g = f
    BY <1>1, <2>1
  <2>2. CASE g # f
    <3>1. g \in DOMAIN fs /\ h[g] = fs[g]
      BY <1>1, <1>2, <2>2
    <3> QED
      BY <3>1 DEF FilesOK
  <2> QED
    BY <2>1, <2>2
<1>3. FilesOK(h)
  BY <1>2 DEF FilesOK
<1> QED
  BY <1>3 DEF h

LEMMA WithoutOK ==
    ASSUME NEW fs, FilesOK(fs), NEW S
    PROVE  FilesOK(Without(fs, S))
<1> DEFINE h == Without(fs, S)
<1>1. DOMAIN h = DOMAIN fs \ S /\ \A g \in DOMAIN fs \ S : h[g] = fs[g]
  BY DEF Without
<1> HIDE DEF h
<1>2. FilesOK(h)
  BY <1>1 DEF FilesOK
<1> QED
  BY <1>2 DEF h

LEMMA ContentIs ==
    ASSUME NEW lines
    PROVE  Content(lines).lines = lines /\ Content(lines).whole = TRUE
BY DEF Content

LEMMA LiveIs ==
    ASSUME NEW w
    PROVE  Live(w).stem = Stem[w] /\ Live(w).day = 0 /\ Live(w).zip = FALSE
BY DEF Live

LEMMA RotatedIs ==
    ASSUME NEW w
    PROVE  /\ rotate_filename(w).stem = Stem[w] /\ rotate_filename(w).day = day
           /\ rotate_filename(w).zip = FALSE
BY DEF Rotated, rotate_filename

\* The file of another output is not the file of this one.
LEMMA OtherFile ==
    ASSUME NEW v \in Writer, NEW w \in Writer, v # w, WInv
    PROVE  Live(v) # Live(w) /\ Live(v) # rotate_filename(w)
<1>1. Stem[v] # Stem[w]
  BY OutputsAssumption
<1>2. Live(v).stem = Stem[v] /\ Live(w).stem = Stem[w]
  BY LiveIs
<1>3. rotate_filename(w).stem = Stem[w]
  BY RotatedIs
<1> QED
  BY <1>1, <1>2, <1>3

LEMMA ZippedIs ==
    ASSUME NEW names, RotatedNames(names), NEW f \in names
    PROVE  /\ Zipped(f).stem = f.stem /\ Zipped(f).day = f.day /\ Zipped(f).zip
           /\ ~f.zip /\ f.day # 0
BY DEF RotatedNames, Zipped

LEMMA EmptyFits == <<>> \in Seq(Line) /\ Fits(<<>>)
<1>1. Len(<<>>) = 0
  OBVIOUS
<1> QED
  BY <1>1 DEF Fits

LEMMA PrefixFits ==
    ASSUME NEW p \in Seq(Line), NEW s \in Seq(Line), Len(p) <= Len(s),
           \A i \in 1 .. Len(p) : p[i] = s[i], Fits(s)
    PROVE  Fits(p)
<1>1. Bytes(p) \in Nat /\ Bytes(s) \in Nat /\ Bytes(p) <= Bytes(s)
  BY BytesPrefix
<1>2. Len(p) \in Nat /\ Len(s) \in Nat
  OBVIOUS
<1>3. Limit # None => Limit \in Nat
  BY Numbers
<1> QED
  BY <1>1, <1>2, <1>3 DEF Fits

LEMMA Joined ==
    ASSUME NEW s \in Seq(Line), NEW t \in Seq(Line)
    PROVE  /\ s \o t \in Seq(Line) /\ Len(s \o t) = Len(s) + Len(t)
           /\ \A i \in 1 .. Len(s) : (s \o t)[i] = s[i]
           /\ \A i \in 1 .. Len(t) : (s \o t)[Len(s) + i] = t[i]
OBVIOUS

LEMMA SameElements ==
    ASSUME NEW s \in Seq(Line), NEW t \in Seq(Line), Len(s) = Len(t),
           \A i \in 1 .. Len(s) : s[i] = t[i]
    PROVE  s = t
OBVIOUS

LEMMA JoinedTwice ==
    ASSUME NEW s \in Seq(Line), NEW t \in Seq(Line), NEW u \in Seq(Line)
    PROVE  (s \o t) \o u = s \o (t \o u)
BY ConcatAssociative

\* Some of what is pending is written after the lines of the file.
LEMMA Written ==
    ASSUME NEW s \in Seq(Line), NEW t \in Seq(Line), NEW k \in 0 .. Len(t)
    PROVE  /\ SubSeq(t, 1, k) \in Seq(Line)
           /\ SubSeq(t, k + 1, Len(t)) \in Seq(Line)
           /\ s \o SubSeq(t, 1, k) \in Seq(Line) /\ s \o t \in Seq(Line)
           /\ (s \o SubSeq(t, 1, k)) \o SubSeq(t, k + 1, Len(t)) = s \o t
           /\ Fits(s \o t) => Fits(s \o SubSeq(t, 1, k))
<1> DEFINE a == SubSeq(t, 1, k)
           b == SubSeq(t, k + 1, Len(t))
<1>1. /\ Len(s) \in Nat /\ Len(t) \in Nat /\ k \in Nat /\ k <= Len(t)
      /\ a \in Seq(Line) /\ Len(a) = k
      /\ b \in Seq(Line) /\ Len(b) = Len(t) - k
      /\ \A i \in 1 .. k : a[i] = t[i]
      /\ \A i \in 1 .. Len(b) : b[i] = t[k + i]
  OBVIOUS
<1> HIDE DEF a, b
<1> DEFINE x == s \o a
           y == s \o t
           z == x \o b
<1>2. /\ x \in Seq(Line) /\ Len(x) = Len(s) + k
      /\ \A i \in 1 .. Len(s) : x[i] = s[i]
      /\ \A i \in 1 .. k : x[Len(s) + i] = a[i]
  BY <1>1, Joined
<1>3. /\ y \in Seq(Line) /\ Len(y) = Len(s) + Len(t)
      /\ \A i \in 1 .. Len(s) : y[i] = s[i]
      /\ \A i \in 1 .. Len(t) : y[Len(s) + i] = t[i]
  BY <1>1, Joined
<1> HIDE DEF x, y
<1>4. /\ z \in Seq(Line) /\ Len(z) = Len(x) + Len(b)
      /\ \A i \in 1 .. Len(x) : z[i] = x[i]
      /\ \A i \in 1 .. Len(b) : z[Len(x) + i] = b[i]
  BY <1>1, <1>2, Joined
<1> HIDE DEF z
<1>5. ASSUME NEW i \in 1 .. Len(x) PROVE x[i] = y[i]
  <2>1. CASE i <= Len(s)
    BY <1>1, <1>2, <1>3, <2>1
  <2>2. CASE ~(i <= Len(s))
    <3>1. /\ i - Len(s) \in 1 .. k /\ i - Len(s) \in 1 .. Len(t)
          /\ Len(s) + (i - Len(s)) = i
      BY <1>1, <1>2, <2>2
    <3>2. x[i] = a[i - Len(s)] /\ y[i] = t[i - Len(s)]
      BY <1>2, <1>3, <3>1
    <3> QED
      BY <1>1, <3>1, <3>2
  <2> QED
    BY <2>1, <2>2
<1>6. Fits(y) => Fits(x)
  <2>1. Len(x) <= Len(y)
    BY <1>1, <1>2, <1>3
  <2> QED
    BY <1>2, <1>3, <1>5, <2>1, PrefixFits
<1>7. Len(z) = Len(y) /\ Len(y) \in Nat /\ Len(x) \in Nat /\ Len(x) <= Len(y)
  BY <1>1, <1>2, <1>3, <1>4
<1>8. ASSUME NEW i \in 1 .. Len(z) PROVE z[i] = y[i]
  <2>1. CASE i <= Len(x)
    BY <1>4, <1>5, <1>7, <2>1
  <2>2. CASE ~(i <= Len(x))
    <3>1. /\ i - Len(x) \in 1 .. Len(b) /\ Len(x) + (i - Len(x)) = i
          /\ i - Len(s) \in 1 .. Len(t) /\ Len(s) + (i - Len(s)) = i
          /\ k + (i - Len(x)) = i - Len(s)
      BY <1>1, <1>2, <1>3, <1>7, <2>2
    <3>2. z[i] = b[i - Len(x)] /\ y[i] = t[i - Len(s)]
      BY <1>3, <1>4, <3>1
    <3> QED
      BY <1>1, <3>1, <3>2
  <2> QED
    BY <2>1, <2>2
<1>9. z = y
  BY <1>3, <1>4, <1>7, <1>8, SameElements
<1> QED
  BY <1>1, <1>2, <1>3, <1>6, <1>9 DEF a, b, x, y, z

-----------------------------------------------------------------------------
(* The steps *)

\* What does not touch w, and may at most take its file away.
LEMMA Untouched ==
    ASSUME NEW w \in Writer, WriterOK(w), mode'[w] = mode[w],
           linked'[w] => linked[w], buf'[w] = buf[w],
           bytes_written'[w] = bytes_written[w],
           mode[w] = "file" /\ linked'[w] /\ Live(w) \in DOMAIN files =>
              Live(w) \in DOMAIN files' /\ files'[Live(w)] = files[Live(w)]
    PROVE  WriterOK(w)'
BY DEF WriterOK, Held

LEMMA InitWInv == Init => WInv
<1> SUFFICES ASSUME Init PROVE WInv
  OBVIOUS
<1>1. <<>> \in Seq(Line) /\ Len(<<>>) = 0
  OBVIOUS
<1>2. WriterTypes
  BY <1>1, Numbers, WriterAssumption DEF Init, Start, WriterTypes
<1>3. FilesOK(files) /\ RotatedNames(compressing)
  BY DEF Init, FilesOK, RotatedNames
<1>4. ASSUME NEW w \in Writer PROVE WriterOK(w)
  BY DEF Init, Start, WriterOK
<1> QED
  BY <1>2, <1>3, <1>4 DEF WInv

LEMMA RecordWInv == ASSUME NEW w \in Writer, WInv, Record(w) PROVE WInv'
<1>1. sent' \in Line /\ sent' \in 0..Cardinality(Line)
  BY Numbers, WriterAssumption DEF WInv, WriterTypes, Record
<1>2. /\ chan' \in [Writer -> Seq(Line)]
      /\ \A v \in Writer : Len(chan'[v]) <= Capacity
  <2>1. CASE Recordable(sent') /\ Len(chan[w]) < Capacity
    <3>1. chan' = [chan EXCEPT ![w] = Append(@, sent')]
      BY <2>1 DEF Record
    <3>2. /\ Append(chan[w], sent') \in Seq(Line)
          /\ Len(Append(chan[w], sent')) <= Capacity
      BY <1>1, <2>1, WriterAssumption DEF WInv, WriterTypes
    <3> QED
      BY <3>1, <3>2 DEF WInv, WriterTypes
  <2>2. CASE ~(Recordable(sent') /\ Len(chan[w]) < Capacity)
    <3>1. chan' = chan
      BY <2>2 DEF Record, WInv, WriterTypes
    <3> QED
      BY <3>1 DEF WInv, WriterTypes
  <2> QED
    BY <2>1, <2>2
<1>3. /\ mode' \in [Writer -> {"unspawned", "cleanup", "open", "file", "stderr"}]
      /\ \A v \in Writer : mode'[v] # mode[v] =>
            mode[v] = "unspawned" /\ mode'[v] = "cleanup"
  <2> DEFINE next == IF mode[w] = "unspawned" THEN "cleanup" ELSE mode[w]
  <2>1. mode' = [mode EXCEPT ![w] = next] \/ mode' = mode
    BY DEF Record
  <2>2. /\ mode \in [Writer -> {"unspawned", "cleanup", "open", "file", "stderr"}]
        /\ next \in {"unspawned", "cleanup", "open", "file", "stderr"}
    BY DEF WInv, WriterTypes
  <2> QED
    BY <2>1, <2>2
<1>4. WriterTypes' /\ FilesOK(files') /\ RotatedNames(compressing')
  BY <1>1, <1>2, <1>3 DEF WInv, WriterTypes, Record
<1>5. ASSUME NEW v \in Writer PROVE WriterOK(v)'
  BY <1>3 DEF WInv, WriterOK, Held, Record
<1> QED
  BY <1>4, <1>5 DEF WInv

LEMMA CleanupWInv == ASSUME NEW w \in Writer, WInv, Cleanup(w) PROVE WInv'
<1>1. FilesOK(files')
  BY WithoutOK DEF WInv, Cleanup
<1>2. WriterTypes' /\ RotatedNames(compressing')
  BY DEF WInv, WriterTypes, Cleanup
<1>3. ASSUME NEW v \in Writer PROVE WriterOK(v)'
  <2>1. linked'[v] => linked[v] /\ Live(v) \notin CleanedUp(w)
    BY DEF Cleanup
  <2>2. CASE v = w
    BY <2>2 DEF WInv, WriterTypes, WriterOK, Cleanup
  <2>3. CASE v # w
    <3>1. mode'[v] = mode[v]
      BY <2>3 DEF WInv, WriterTypes, Cleanup
    <3>2. linked'[v] /\ Live(v) \in DOMAIN files =>
             Live(v) \in DOMAIN files' /\ files'[Live(v)] = files[Live(v)]
      BY <2>1 DEF Cleanup, Without
    <3> QED
      BY <2>1, <3>1, <3>2, Untouched DEF WInv, Cleanup
  <2> QED
    BY <2>2, <2>3
<1> QED
  BY <1>1, <1>2, <1>3 DEF WInv

\* The directory of a rotation: the other outputs have their files.
LEMMA RotateIs ==
    ASSUME NEW w \in Writer, WInv, NEW lines \in Seq(Line), Fits(lines)
    PROVE  /\ FilesOK(Rotate(w, lines))
           /\ Live(w) \in DOMAIN Rotate(w, lines)
           /\ Rotate(w, lines)[Live(w)].lines = <<>>
           /\ \A v \in Writer : v # w /\ Live(v) \in DOMAIN files =>
                 /\ Live(v) \in DOMAIN Rotate(w, lines)
                 /\ Rotate(w, lines)[Live(v)] = files[Live(v)]
<1> DEFINE r == rotate_filename(w)
           g == With(files, r, Content(lines))
           h == With(g, Live(w), Content(<<>>))
<1>1. h = Rotate(w, lines)
  BY DEF Rotate
<1>2. r.stem = Stem[w]
  BY RotatedIs
<1> HIDE DEF r
<1>3. FilesOK(g)
  BY <1>2, WithOK, ContentIs DEF WInv
<1>4. FilesOK(h)
  BY <1>3, WithOK, ContentIs, LiveIs, EmptyFits
<1>5. Live(w) \in DOMAIN h /\ h[Live(w)].lines = <<>>
  BY ContentIs DEF With
<1>6. ASSUME NEW v \in Writer, v # w, Live(v) \in DOMAIN files
      PROVE  Live(v) \in DOMAIN h /\ h[Live(v)] = files[Live(v)]
  <2>1. Live(v) # r /\ Live(v) # Live(w)
    BY <1>6, OtherFile DEF r
  <2> QED
    BY <1>6, <2>1 DEF With
<1> QED
  BY <1>1, <1>4, <1>5, <1>6

LEMMA CompressOK ==
    ASSUME NEW w \in Writer, WInv, Compress(w)
    PROVE  RotatedNames(compressing')
<1> DEFINE r == rotate_filename(w)
<1>1. day # 0
  BY DEF WInv, WriterTypes
<1>2. RotatedNames({r})
  BY <1>1 DEF RotatedNames, rotate_filename, Rotated
<1> HIDE DEF r
<1>3. \A f \in compressing' : f \in compressing \/ f \in {r}
  BY DEF Compress, r
<1> QED
  BY <1>2, <1>3 DEF WInv, RotatedNames

LEMMA OpenWInv == ASSUME NEW w \in Writer, WInv, Open(w) PROVE WInv'
<1> DEFINE old == IF Live(w) \in DOMAIN files THEN files[Live(w)].lines ELSE <<>>
           present == With(files, Live(w), Content(old))
<1>1. old \in Seq(Line) /\ Fits(old)
  BY EmptyFits, LiveIs DEF WInv, FilesOK
<1> HIDE DEF old
<1>2. /\ FilesOK(present) /\ Live(w) \in DOMAIN present
      /\ present[Live(w)].lines = old
  <2>1. FilesOK(present)
    BY <1>1, WithOK, ContentIs, LiveIs DEF WInv
  <2> QED
    BY <2>1, ContentIs DEF With
<1>3. ASSUME NEW v \in Writer, v # w, Live(v) \in DOMAIN files
      PROVE  Live(v) \in DOMAIN present /\ present[Live(v)] = files[Live(v)]
  <2>1. Live(v) # Live(w)
    BY <1>3, OtherFile
  <2> QED
    BY <1>3, <2>1 DEF With
<1> HIDE DEF present
<1>4. Size(Live(w), present) = Bytes(old) /\ Bytes(old) \in Nat
  <2>1. Live(w).zip = FALSE
    BY LiveIs
  <2>2. Size(Live(w), present) = Bytes(present[Live(w)].lines)
    BY <2>1, SizeIs
  <2> QED
    BY <1>1, <1>2, <2>2, BytesPrefix
<1>5. \/ /\ files' = Rotate(w, old)
         /\ bytes_written' = [bytes_written EXCEPT ![w] = 0]
         /\ Compress(w) /\ UNCHANGED failures
      \/ /\ files' = present
         /\ bytes_written' = [bytes_written EXCEPT ![w] = Bytes(old)]
         /\ UNCHANGED compressing
         /\ \/ failures < MaxFaults /\ failures' = failures + 1
            \/ UNCHANGED failures
  BY <1>4 DEF Open, old, present
<1>6. /\ Live(w) \in DOMAIN files' /\ FilesOK(files')
      /\ files'[Live(w)].lines \in Seq(Line) /\ Fits(files'[Live(w)].lines)
      /\ bytes_written' = [bytes_written EXCEPT
                              ![w] = Bytes(files'[Live(w)].lines)]
      /\ Bytes(files'[Live(w)].lines) \in Nat
      /\ \A v \in Writer : v # w /\ Live(v) \in DOMAIN files =>
            Live(v) \in DOMAIN files' /\ files'[Live(v)] = files[Live(v)]
      /\ failures' \in 0..MaxFaults
  <2>1. failures \in 0..MaxFaults /\ MaxFaults \in Nat
    BY WriterAssumption DEF WInv, WriterTypes
  <2>2. CASE /\ files' = Rotate(w, old)
             /\ bytes_written' = [bytes_written EXCEPT ![w] = 0]
             /\ UNCHANGED failures
    <3>1. /\ FilesOK(files') /\ Live(w) \in DOMAIN files'
          /\ files'[Live(w)].lines = <<>>
          /\ \A v \in Writer : v # w /\ Live(v) \in DOMAIN files =>
                Live(v) \in DOMAIN files' /\ files'[Live(v)] = files[Live(v)]
      BY <1>1, <2>2, RotateIs
    <3>2. Bytes(files'[Live(w)].lines) = 0
      BY <3>1, BytesOfNone
    <3>3. files'[Live(w)].lines \in Seq(Line) /\ Fits(files'[Live(w)].lines)
      BY <3>1, EmptyFits
    <3>4. /\ bytes_written' = [bytes_written EXCEPT
                                 ![w] = Bytes(files'[Live(w)].lines)]
          /\ Bytes(files'[Live(w)].lines) \in Nat
      BY <2>2, <3>2
    <3> QED
      BY <2>1, <2>2, <3>1, <3>3, <3>4
  <2>3. CASE /\ files' = present
             /\ bytes_written' = [bytes_written EXCEPT ![w] = Bytes(old)]
             /\ \/ failures < MaxFaults /\ failures' = failures + 1
                \/ UNCHANGED failures
    <3>1. failures' \in 0..MaxFaults
      BY <2>1, <2>3
    <3>2. files'[Live(w)].lines = old
      BY <1>2, <2>3
    <3> QED
      BY <1>1, <1>2, <1>3, <1>4, <2>3, <3>1, <3>2
  <2> QED
    BY <1>5, <2>2, <2>3
<1>7. WriterTypes'
  BY <1>6 DEF WInv, WriterTypes, Open
<1>8. RotatedNames(compressing')
  BY <1>5, CompressOK DEF WInv
<1>9. ASSUME NEW v \in Writer PROVE WriterOK(v)'
  <2>1. CASE v = w
    <3>1. buf'[w] = <<>> /\ mode'[w] = "file"
      BY DEF WInv, WriterTypes, WriterOK, Open
    <3>2. files'[Live(w)].lines \o <<>> = files'[Live(w)].lines
      BY <1>6
    <3> QED
      BY <1>6, <2>1, <3>1, <3>2 DEF WriterOK, Held, WInv, WriterTypes
  <2>2. CASE v # w
    BY <1>6, <2>2, Untouched DEF WInv, WriterTypes, Open
  <2> QED
    BY <2>1, <2>2
<1> QED
  BY <1>6, <1>7, <1>8, <1>9 DEF WInv

LEMMA OpenFailsWInv == ASSUME NEW w \in Writer, WInv, OpenFails(w) PROVE WInv'
<1>1. WriterTypes' /\ FilesOK(files') /\ RotatedNames(compressing')
  BY WriterAssumption DEF WInv, WriterTypes, OpenFails
<1>2. ASSUME NEW v \in Writer PROVE WriterOK(v)'
  BY DEF WInv, WriterTypes, WriterOK, Held, OpenFails
<1> QED
  BY <1>1, <1>2 DEF WInv

\* What k of the pending lines in the file leave in the buffer.
LEMMA SettleIs ==
    ASSUME NEW w \in Writer, WInv, NEW pending \in Seq(Line),
           NEW k \in 0 .. Len(pending), Settle(w, pending, k)
    PROVE  /\ buf' \in [Writer -> Seq(Line)]
           /\ mode' \in [Writer -> {"unspawned", "cleanup", "open", "file", "stderr"}]
           /\ failures' \in 0..MaxFaults
           /\ \A v \in Writer : v # w => buf'[v] = buf[v] /\ mode'[v] = mode[v]
           /\ \/ mode'[w] = mode[w] /\ buf'[w] = SubSeq(pending, k + 1, Len(pending))
              \/ mode'[w] = "stderr" /\ buf'[w] = <<>>
<1>1. SubSeq(pending, k + 1, Len(pending)) \in Seq(Line) /\ <<>> \in Seq(Line)
  BY Written
<1>2. CASE /\ buf' = [buf EXCEPT ![w] = SubSeq(pending, k + 1, Len(pending))]
           /\ UNCHANGED <<mode, failures>>
  BY <1>1, <1>2 DEF WInv, WriterTypes
<1>3. CASE /\ DiskFails
           /\ mode' = [mode EXCEPT ![w] = "stderr"]
           /\ buf' = [buf EXCEPT ![w] = <<>>]
  <2>1. failures' \in 0..MaxFaults
    BY <1>3, WriterAssumption DEF DiskFails, WInv, WriterTypes
  <2> QED
    BY <1>1, <1>3, <2>1 DEF WInv, WriterTypes
<1> QED
  BY <1>2, <1>3 DEF Settle

LEMMA ReceiveIs ==
    ASSUME NEW w \in Writer, WInv, Receive(w)
    PROVE  /\ chan' \in [Writer -> Seq(Line)]
           /\ \A v \in Writer : Len(chan'[v]) <= Capacity
           /\ Head(chan[w]) \in Line /\ LineSize[Head(chan[w])] \in Nat
           /\ Pending(w) \in Seq(Line) /\ <<Head(chan[w])>> \in Seq(Line)
<1>1. /\ chan[w] \in Seq(Line) /\ chan[w] # <<>> /\ Len(chan[w]) <= Capacity
      /\ buf[w] \in Seq(Line) /\ Capacity \in Nat
  BY WriterAssumption DEF Receive, WInv, WriterTypes
<1>2. /\ Head(chan[w]) \in Line /\ Tail(chan[w]) \in Seq(Line)
      /\ Len(Tail(chan[w])) <= Capacity
  BY <1>1
<1>3. <<Head(chan[w])>> \in Seq(Line)
  BY <1>2
<1>4. Pending(w) \in Seq(Line)
  BY <1>1, <1>3, Joined DEF Pending
<1>5. LineSize[Head(chan[w])] \in Nat
  BY <1>2, WriterAssumption
<1> QED
  BY <1>2, <1>3, <1>4, <1>5 DEF Receive, WInv, WriterTypes

LEMMA LastBuffered ==
    ASSUME NEW w \in Writer, WInv, buf[w] # <<>>
    PROVE  Last(buf[w]) \in Nat
<1>1. buf[w] \in Seq(Line)
  BY DEF WInv, WriterTypes
<1>2. Len(buf[w]) \in 1 .. Len(buf[w])
  BY <1>1
<1>3. buf[w][Len(buf[w])] \in Line
  BY <1>1, <1>2
<1> QED
  BY <1>3, Numbers DEF Last

\* Another line fits if it is the first, or not too large for what is left.
LEMMA OneMoreFits ==
    ASSUME NEW w \in Writer, NEW held \in Seq(Line), NEW l \in Line,
           bytes_written[w] = Bytes(held), ~TooLarge(w, LineSize[l])
    PROVE  Fits(held \o <<l>>) /\ Bytes(held \o <<l>>) = bytes_written[w] + LineSize[l]
<1>1. Bytes(held \o <<l>>) = Bytes(held) + LineSize[l]
  BY BytesAppend
<1>2. Bytes(held) \in Nat /\ LineSize[l] \in Nat
  BY BytesPrefix, WriterAssumption
<1>3. Limit # None => Limit \in Nat
  BY Numbers
<1> QED
  BY <1>1, <1>2, <1>3 DEF TooLarge, Fits

LEMMA OneFits ==
    ASSUME NEW l \in Line
    PROVE  /\ <<l>> \in Seq(Line) /\ Fits(<<l>>)
           /\ Bytes(<<l>>) = LineSize[l] /\ LineSize[l] \in Nat
<1>1. <<l>> \in Seq(Line) /\ Len(<<l>>) = 1 /\ <<>> \in Seq(Line)
  OBVIOUS
<1>2. <<>> \o <<l>> = <<l>>
  OBVIOUS
<1>3. Bytes(<<l>>) = Bytes(<<>>) + LineSize[l]
  BY <1>1, <1>2, BytesAppend
<1>4. LineSize[l] \in Nat
  BY WriterAssumption
<1> QED
  BY <1>1, <1>3, <1>4, BytesOfNone DEF Fits

LEMMA WriteLineWInv == ASSUME NEW w \in Writer, WInv, WriteLine(w) PROVE WInv'
<1> DEFINE pending == Pending(w)
           l == Head(chan[w])
<1>1. PICK k \in 0 .. Len(pending) :
         /\ Settle(w, pending, k)
         /\ files' = IF linked[w]
                     THEN With(files, Live(w),
                               Content(LiveLines(w) \o SubSeq(pending, 1, k)))
                     ELSE files
         /\ newest' = [newest EXCEPT ![w] =
                          IF linked[w] /\ k > 0 THEN pending[k] ELSE @]
  BY DEF WriteLine
<1>2. /\ chan' \in [Writer -> Seq(Line)]
      /\ \A v \in Writer : Len(chan'[v]) <= Capacity
      /\ l \in Line /\ LineSize[l] \in Nat
      /\ pending \in Seq(Line) /\ <<l>> \in Seq(Line)
      /\ pending = buf[w] \o <<l>>
  BY ReceiveIs DEF WriteLine, Pending
<1> HIDE DEF pending, l
<1>3. /\ buf' \in [Writer -> Seq(Line)]
      /\ mode' \in [Writer -> {"unspawned", "cleanup", "open", "file", "stderr"}]
      /\ failures' \in 0..MaxFaults
      /\ \A v \in Writer : v # w => buf'[v] = buf[v] /\ mode'[v] = mode[v]
      /\ \/ mode'[w] = mode[w] /\ buf'[w] = SubSeq(pending, k + 1, Len(pending))
         \/ mode'[w] = "stderr" /\ buf'[w] = <<>>
  BY <1>1, <1>2, SettleIs
<1>4. /\ mode[w] = "file" /\ linked' = linked /\ ~TooLarge(w, LineSize[l])
      /\ bytes_written' = [bytes_written EXCEPT ![w] = @ + LineSize[l]]
      /\ UNCHANGED <<sent, compressing, day, crashes>>
  BY DEF WriteLine, l
<1>5. newest' \in [Writer -> Nat]
  <2>1. ASSUME k > 0 PROVE pending[k] \in Nat
    <3>1. k \in 1 .. Len(pending)
      BY <1>2, <2>1
    <3>2. pending[k] \in Line
      BY <1>2, <3>1
    <3> QED
      BY <3>2, Numbers
  <2> QED
    BY <1>1, <2>1 DEF WInv, WriterTypes
<1>6. WriterTypes' /\ RotatedNames(compressing')
  <2>1. bytes_written' \in [Writer -> Nat]
    BY <1>2, <1>4 DEF WInv, WriterTypes
  <2> QED
    BY <1>2, <1>3, <1>4, <1>5, <2>1 DEF WInv, WriterTypes
<1>7. CASE ~linked[w]
  <2>1. FilesOK(files')
    BY <1>1, <1>7 DEF WInv
  <2>2. ASSUME NEW v \in Writer PROVE WriterOK(v)'
    <3>1. CASE v = w
      BY <1>3, <1>4, <1>7, <3>1 DEF WriterOK
    <3>2. CASE v # w
      BY <1>1, <1>3, <1>4, <1>7, <3>2, Untouched DEF WInv, WriterTypes
    <3> QED
      BY <3>1, <3>2
  <2> QED
    BY <1>6, <2>1, <2>2 DEF WInv
<1>8. CASE linked[w]
  <2> DEFINE live == files[Live(w)].lines
             now  == live \o SubSeq(pending, 1, k)
  <2>1. /\ Live(w) \in DOMAIN files /\ live \in Seq(Line)
        /\ bytes_written[w] = Bytes(live \o buf[w])
        /\ buf[w] \in Seq(Line) /\ live \o buf[w] \in Seq(Line)
    BY <1>4, <1>8, Joined DEF WInv, WriterTypes, FilesOK, WriterOK, Held
  <2>2. (live \o buf[w]) \o <<l>> = live \o pending
    <3> HIDE DEF live
    <3>1. live \in Seq(Line) /\ buf[w] \in Seq(Line) /\ <<l>> \in Seq(Line)
      BY <1>2, <2>1
    <3>2. (live \o buf[w]) \o <<l>> = live \o (buf[w] \o <<l>>)
      BY <3>1, JoinedTwice
    <3> QED
      BY <1>2, <3>2
  <2>3. /\ Fits(live \o pending)
        /\ Bytes(live \o pending) = bytes_written[w] + LineSize[l]
    BY <1>2, <1>4, <2>1, <2>2, OneMoreFits
  <2>4. /\ now \in Seq(Line) /\ Fits(now)
        /\ now \o SubSeq(pending, k + 1, Len(pending)) = live \o pending
    BY <1>2, <2>1, <2>3, Written
  <2>5. files' = With(files, Live(w), Content(now))
    BY <1>1, <1>8 DEF LiveLines
  <2> HIDE DEF now, live
  <2>6. FilesOK(files')
    BY <2>4, <2>5, WithOK, ContentIs, LiveIs DEF WInv
  <2>7. Live(w) \in DOMAIN files' /\ files'[Live(w)].lines = now
    BY <2>5, ContentIs DEF With
  <2>8. ASSUME NEW v \in Writer PROVE WriterOK(v)'
    <3>1. CASE v = w
      <4>1. CASE mode'[w] = "stderr" /\ buf'[w] = <<>>
        BY <3>1, <4>1 DEF WriterOK
      <4>2. CASE buf'[w] = SubSeq(pending, k + 1, Len(pending)) /\ mode'[w] = "file"
        <5>1. files'[Live(w)].lines \o buf'[w] = live \o pending
          BY <2>4, <2>7, <4>2
        <5>2. bytes_written'[w] = Bytes(live \o pending)
          BY <1>4, <2>3 DEF WInv, WriterTypes
        <5> QED
          BY <2>3, <2>7, <3>1, <4>2, <5>1, <5>2 DEF WriterOK, Held
      <4> QED
        BY <1>3, <1>4, <4>1, <4>2
    <3>2. CASE v # w
      <4>1. Live(v) # Live(w)
        BY <3>2, OtherFile
      <4>2. Live(v) \in DOMAIN files =>
               Live(v) \in DOMAIN files' /\ files'[Live(v)] = files[Live(v)]
        BY <2>5, <4>1 DEF With
      <4> QED
        BY <1>3, <1>4, <3>2, <4>2, Untouched DEF WInv, WriterTypes
    <3> QED
      BY <3>1, <3>2
  <2> QED
    BY <1>6, <2>6, <2>8 DEF WInv
<1> QED
  BY <1>7, <1>8

LEMMA WriteAfterRotationWInv ==
    ASSUME NEW w \in Writer, WInv, WriteAfterRotation(w)
    PROVE  WInv'
<1> DEFINE l == Head(chan[w])
           line == <<l>>
           flushed == LiveLines(w) \o buf[w]
           g == Rotate(w, flushed)
<1>1. PICK k \in 0 .. 1 :
         /\ Settle(w, line, k)
         /\ files' = With(g, Live(w), Content(SubSeq(line, 1, k)))
         /\ newest' = [newest EXCEPT ![w] =
                          IF k = 1 THEN line[1]
                          ELSE IF buf[w] # <<>> THEN Last(buf[w]) ELSE @]
  BY DEF WriteAfterRotation
<1>2. /\ chan' \in [Writer -> Seq(Line)]
      /\ \A v \in Writer : Len(chan'[v]) <= Capacity
      /\ l \in Line
  BY ReceiveIs DEF WriteAfterRotation
<1>3. /\ mode[w] = "file" /\ linked[w] /\ linked' = linked
      /\ bytes_written' = [bytes_written EXCEPT ![w] = LineSize[l]]
      /\ Compress(w) /\ UNCHANGED <<sent, day, crashes>>
  BY DEF WriteAfterRotation
<1> HIDE DEF l
<1>4. /\ line \in Seq(Line) /\ Len(line) = 1 /\ line[1] = l /\ Fits(line)
      /\ Bytes(line) = LineSize[l] /\ LineSize[l] \in Nat
  BY <1>2, OneFits
<1> HIDE DEF line
<1>5. flushed = Held(w) /\ flushed \in Seq(Line) /\ Fits(flushed)
  BY <1>3, Joined DEF WInv, WriterTypes, FilesOK, WriterOK, Held, LiveLines
<1> HIDE DEF flushed
<1>6. /\ FilesOK(g)
      /\ \A v \in Writer : v # w /\ Live(v) \in DOMAIN files =>
            Live(v) \in DOMAIN g /\ g[Live(v)] = files[Live(v)]
  BY <1>5, RotateIs
<1> HIDE DEF g
<1> DEFINE a == SubSeq(line, 1, k)
           b == SubSeq(line, k + 1, Len(line))
<1>7. /\ a \in Seq(Line) /\ Fits(a) /\ b \in Seq(Line) /\ a \o b = line
  <2>1. CASE k = 0
    <3>1. a = <<>> /\ b = line /\ <<>> \o line = line
      BY <1>4, <2>1
    <3> QED
      BY <1>4, <3>1, EmptyFits
  <2>2. CASE k = 1
    <3>1. a = line /\ b = <<>> /\ line \o <<>> = line
      BY <1>4, <2>2
    <3> QED
      BY <1>4, <3>1, EmptyFits
  <2>3. k = 0 \/ k = 1
    BY <1>1
  <2> HIDE DEF a, b
  <2> QED
    BY <2>1, <2>2, <2>3
<1>8. /\ buf' \in [Writer -> Seq(Line)]
      /\ mode' \in [Writer -> {"unspawned", "cleanup", "open", "file", "stderr"}]
      /\ failures' \in 0..MaxFaults
      /\ \A v \in Writer : v # w => buf'[v] = buf[v] /\ mode'[v] = mode[v]
      /\ \/ mode'[w] = mode[w] /\ buf'[w] = b
         \/ mode'[w] = "stderr" /\ buf'[w] = <<>>
  <2>1. k \in 0 .. Len(line)
    BY <1>4
  <2> QED
    BY <1>1, <1>4, <2>1, SettleIs
<1>9. files' = With(g, Live(w), Content(a))
  BY <1>1
<1> HIDE DEF a, b
<1>10. FilesOK(files') /\ Live(w) \in DOMAIN files' /\ files'[Live(w)].lines = a
  <2>1. FilesOK(files')
    BY <1>6, <1>7, <1>9, WithOK, ContentIs, LiveIs
  <2> QED
    BY <1>9, <2>1, ContentIs DEF With
<1>11. newest' \in [Writer -> Nat]
  <2>1. line[1] \in Nat
    BY <1>2, <1>4, Numbers
  <2>2. ASSUME buf[w] # <<>> PROVE Last(buf[w]) \in Nat
    BY <2>2, LastBuffered
  <2> QED
    BY <1>1, <2>1, <2>2 DEF WInv, WriterTypes
<1>12. WriterTypes' /\ RotatedNames(compressing')
  <2>1. bytes_written' \in [Writer -> Nat]
    BY <1>3, <1>4 DEF WInv, WriterTypes
  <2>2. RotatedNames(compressing')
    BY <1>3, CompressOK
  <2> QED
    BY <1>2, <1>3, <1>8, <1>11, <2>1, <2>2 DEF WInv, WriterTypes
<1>13. ASSUME NEW v \in Writer PROVE WriterOK(v)'
  <2>1. CASE v = w
    <3>1. CASE mode'[w] = "stderr" /\ buf'[w] = <<>>
      BY <2>1, <3>1 DEF WriterOK
    <3>2. CASE mode'[w] = "file" /\ buf'[w] = b
      <4>1. files'[Live(w)].lines \o buf'[w] = line
        BY <1>7, <1>10, <3>2
      <4>2. bytes_written'[w] = Bytes(line)
        BY <1>3, <1>4 DEF WInv, WriterTypes
      <4> QED
        BY <1>4, <1>10, <2>1, <3>2, <4>1, <4>2 DEF WriterOK, Held
    <3> QED
      BY <1>3, <1>8, <3>1, <3>2
  <2>2. CASE v # w
    <3>1. Live(v) # Live(w)
      BY <2>2, OtherFile
    <3>2. Live(v) \in DOMAIN files =>
             Live(v) \in DOMAIN files' /\ files'[Live(v)] = files[Live(v)]
      BY <1>6, <1>9, <2>2, <3>1 DEF With
    <3> QED
      BY <1>3, <1>8, <2>2, <3>2, Untouched DEF WInv, WriterTypes
  <2> QED
    BY <2>1, <2>2
<1> QED
  BY <1>10, <1>12, <1>13 DEF WInv

LEMMA RotationFailsWInv ==
    ASSUME NEW w \in Writer, WInv, RotationFails(w)
    PROVE  WInv'
<1>1. /\ chan' \in [Writer -> Seq(Line)]
      /\ \A v \in Writer : Len(chan'[v]) <= Capacity
  BY ReceiveIs DEF RotationFails
<1>2. /\ mode[w] = "file" /\ mode' = [mode EXCEPT ![w] = "stderr"]
      /\ buf' = [buf EXCEPT ![w] = <<>>] /\ linked' = linked
      /\ UNCHANGED <<sent, bytes_written, day, crashes>>
      /\ newest' = [newest EXCEPT ![w] =
                       IF linked[w] /\ buf[w] # <<>> THEN Last(buf[w]) ELSE @]
  BY DEF RotationFails
<1>3. RotatedNames(compressing')
  <2>1. compressing' = compressing \/ Compress(w)
    BY DEF RotationFails
  <2> QED
    BY <2>1, CompressOK DEF WInv
<1>4. /\ FilesOK(files') /\ newest' \in [Writer -> Nat]
      /\ failures' \in 0..MaxFaults
      /\ \A v \in Writer : v # w /\ Live(v) \in DOMAIN files =>
            Live(v) \in DOMAIN files' /\ files'[Live(v)] = files[Live(v)]
  <2>1. CASE ~linked[w]
    <3>1. UNCHANGED <<files, failures>>
      BY <2>1 DEF RotationFails
    <3>2. newest' = [newest EXCEPT ![w] = newest[w]]
      BY <1>2, <2>1
    <3> QED
      BY <3>1, <3>2 DEF WInv, WriterTypes
  <2>2. CASE linked[w]
    <3> DEFINE flushed == LiveLines(w) \o buf[w]
               r == rotate_filename(w)
               same == With(files, Live(w), Content(flushed))
               gone == Without(files, {Live(w)})
               renamed == With(gone, r, Content(flushed))
    <3>1. /\ files' \in {same, renamed} /\ DiskFails
          /\ newest' = [newest EXCEPT ![w] =
                           IF buf[w] # <<>> THEN Last(buf[w]) ELSE @]
      BY <1>2, <2>2 DEF RotationFails
    <3>2. flushed \in Seq(Line) /\ Fits(flushed)
      BY <1>2, <2>2, Joined DEF WInv, WriterTypes, FilesOK, WriterOK, Held, LiveLines
    <3> HIDE DEF flushed
    <3>3. r.stem = Stem[w]
      BY RotatedIs
    <3>4. ASSUME NEW v \in Writer, v # w, Live(v) \in DOMAIN files
          PROVE  /\ Live(v) \in DOMAIN same /\ same[Live(v)] = files[Live(v)]
                 /\ Live(v) \in DOMAIN renamed /\ renamed[Live(v)] = files[Live(v)]
      <4>1. Live(v) # Live(w) /\ Live(v) # r
        BY <3>4, OtherFile
      <4> HIDE DEF r
      <4> QED
        BY <3>4, <4>1 DEF With, Without
    <3> HIDE DEF r
    <3>5. FilesOK(same)
      BY <3>2, WithOK, ContentIs, LiveIs DEF WInv
    <3>6. FilesOK(gone)
      BY WithoutOK DEF WInv
    <3> HIDE DEF gone
    <3>7. FilesOK(renamed)
      BY <3>2, <3>3, <3>6, WithOK, ContentIs
    <3> HIDE DEF same, renamed
    <3>8. newest' \in [Writer -> Nat]
      BY <3>1, LastBuffered DEF WInv, WriterTypes
    <3>9. failures' \in 0..MaxFaults
      BY <3>1, WriterAssumption DEF DiskFails, WInv, WriterTypes
    <3> QED
      BY <3>1, <3>4, <3>5, <3>7, <3>8, <3>9
  <2> QED
    BY <2>1, <2>2
<1>5. WriterTypes'
  <2>1. <<>> \in Seq(Line)
    OBVIOUS
  <2> QED
    BY <1>1, <1>2, <1>3, <1>4, <2>1 DEF WInv, WriterTypes
<1>6. ASSUME NEW v \in Writer PROVE WriterOK(v)'
  <2>1. CASE v = w
    BY <1>2, <2>1 DEF WInv, WriterTypes, WriterOK
  <2>2. CASE v # w
    BY <1>2, <1>4, <2>2, Untouched DEF WInv, WriterTypes
  <2> QED
    BY <2>1, <2>2
<1> QED
  BY <1>2, <1>3, <1>4, <1>5, <1>6 DEF WInv

LEMMA WriteStderrWInv ==
    ASSUME NEW w \in Writer, WInv, WriteStderr(w)
    PROVE  WInv'
<1>1. /\ chan' \in [Writer -> Seq(Line)]
      /\ \A v \in Writer : Len(chan'[v]) <= Capacity
  BY ReceiveIs DEF WriteStderr
<1>2. WriterTypes' /\ FilesOK(files') /\ RotatedNames(compressing')
  BY <1>1 DEF WInv, WriterTypes, WriteStderr, writerVars
<1>3. ASSUME NEW v \in Writer PROVE WriterOK(v)'
  BY DEF WInv, WriterOK, Held, WriteStderr, writerVars
<1> QED
  BY <1>2, <1>3 DEF WInv

\* What a compression does to the directory: no live file changes.
LEMMA CompressedWInv ==
    ASSUME WInv, FilesOK(files'), compressing' \subseteq compressing,
           failures' \in 0..MaxFaults,
           UNCHANGED <<writerVars, sent, chan, day, crashes, newest>>,
           \A v \in Writer : Live(v) \in DOMAIN files =>
              Live(v) \in DOMAIN files' /\ files'[Live(v)] = files[Live(v)]
    PROVE  WInv'
<1>1. WriterTypes' /\ RotatedNames(compressing')
  BY DEF WInv, WriterTypes, RotatedNames, writerVars
<1>2. ASSUME NEW v \in Writer PROVE WriterOK(v)'
  BY Untouched DEF WInv, writerVars
<1> QED
  BY <1>1, <1>2 DEF WInv

\* A compressed file, and the file it is made of, are not the live file of any
\* output.
LEMMA NotLive ==
    ASSUME WInv, NEW f \in compressing, NEW v \in Writer
    PROVE  Live(v) # f /\ Live(v) # Zipped(f)
<1>1. f.day # 0 /\ Zipped(f).day = f.day
  BY ZippedIs DEF WInv
<1>2. Live(v).day = 0
  BY LiveIs
<1> QED
  BY <1>1, <1>2

LEMMA CompressionBeginsWInv ==
    ASSUME NEW f \in compressing, WInv, CompressionBegins(f)
    PROVE  WInv'
<1> DEFINE z == Zipped(f)
           c == [lines |-> files[f].lines, whole |-> FALSE]
<1>1. /\ f \in DOMAIN files /\ files' = With(files, z, c)
      /\ UNCHANGED <<writerVars, sent, chan, compressing, day, crashes, failures,
                     newest>>
  BY DEF CompressionBegins
<1>2. PICK w \in Writer : f.stem = Stem[w]
  BY <1>1 DEF WInv, FilesOK
<1>3. z.stem = Stem[w] /\ z.zip
  BY <1>2, ZippedIs DEF WInv
<1>4. c.lines \in Seq(Line) /\ c.whole \in BOOLEAN
  BY <1>1 DEF WInv, FilesOK
<1>5. \A v \in Writer : Live(v) # z
  BY NotLive
<1> HIDE DEF z, c
<1>6. FilesOK(files')
  BY <1>1, <1>3, <1>4, WithOK DEF WInv
<1>7. \A v \in Writer : Live(v) \in DOMAIN files =>
         Live(v) \in DOMAIN files' /\ files'[Live(v)] = files[Live(v)]
  BY <1>1, <1>5 DEF With
<1>8. failures' \in 0..MaxFaults
  BY <1>1 DEF WInv, WriterTypes
<1> QED
  BY <1>1, <1>6, <1>7, <1>8, CompressedWInv

LEMMA CompressionEndsWInv ==
    ASSUME NEW f \in compressing, WInv, CompressionEnds(f)
    PROVE  WInv'
<1> DEFINE z == Zipped(f)
           c == Content(files[z].lines)
           g == With(files, z, c)
<1>1. /\ z \in DOMAIN files /\ files' = Without(g, {f})
      /\ compressing' \subseteq compressing
      /\ UNCHANGED <<writerVars, sent, chan, day, crashes, failures, newest>>
  BY DEF CompressionEnds
<1>2. PICK w \in Writer : z.stem = Stem[w]
  BY <1>1 DEF WInv, FilesOK
<1>3. z.zip
  BY ZippedIs DEF WInv
<1>4. c.lines \in Seq(Line) /\ c.whole \in BOOLEAN
  BY <1>1, ContentIs DEF WInv, FilesOK
<1>5. \A v \in Writer : Live(v) # z /\ Live(v) # f
  BY NotLive
<1> HIDE DEF z, c
<1>6. FilesOK(g)
  BY <1>2, <1>3, <1>4, WithOK DEF WInv
<1>7. \A v \in Writer : Live(v) \in DOMAIN files =>
         Live(v) \in DOMAIN files' /\ files'[Live(v)] = files[Live(v)]
  BY <1>1, <1>5 DEF With, Without
<1> HIDE DEF g
<1>8. FilesOK(files')
  BY <1>1, <1>6, WithoutOK
<1>9. failures' \in 0..MaxFaults
  BY <1>1 DEF WInv, WriterTypes
<1> QED
  BY <1>1, <1>7, <1>8, <1>9, CompressedWInv

LEMMA CompressionFailsWInv ==
    ASSUME NEW f \in compressing, WInv, CompressionFails(f)
    PROVE  WInv'
<1> DEFINE z == Zipped(f)
<1>1. /\ files' = Without(files, {z})
      /\ compressing' \subseteq compressing
      /\ UNCHANGED <<writerVars, sent, chan, day, crashes, newest>>
      /\ UNCHANGED failures \/ DiskFails
  BY DEF CompressionFails
<1>2. \A v \in Writer : Live(v) # z
  BY NotLive
<1> HIDE DEF z
<1>3. FilesOK(files')
  BY <1>1, WithoutOK DEF WInv
<1>4. \A v \in Writer : Live(v) \in DOMAIN files =>
         Live(v) \in DOMAIN files' /\ files'[Live(v)] = files[Live(v)]
  BY <1>1, <1>2 DEF Without
<1>5. failures' \in 0..MaxFaults
  BY <1>1, WriterAssumption DEF DiskFails, WInv, WriterTypes
<1> QED
  BY <1>1, <1>3, <1>4, <1>5, CompressedWInv

LEMMA CrashWInv == ASSUME WInv, Crash PROVE WInv'
<1>1. <<>> \in Seq(Line) /\ Len(<<>>) = 0
  OBVIOUS
<1>2. WriterTypes'
  BY <1>1, WriterAssumption DEF WInv, WriterTypes, Crash, Start
<1>3. FilesOK(files') /\ RotatedNames(compressing')
  BY DEF WInv, RotatedNames, Crash
<1>4. ASSUME NEW v \in Writer PROVE WriterOK(v)'
  BY DEF WriterOK, Crash, Start
<1> QED
  BY <1>2, <1>3, <1>4 DEF WInv

LEMMA NextDayWInv == ASSUME WInv, NextDay PROVE WInv'
<1>1. WriterTypes' /\ FilesOK(files') /\ RotatedNames(compressing')
  BY WriterAssumption DEF WInv, WriterTypes, NextDay, writerVars
<1>2. ASSUME NEW v \in Writer PROVE WriterOK(v)'
  BY DEF WInv, WriterOK, Held, NextDay, writerVars
<1> QED
  BY <1>1, <1>2 DEF WInv

LEMMA NextWInv == ASSUME WInv, [Next]_vars PROVE WInv'
<1>1. ASSUME NEW w \in Writer, Record(w) PROVE WInv'
  BY <1>1, RecordWInv
<1>2. ASSUME NEW w \in Writer, writer_loop(w) PROVE WInv'
  <2>1. CASE Cleanup(w)
    BY <2>1, CleanupWInv
  <2>2. CASE Open(w)
    BY <2>2, OpenWInv
  <2>3. CASE OpenFails(w)
    BY <2>3, OpenFailsWInv
  <2>4. CASE WriteLine(w)
    BY <2>4, WriteLineWInv
  <2>5. CASE WriteAfterRotation(w)
    BY <2>5, WriteAfterRotationWInv
  <2>6. CASE RotationFails(w)
    BY <2>6, RotationFailsWInv
  <2>7. CASE WriteStderr(w)
    BY <2>7, WriteStderrWInv
  <2> QED
    BY <1>2, <2>1, <2>2, <2>3, <2>4, <2>5, <2>6, <2>7 DEF writer_loop
<1>3. ASSUME NEW f \in compressing, compress_file(f) PROVE WInv'
  <2>1. CASE CompressionBegins(f)
    BY <2>1, CompressionBeginsWInv
  <2>2. CASE CompressionEnds(f)
    BY <2>2, CompressionEndsWInv
  <2>3. CASE CompressionFails(f)
    BY <2>3, CompressionFailsWInv
  <2> QED
    BY <1>3, <2>1, <2>2, <2>3 DEF compress_file
<1>4. CASE Crash
  BY <1>4, CrashWInv
<1>5. CASE NextDay
  BY <1>5, NextDayWInv
<1>6. CASE UNCHANGED vars
  <2>1. WriterTypes' /\ FilesOK(files') /\ RotatedNames(compressing')
    BY <1>6 DEF WInv, WriterTypes, vars
  <2>2. ASSUME NEW v \in Writer PROVE WriterOK(v)'
    BY <1>6 DEF WInv, WriterOK, Held, vars
  <2> QED
    BY <2>1, <2>2 DEF WInv
<1> QED
  BY <1>1, <1>2, <1>3, <1>4, <1>5, <1>6 DEF Next

-----------------------------------------------------------------------------
(* The theorems *)

LEMMA AlwaysWInv == Spec => []WInv
<1>1. Init => WInv
  BY InitWInv
<1>2. WInv /\ [Next]_vars => WInv'
  BY NextWInv
<1> QED
  BY <1>1, <1>2, PTL DEF Spec

\* The types of the outputs, whatever they are and whatever fails: a channel
\* holds at most its capacity, the counts are numbers, and what is compressed
\* is a rotated file, never one that is being written.
THEOREM OutputTypesAlways == Spec => []TypeOK
<1>1. WInv => TypeOK
  BY WInvImplies
<1> QED
  BY <1>1, AlwaysWInv, PTL

\* With max_file_size set, no file of any output grows beyond it unless a single
\* line does: after every restart, rotation, clean-up and failure the count a
\* writer keeps is that of the lines in its file and in its buffer.
THEOREM FilesStayWithinLimit == Spec => []FilesWithinLimit
<1>1. WInv => FilesWithinLimit
  BY WInvImplies
<1> QED
  BY <1>1, AlwaysWInv, PTL

=============================================================================
