-------------------------- MODULE FatLookupProofs ---------------------------
(***************************************************************************)
(* Proofs about FatLookup for every root directory, table length, path and *)
(* failing allocation: how far the search reads, which files it finds and  *)
(* what an open leaves in memory.                                          *)
(***************************************************************************)
EXTENDS FatLookup, SequenceTheorems, FiniteSetTheorems, WellFoundedInduction, TLAPS

\* A set of naturals has a least member, which Min names.
LEMMA LeastMember ==
  ASSUME NEW S, S \subseteq Nat, S # {}
  PROVE  Min(S) \in S /\ \A y \in S : Min(S) <= y
<1>1. PICK x \in S : \A y \in S : ~(<<y, x>> \in OpToRel(<, Nat))
  BY WFMin, NatLessThanWellFounded, Zenon
<1>2. \A y \in S : ~(y < x)
  BY <1>1, Zenon DEF OpToRel
<1>3. \A y \in S : x <= y
  BY <1>2
<1> QED
  BY <1>3 DEF Min

LEMMA MinIs ==
  ASSUME NEW S, S \subseteq Nat, NEW x \in S, \A y \in S : x <= y
  PROVE  Min(S) = x
<1> DEFINE m == Min(S)
<1>1. m \in S /\ \A y \in S : m <= y
  BY LeastMember
<1> HIDE DEF m
<1>2. m \in Nat /\ x \in Nat /\ m <= x /\ x <= m
  BY <1>1
<1>3. m = x
  BY <1>2
<1> QED
  BY <1>3 DEF m
-----------------------------------------------------------------------------
\* A padded field followed by a space or a zero, its own padding or the next
\* byte, is copied as other systems read it.
LEMMA CopiesField ==
  ASSUME NEW f \in Seq(Char), NEW t \in Seq(Char), Padded(f),
         t # <<>>,
         t[1] = SPACE \/ \E k \in DOMAIN f : f[k] = SPACE
  PROVE  ToProper(f \o t) = Unpad(f)
<1> DEFINE s == f \o t
           stops == {k \in DOMAIN s : s[k] \in {NUL, SPACE}}
           cuts == {n \in 0 .. Len(f) : \A k \in n + 1 .. Len(f) : f[k] = SPACE}
<1>1. /\ s \in Seq(Char) /\ Len(s) = Len(f) + Len(t)
      /\ Len(f) \in Nat /\ Len(t) \in Nat /\ Len(t) # 0
      /\ DOMAIN s = 1 .. Len(s) /\ DOMAIN f = 1 .. Len(f)
      /\ \A k \in 1 .. Len(f) : s[k] = f[k]
      /\ s[Len(f) + 1] = t[1]
  <2>1. /\ s \in Seq(Char) /\ Len(s) = Len(f) + Len(t)
        /\ \A k \in 1 .. Len(f) + Len(t) :
             s[k] = IF k <= Len(f) THEN f[k] ELSE t[k - Len(f)]
    BY ConcatProperties
  <2>2. Len(f) \in Nat /\ Len(t) \in Nat /\ Len(t) # 0
    BY EmptySeq, LenProperties
  <2>3. DOMAIN s = 1 .. Len(s) /\ DOMAIN f = 1 .. Len(f)
    BY <2>1, LenProperties
  <2> HIDE DEF s
  <2>4. \A k \in 1 .. Len(f) : s[k] = f[k]
    BY <2>1, <2>2
  <2>5. s[Len(f) + 1] = t[1]
    <3>1. Len(f) + 1 \in 1 .. Len(f) + Len(t) /\ ~(Len(f) + 1 <= Len(f))
          /\ Len(f) + 1 - Len(f) = 1
      BY <2>2
    <3> QED
      BY <2>1, <3>1
  <2> QED
    BY <2>1, <2>2, <2>3, <2>4, <2>5
<1> HIDE DEF s
<1>2. \E k \in 1 .. Len(f) + 1 : k \in stops
  <2>1. CASE t[1] = SPACE
    <3>1. Len(f) + 1 \in DOMAIN s /\ Len(f) + 1 \in 1 .. Len(f) + 1
      BY <1>1
    <3> QED
      BY <1>1, <2>1, <3>1
  <2>2. CASE \E k \in DOMAIN f : f[k] = SPACE
    <3>1. PICK k \in 1 .. Len(f) : f[k] = SPACE
      BY <1>1, <2>2
    <3>2. k \in 1 .. Len(f) + 1 /\ k \in DOMAIN s
      BY <1>1
    <3> QED
      BY <1>1, <3>1, <3>2
  <2> QED
    BY <2>1, <2>2
<1> DEFINE k0 == Min(stops)
<1>3. k0 \in stops /\ \A k \in stops : k0 <= k
  <2>1. stops \subseteq Nat
    BY <1>1
  <2> HIDE DEF stops
  <2> QED
    BY <1>2, <2>1, LeastMember
<1> HIDE DEF k0
<1>4. k0 \in 1 .. Len(f) + 1
  BY <1>1, <1>2, <1>3
<1>5. \A m \in 1 .. Len(f) : m < k0 => f[m] # SPACE
  <2> SUFFICES ASSUME NEW m \in 1 .. Len(f), m < k0, f[m] = SPACE
               PROVE  FALSE
    OBVIOUS
  <2>1. m \in stops
    BY <1>1
  <2> QED
    BY <1>3, <1>4, <2>1
<1>6. \A m \in k0 .. Len(f) : f[m] = SPACE
  <2> SUFFICES ASSUME NEW m \in k0 .. Len(f)
               PROVE  f[m] = SPACE
    OBVIOUS
  <2>1. k0 \in 1 .. Len(f) /\ s[k0] = f[k0]
    BY <1>1, <1>4
  <2>2. f[k0] \in {NUL, SPACE}
    BY <1>3, <2>1
  <2>3. f[k0] # NUL /\ (f[k0] = SPACE => \A n \in k0 .. Len(f) : f[n] = SPACE)
    BY <1>1, <2>1 DEF Padded
  <2> QED
    BY <2>2, <2>3
<1>7. PadFrom(f) = k0 - 1
  <2>1. k0 - 1 \in cuts
    BY <1>1, <1>4, <1>6
  <2>2. \A n \in cuts : k0 - 1 <= n
    <3> SUFFICES ASSUME NEW n \in cuts, n < k0 - 1
                 PROVE  FALSE
      BY <1>1, <1>4
    <3>1. k0 - 1 \in n + 1 .. Len(f) /\ k0 - 1 \in 1 .. Len(f) /\ k0 - 1 < k0
      BY <1>1, <1>4
    <3>2. f[k0 - 1] = SPACE
      BY <3>1
    <3> QED
      BY <1>5, <3>1, <3>2
  <2>3. cuts \subseteq Nat
    BY <1>1
  <2> DEFINE x == k0 - 1
  <2>4. x \in cuts /\ \A n \in cuts : x <= n
    BY <2>1, <2>2
  <2> HIDE DEF x, cuts
  <2>5. Min(cuts) = x
    BY <2>3, <2>4, MinIs
  <2> QED
    BY <2>5 DEF PadFrom, cuts, x
<1>8. SubSeq(s, 1, k0 - 1) = SubSeq(f, 1, k0 - 1)
  <2>1. CASE k0 = 1
    BY <2>1, SubSeqEmpty
  <2>2. CASE k0 # 1
    <3> DEFINE n == k0 - 1
    <3>1. n \in 1 .. Len(f) /\ 1 \in 1 .. Len(f)
      BY <1>1, <1>4, <2>2
    <3> HIDE DEF n
    <3>2. SubSeq(f \o t, 1, n) = SubSeq(f, 1, n)
      BY <3>1, SubSeqOfConcat1
    <3> QED
      BY <3>2 DEF n, s
  <2> QED
    BY <2>1, <2>2
<1>9. ToProper(s) = SubSeq(s, 1, k0 - 1)
  BY DEF ToProper, k0
<1> QED
  BY <1>7, <1>8, <1>9 DEF Unpad, s

\* The entries of the table, and what is read for one of them.
LEMMA EntryTypes ==
  ASSUME NEW v \in Volumes, NEW k \in DOMAIN v
  PROVE  v[k] \in RawEntry
<1>1. v \in Seq(RawEntry)
  BY FatLookupAssumption
<1> QED
  BY <1>1, LenProperties, ElementOfSeq

\* fat16_get_full_relative_filename gives plain names their usual form.
LEMMA PlainName ==
  ASSUME NEW e \in RawEntry, Plain(e)
  PROVE  FullName(e) = DosName(e)
<1> DEFINE last == <<e.attr, NUL>>
           rest == e.ext \o last
<1>1. /\ e.name \in Seq(Char) /\ e.ext \in Seq(Char) /\ e.attr \in Char
      /\ e.name # <<>> /\ e.ext # <<>>
  BY DEF RawEntry, Field
<1>2. last \in Seq(Char) /\ last # <<>> /\ last[1] = e.attr /\ Len(last) = 2
  BY <1>1, FatLookupAssumption
<1> HIDE DEF last
<1>3. rest \in Seq(Char) /\ Len(rest) = Len(e.ext) + Len(last)
  BY <1>1, <1>2, ConcatProperties
<1>4. rest # <<>>
  <2>1. Len(e.ext) \in Nat
    BY <1>1, LenProperties
  <2>2. Len(rest) # 0
    BY <1>2, <1>3, <2>1
  <2> QED
    BY <2>2, EmptySeq
<1>5. Raw(e) = e.name \o rest
  <2>1. Raw(e) = (e.name \o e.ext) \o last \/ Raw(e) = e.name \o (e.ext \o last)
    BY DEF Raw, last
  <2>2. (e.name \o e.ext) \o last = e.name \o (e.ext \o last)
    <3>1. \A a, b, c \in Seq(Char) : (a \o b) \o c = a \o (b \o c)
      BY ConcatAssociative
    <3> QED
      BY <1>1, <1>2, <3>1, Zenon
  <2> QED
    BY <2>1, <2>2
<1> HIDE DEF rest
<1>6. ToProper(Raw(e)) = Unpad(e.name)
  <2>1. Padded(e.name) /\ \E k \in DOMAIN e.name : e.name[k] = SPACE
    BY DEF Plain
  <2> QED
    BY <1>1, <1>3, <1>4, <1>5, <2>1, CopiesField
<1>7. ToProper(FromExt(e)) = Unpad(e.ext)
  <2>1. Padded(e.ext) /\ (e.attr = SPACE \/ \E k \in DOMAIN e.ext : e.ext[k] = SPACE)
    BY DEF Plain
  <2>2. last[1] = SPACE \/ \E k \in DOMAIN e.ext : e.ext[k] = SPACE
    BY <1>2, <2>1
  <2>3. ToProper(e.ext \o last) = Unpad(e.ext)
    BY <1>1, <1>2, <2>1, <2>2, CopiesField
  <2> QED
    BY <2>3 DEF FromExt, last
<1>8. Head(e.ext) \in {NUL, SPACE} <=> Unpad(e.ext) = <<>>
  <2> DEFINE f == e.ext
             cuts == {n \in 0 .. Len(f) : \A k \in n + 1 .. Len(f) : f[k] = SPACE}
  <2>1. /\ Len(f) \in Nat \ {0} /\ DOMAIN f = 1 .. Len(f) /\ Head(f) = f[1]
        /\ 1 \in DOMAIN f
    BY <1>1, EmptySeq, LenProperties
  <2>2. PadFrom(f) \in cuts /\ \A n \in cuts : PadFrom(f) <= n
    <3>1. cuts \subseteq Nat /\ Len(f) \in cuts
      BY <2>1
    <3> HIDE DEF cuts
    <3>2. Min(cuts) \in cuts /\ \A n \in cuts : Min(cuts) <= n
      BY <3>1, LeastMember
    <3> QED
      BY <3>2 DEF PadFrom, cuts
  <2>3. PadFrom(f) \in 0 .. Len(f)
    BY <2>2
  <2>4. Unpad(f) = <<>> <=> PadFrom(f) = 0
    <3> DEFINE n == PadFrom(f)
    <3>1. n \in 0 .. Len(f)
      BY <2>3
    <3> HIDE DEF n
    <3>2. n = 0 => SubSeq(f, 1, n) = <<>>
      BY SubSeqEmpty
    <3>3. n # 0 => Len(SubSeq(f, 1, n)) = n
      <4>1. \A k \in 1 .. n : f[k] \in Char
        BY <1>1, <2>1, <3>1, ElementOfSeq
      <4> QED
        BY <2>1, <3>1, <4>1, SubSeqProperties
    <3>4. n # 0 => SubSeq(f, 1, n) # <<>>
      BY <3>3, EmptySeq
    <3> QED
      BY <3>2, <3>4 DEF Unpad, n
  <2>5. PadFrom(f) = 0 => f[1] = SPACE
    BY <2>1, <2>2
  <2>6. f[1] \in {NUL, SPACE} => PadFrom(f) = 0
    <3>1. f[1] \in {NUL, SPACE} => \A k \in 1 .. Len(f) : f[k] = SPACE
      BY <2>1 DEF Plain, Padded
    <3>2. (\A k \in 1 .. Len(f) : f[k] = SPACE) => 0 \in cuts
      BY <2>1
    <3> QED
      BY <2>1, <2>2, <2>3, <3>1, <3>2
  <2> QED
    BY <2>1, <2>4, <2>5, <2>6
<1> QED
  BY <1>6, <1>7, <1>8 DEF FullName, DosName
-----------------------------------------------------------------------------
Like(k) == LooksLike(FullName(volume[k]), path[1])

\* Matches among the first n entries, and the subdirectories of them.
Found(n) == {k \in 1 .. n : Like(k)}
Loaded(n) == {k \in Found(n) : volume[k].attr = SUBDIRECTORY}

Ranges ==
  /\ volume \in Volumes /\ path \in Paths
  /\ mounted \in BOOLEAN /\ short \in BOOLEAN
  /\ scan \in Nat \ {0} /\ total \in Nat /\ total < scan
  /\ i \in Nat \ {0} /\ i <= total + 1 /\ match \in Nat /\ match < i
  /\ item \in {"none", "hollow", "whole"} /\ (item = "none" <=> match = 0)
  /\ live \in [desc : Nat, item : Nat, entry : Nat, directory : Nat]
  /\ pc \in {"count", "mounted", "search", "refused", "open", "closed", "wild"}

\* The count stops at the first end mark, and has counted the entries before
\* it that are not deleted.
Undel(n) == {k \in 1 .. n : ~Deleted(volume[k])}
Counted ==
  /\ scan <= Len(volume)
  /\ \A k \in 1 .. scan - 1 : Head(volume[k].name) # NUL
  /\ pc # "count" /\ mounted => Head(volume[scan].name) = NUL
  /\ total = Cardinality(Undel(scan - 1))

\* Each entry costs an item, a clone and a directory's two objects at most;
\* an open file has what closing it gives back.
Bounded ==
  /\ live.desc <= 1 /\ live.item < i /\ live.entry < i
  /\ live.directory <= 2 * (i - 1)
  /\ pc \notin {"closed", "wild"} =>
       /\ match # 0 => live.item # 0
       /\ item = "whole" => live.entry # 0

\* Where the search is when fat16_open moves on.
Stages ==
  /\ pc \in {"count", "mounted"} =>
       i = 1 /\ match = 0 /\ live = [desc |-> 0, item |-> 0, entry |-> 0, directory |-> 0]
  /\ pc \in {"count", "mounted", "search"} => mounted
  /\ pc \in {"open", "closed", "wild"} => match # 0 /\ Len(path) = 1
  /\ \/ pc \in {"open", "closed", "wild"}
     \/ pc = "refused" /\ mounted /\ ~short
     => i = total + 1
  /\ pc = "refused" /\ mounted /\ ~short => match = 0 \/ Len(path) > 1
  /\ short \/ item # "hollow"

\* The search in the table: no more is allocated than the matches so far ask
\* for, an item without its clone not counted as one; with memory enough just
\* that, and the last match is held.
Closed == IF pc \in {"closed", "wild"} THEN 1 ELSE 0
Searched ==
  mounted /\ total <= RootEntries /\ pc \notin {"count", "mounted"} =>
    /\ live.desc <= 1 - Closed
    /\ live.item <= Cardinality(Found(i - 1)) - Closed
    /\ live.entry <= live.item
    /\ item = "hollow" /\ Closed = 0 => live.entry < live.item
    /\ live.directory <= 2 * Cardinality(Loaded(i - 1))
    /\ ~short => /\ \A k \in Found(i - 1) : k <= match
                 /\ match # 0 => Like(match)
                 /\ live.desc = 1 - Closed
                 /\ live.item = Cardinality(Found(i - 1)) - Closed
                 /\ live.entry = live.item

IInv == Ranges /\ Counted /\ Bounded /\ Stages /\ Searched

LEMMA FoundStep ==
  ASSUME NEW n \in Nat \ {0}
  PROVE  /\ Found(0) = {} /\ Loaded(0) = {}
         /\ Cardinality(Found(n - 1)) \in Nat /\ Cardinality(Loaded(n - 1)) \in Nat
         /\ Found(n) \subseteq 1 .. n
         /\ ~Like(n) => Found(n) = Found(n - 1) /\ Loaded(n) = Loaded(n - 1)
         /\ Like(n) =>
              /\ Found(n) = Found(n - 1) \cup {n}
              /\ Cardinality(Found(n)) = Cardinality(Found(n - 1)) + 1
         /\ Like(n) /\ volume[n].attr # SUBDIRECTORY => Loaded(n) = Loaded(n - 1)
         /\ Like(n) /\ volume[n].attr = SUBDIRECTORY =>
              Cardinality(Loaded(n)) = Cardinality(Loaded(n - 1)) + 1
<1>1. Found(0) = {} /\ Loaded(0) = {}
  BY DEF Found, Loaded
<1>2. /\ 1 .. n = (1 .. n - 1) \cup {n} /\ n \notin 1 .. n - 1
  OBVIOUS
<1>3. /\ IsFiniteSet(Found(n - 1)) /\ IsFiniteSet(Loaded(n - 1))
      /\ Cardinality(Found(n - 1)) \in Nat /\ Cardinality(Loaded(n - 1)) \in Nat
  <2>1. IsFiniteSet(1 .. n - 1)
    BY FS_Interval
  <2>2. Found(n - 1) \subseteq 1 .. n - 1 /\ Loaded(n - 1) \subseteq 1 .. n - 1
    BY DEF Found, Loaded
  <2>3. IsFiniteSet(Found(n - 1)) /\ IsFiniteSet(Loaded(n - 1))
    BY <2>1, <2>2, FS_Subset
  <2> QED
    BY <2>3, FS_CardinalityType
<1>4. ~Like(n) => Found(n) = Found(n - 1) /\ Loaded(n) = Loaded(n - 1)
  BY <1>2 DEF Found, Loaded
<1>5. Like(n) => Found(n) = Found(n - 1) \cup {n} /\ n \notin Found(n - 1)
  BY <1>2 DEF Found
<1>6. Like(n) => Cardinality(Found(n)) = Cardinality(Found(n - 1)) + 1
  BY <1>3, <1>5, FS_AddElement
<1>7. /\ Like(n) /\ volume[n].attr # SUBDIRECTORY => Loaded(n) = Loaded(n - 1)
      /\ Like(n) /\ volume[n].attr = SUBDIRECTORY =>
           Loaded(n) = Loaded(n - 1) \cup {n} /\ n \notin Loaded(n - 1)
  BY <1>2, <1>5 DEF Loaded
<1>8. Like(n) /\ volume[n].attr = SUBDIRECTORY =>
        Cardinality(Loaded(n)) = Cardinality(Loaded(n - 1)) + 1
  BY <1>3, <1>7, FS_AddElement
<1>9. Found(n) \subseteq 1 .. n
  BY DEF Found
<1> QED
  BY <1>1, <1>3, <1>4, <1>5, <1>6, <1>7, <1>8, <1>9

LEMMA InitIInv == Init => IInv
<1> SUFFICES ASSUME Init PROVE IInv
  OBVIOUS
<1>1. Ranges
  <2>1. mounted \in BOOLEAN /\ short \in BOOLEAN
    BY Zenon DEF Init
  <2>2. live \in [desc : Nat, item : Nat, entry : Nat, directory : Nat]
    BY DEF Init
  <2>3. item = "none" /\ match = 0 /\ total < scan /\ match < i
    BY DEF Init
  <2> QED
    BY <2>1, <2>2, <2>3 DEF Init, Ranges
<1>2. Counted
  <2>1. \E k \in DOMAIN volume : Head(volume[k].name) = NUL
    BY FatLookupAssumption DEF Init
  <2>2. DOMAIN volume = 1 .. Len(volume) /\ Len(volume) \in Nat
    BY FatLookupAssumption, LenProperties DEF Init
  <2>3. 1 <= Len(volume)
    BY <2>1, <2>2
  <2>4. Undel(0) = {} /\ Cardinality(Undel(0)) = 0
    BY FS_EmptySet DEF Undel
  <2> QED
    BY <2>3, <2>4 DEF Init, Counted
<1>3. Bounded /\ Stages /\ Searched
  BY DEF Init, Bounded, Stages, Searched
<1> QED
  BY <1>1, <1>2, <1>3 DEF IInv

LEMMA NotFatIInv ==
  ASSUME IInv, NotFat
  PROVE  IInv'
<1>1. Ranges'
  BY DEF IInv, NotFat, Ranges
<1>2. Counted'
  BY DEF IInv, NotFat, Counted, Undel
<1>3. Bounded' /\ Stages' /\ Searched'
  BY DEF IInv, NotFat, Bounded, Stages, Searched
<1> QED
  BY <1>1, <1>2, <1>3 DEF IInv

LEMMA CountIInv ==
  ASSUME IInv, Count
  PROVE  IInv'
<1>1. /\ pc = "count" /\ Head(volume[scan].name) # NUL /\ scan' = scan + 1
      /\ total' = IF Deleted(volume[scan]) THEN total ELSE total + 1
      /\ UNCHANGED <<volume, path, mounted, i, match, item, live, short, pc>>
  BY DEF Count, Ends
<1>2. Ranges'
  BY <1>1 DEF IInv, Ranges
<1>3. Counted'
  <2>1. /\ volume \in Volumes /\ scan \in Nat \ {0} /\ total \in Nat
        /\ scan <= Len(volume) /\ Len(volume) \in Nat
        /\ DOMAIN volume = 1 .. Len(volume)
    BY FatLookupAssumption, LenProperties DEF IInv, Ranges, Counted
  <2>2. \A k \in 1 .. scan : Head(volume[k].name) # NUL
    BY <1>1, <2>1 DEF IInv, Counted
  <2>3. scan + 1 <= Len(volume)
    <3>1. PICK k \in DOMAIN volume : Head(volume[k].name) = NUL
      BY <2>1, FatLookupAssumption
    <3>2. k \in 1 .. Len(volume) /\ k \notin 1 .. scan
      BY <2>1, <2>2, <3>1
    <3> QED
      BY <2>1, <3>2
  <2>4. total' = Cardinality(Undel(scan))
    <3>1. 1 .. scan = (1 .. scan - 1) \cup {scan} /\ scan \notin 1 .. scan - 1
      BY <2>1
    <3>2. IsFiniteSet(1 .. scan - 1)
      BY <2>1, FS_Interval
    <3>3. IsFiniteSet(Undel(scan - 1))
      BY <3>2, FS_Subset DEF Undel
    <3>4. total = Cardinality(Undel(scan - 1))
      BY DEF IInv, Counted
    <3>5. CASE Deleted(volume[scan])
      <4>1. Undel(scan) = Undel(scan - 1)
        BY <3>1, <3>5 DEF Undel
      <4> QED
        BY <1>1, <3>4, <3>5, <4>1
    <3>6. CASE ~Deleted(volume[scan])
      <4>1. Undel(scan) = Undel(scan - 1) \cup {scan} /\ scan \notin Undel(scan - 1)
        BY <3>1, <3>6 DEF Undel
      <4>2. Cardinality(Undel(scan)) = Cardinality(Undel(scan - 1)) + 1
        BY <3>3, <4>1, FS_AddElement
      <4> QED
        BY <1>1, <3>4, <3>6, <4>2
    <3> QED
      BY <3>5, <3>6
  <2>5. scan' - 1 = scan
    BY <1>1, <2>1
  <2>6. Undel(scan - 1)' = Undel(scan)
    BY <1>1, <2>5 DEF Undel
  <2> QED
    BY <1>1, <2>2, <2>3, <2>4, <2>5, <2>6 DEF Counted, Undel
<1>4. Bounded' /\ Stages' /\ Searched'
  BY <1>1 DEF IInv, Bounded, Stages, Searched
<1> QED
  BY <1>2, <1>3, <1>4 DEF IInv

LEMMA MountIInv ==
  ASSUME IInv, CountEnds
  PROVE  IInv'
<1> USE DEF disk
<1>1. Ranges'
  BY DEF IInv, CountEnds, Ranges
<1>2. Counted'
  BY DEF IInv, CountEnds, Counted, Undel, Ends
<1>3. Bounded' /\ Stages' /\ Searched'
  BY DEF IInv, CountEnds, Bounded, Stages, Searched
<1> QED
  BY <1>1, <1>2, <1>3 DEF IInv

LEMMA OpenDescIInv ==
  ASSUME IInv, OpenDesc
  PROVE  IInv'
<1> USE DEF disk
<1>1. /\ pc = "mounted" /\ UNCHANGED <<volume, path, mounted, scan, total, i, match, item>>
      /\ \/ /\ live' = [live EXCEPT !.desc = 1]
            /\ pc' = "search" /\ UNCHANGED short
         \/ /\ short' = TRUE
            /\ pc' = "refused" /\ UNCHANGED live
  BY DEF OpenDesc
<1>2. /\ i = 1 /\ match = 0
      /\ live = [desc |-> 0, item |-> 0, entry |-> 0, directory |-> 0]
  BY <1>1 DEF IInv, Stages
<1>3. Ranges'
  <2>1. short' \in BOOLEAN
    BY <1>1 DEF IInv, Ranges
  <2>2. live' \in [desc : Nat, item : Nat, entry : Nat, directory : Nat]
    BY <1>1, <1>2
  <2> QED
    BY <1>1, <2>1, <2>2 DEF IInv, Ranges
<1>4. Counted'
  BY <1>1 DEF IInv, Counted, Undel
<1>5. Bounded' /\ Stages'
  BY <1>1, <1>2 DEF IInv, Bounded, Stages
<1>6. Searched'
  <2>1. (Found(i - 1))' = {} /\ (Loaded(i - 1))' = {} /\ Closed' = 0
    BY <1>1, <1>2 DEF Found, Loaded, Closed
  <2>2. Cardinality({}) = 0
    BY FS_EmptySet
  <2>3. /\ live'.desc <= 1 /\ live'.item = 0 /\ live'.entry = 0 /\ live'.directory = 0
        /\ item' # "hollow" /\ match' = 0
        /\ ~short' => live'.desc = 1
    BY <1>1, <1>2 DEF IInv, Ranges
  <2> QED
    BY <2>1, <2>2, <2>3 DEF Searched
<1> QED
  BY <1>3, <1>4, <1>5, <1>6 DEF IInv

LEMMA DiffersIInv ==
  ASSUME IInv, Differs
  PROVE  IInv'
<1> USE DEF disk
<1>1. /\ pc = "search" /\ i <= total /\ i' = i + 1
      /\ UNCHANGED <<volume, path, mounted, scan, total, match, item, live, short, pc>>
      /\ \E e \in EntriesAt(i) : ~LooksLike(FullName(e), path[1])
  BY DEF Differs
<1>2. Ranges
  BY DEF IInv
<1>3. Ranges'
  BY <1>1, <1>2 DEF Ranges
<1>4. Counted'
  BY <1>1 DEF IInv, Counted, Undel
<1>5. Bounded' /\ Stages'
  BY <1>1, <1>2 DEF IInv, Bounded, Stages, Ranges
<1>6. Searched'
  <2> SUFFICES ASSUME mounted, total <= RootEntries
               PROVE  Searched'
    BY <1>1 DEF Searched
  <2>1. ~Like(i)
    <3>1. i <= RootEntries
      BY <1>1, <1>2, FatLookupAssumption DEF Ranges
    <3> QED
      BY <1>1, <3>1 DEF EntriesAt, Like
  <2>2. (Found(i - 1))' = Found(i) /\ (Loaded(i - 1))' = Loaded(i)
    <3>1. i' - 1 = i
      BY <1>1, <1>2 DEF Ranges
    <3> QED
      BY <1>1, <3>1 DEF Found, Loaded, Like
  <2>3. Found(i) = Found(i - 1) /\ Loaded(i) = Loaded(i - 1)
    BY <1>2, <2>1, FoundStep DEF Ranges
  <2>4. Like(match)' = Like(match) /\ Closed' = Closed
    BY <1>1 DEF Like, Closed
  <2> QED
    BY <1>1, <2>2, <2>3, <2>4 DEF IInv, Searched
<1> QED
  BY <1>3, <1>4, <1>5, <1>6 DEF IInv

LEMMA MatchesIInv ==
  ASSUME IInv, Matches
  PROVE  IInv'
<1> USE DEF disk
<1>1. /\ pc = "search" /\ i <= total /\ i' = i + 1
      /\ UNCHANGED <<volume, path, mounted, scan, total, pc>>
  BY DEF Matches
<1>2. PICK e \in EntriesAt(i), new \in {"none", "hollow", "whole"}, loaded \in {0, 2} :
        /\ LooksLike(FullName(e), path[1])
        /\ loaded = 2 => e.attr = SUBDIRECTORY /\ new # "none"
        /\ item' = new
        /\ match' = IF new = "none" THEN 0 ELSE i
        /\ live' = [live EXCEPT !.item = IF new = "none" THEN @ ELSE @ + 1,
                                !.entry = IF new = "whole" THEN @ + 1 ELSE @,
                                !.directory = @ + loaded]
        /\ short' = (short \/ new # "whole")
  BY DEF Matches
<1>3. Ranges
  BY DEF IInv
<1>4. /\ live'.desc = live.desc
      /\ live'.item = IF new = "none" THEN live.item ELSE live.item + 1
      /\ live'.entry = IF new = "whole" THEN live.entry + 1 ELSE live.entry
      /\ live'.directory = live.directory + loaded
      /\ live' \in [desc : Nat, item : Nat, entry : Nat, directory : Nat]
  <2>1. live \in [desc : Nat, item : Nat, entry : Nat, directory : Nat]
    BY <1>3 DEF Ranges
  <2> DEFINE x == IF new = "none" THEN live.item ELSE live.item + 1
             y == IF new = "whole" THEN live.entry + 1 ELSE live.entry
             z == live.directory + loaded
  <2>2. live' = [live EXCEPT !.item = x, !.entry = y, !.directory = z]
    BY <1>2, <2>1
  <2>3. x \in Nat /\ y \in Nat /\ z \in Nat
    BY <2>1
  <2> HIDE DEF x, y, z
  <2>4. /\ live'.desc = live.desc /\ live'.item = x /\ live'.entry = y
        /\ live'.directory = z
        /\ live' \in [desc : Nat, item : Nat, entry : Nat, directory : Nat]
    BY <2>1, <2>2, <2>3
  <2> QED
    BY <2>4 DEF x, y, z
<1>5. /\ live.desc \in Nat /\ live.item \in Nat /\ live.entry \in Nat
      /\ live.directory \in Nat /\ i \in Nat \ {0}
  BY <1>3 DEF Ranges
<1>6. Ranges'
  <2>1. short' \in BOOLEAN
    BY <1>2, <1>3 DEF Ranges
  <2>2. match' \in Nat /\ match' < i' /\ (item' = "none" <=> match' = 0)
    BY <1>1, <1>2, <1>5
  <2>3. item' \in {"none", "hollow", "whole"}
    BY <1>2
  <2> QED
    BY <1>1, <1>3, <1>4, <2>1, <2>2, <2>3 DEF Ranges
<1>7. Counted'
  BY <1>1 DEF IInv, Counted, Undel
<1>8. Bounded'
  <2>1. live'.desc <= 1 /\ live'.item < i' /\ live'.entry < i'
    BY <1>1, <1>4, <1>5 DEF IInv, Bounded
  <2>2. live'.directory <= 2 * (i' - 1)
    <3>1. live.directory <= 2 * (i - 1)
      BY DEF IInv, Bounded
    <3> QED
      BY <1>1, <1>4, <1>5, <3>1
  <2>3. match' # 0 => live'.item # 0
    BY <1>2, <1>4, <1>5
  <2>4. item' = "whole" => live'.entry # 0
    BY <1>2, <1>4, <1>5
  <2> QED
    BY <2>1, <2>2, <2>3, <2>4 DEF Bounded
<1>9. Stages'
  BY <1>1, <1>2 DEF IInv, Stages
<1>10. Searched'
  <2> SUFFICES ASSUME mounted, total <= RootEntries
               PROVE  Searched'
    BY <1>1 DEF Searched
  <2>1. e = volume[i]
    <3>1. i <= RootEntries
      BY <1>1, <1>3, FatLookupAssumption DEF Ranges
    <3> QED
      BY <3>1 DEF EntriesAt
  <2>2. Like(i)
    BY <1>2, <2>1 DEF Like
  <2>3. (Found(i - 1))' = Found(i) /\ (Loaded(i - 1))' = Loaded(i)
    <3>1. i' - 1 = i
      BY <1>1, <1>5
    <3> QED
      BY <1>1, <3>1 DEF Found, Loaded, Like
  <2>4. PICK m, n : m = Cardinality(Found(i - 1)) /\ n = Cardinality(Loaded(i - 1))
    OBVIOUS
  <2>5. /\ m \in Nat /\ n \in Nat /\ Cardinality(Found(i)) = m + 1
        /\ Found(i) \subseteq 1 .. i
        /\ volume[i].attr # SUBDIRECTORY => Cardinality(Loaded(i)) = n
        /\ volume[i].attr = SUBDIRECTORY => Cardinality(Loaded(i)) = n + 1
    BY <1>5, <2>2, <2>4, FoundStep
  <2>6. Closed = 0 /\ Closed' = 0
    BY <1>1 DEF Closed
  <2>7. /\ live.desc <= 1 /\ live.item <= m /\ live.entry <= live.item
        /\ live.directory <= 2 * n
        /\ ~short => /\ live.desc = 1 /\ live.item = m /\ live.entry = live.item
    <3>1. /\ live.desc <= 1 - Closed /\ live.item <= m - Closed
          /\ live.entry <= live.item /\ live.directory <= 2 * n
          /\ ~short => /\ live.desc = 1 - Closed /\ live.item = m - Closed
                       /\ live.entry = live.item
      BY <1>1, <2>4 DEF IInv, Searched
    <3> QED
      BY <2>5, <2>6, <3>1
  <2>8. /\ live'.desc <= 1 /\ live'.item <= m + 1 /\ live'.entry <= live'.item
        /\ item' = "hollow" => live'.entry < live'.item
    BY <1>2, <1>4, <1>5, <2>5, <2>7
  <2>9. live'.directory <= 2 * Cardinality(Loaded(i))
    <3>1. CASE volume[i].attr = SUBDIRECTORY
      <4>1. live'.directory <= 2 * (n + 1)
        BY <1>4, <1>5, <2>5, <2>7
      <4> QED
        BY <2>5, <3>1, <4>1
    <3>2. CASE volume[i].attr # SUBDIRECTORY
      <4>1. loaded = 0
        BY <1>2, <2>1, <3>2
      <4> QED
        BY <1>4, <1>5, <2>5, <2>7, <3>2, <4>1
    <3> QED
      BY <3>1, <3>2
  <2>10. ASSUME ~short'
         PROVE  /\ \A k \in Found(i) : k <= match'
                /\ Like(match)'
                /\ live'.desc = 1 /\ live'.item = m + 1 /\ live'.entry = live'.item
    <3>1. ~short /\ new = "whole"
      BY <1>2, <2>10
    <3>2. match' = i
      BY <1>2, <3>1
    <3>3. Like(match)'
      BY <1>1, <2>2, <3>2 DEF Like
    <3>4. live'.desc = 1 /\ live'.item = m + 1 /\ live'.entry = live'.item
      BY <1>4, <1>5, <2>5, <2>7, <3>1
    <3> QED
      BY <1>5, <2>5, <3>2, <3>3, <3>4
  <2>11. (Cardinality(Found(i - 1)) - Closed)' = m + 1 /\ (1 - Closed)' = 1
    BY <2>3, <2>5, <2>6
  <2>12. /\ live'.desc <= (1 - Closed)'
         /\ live'.item <= (Cardinality(Found(i - 1)) - Closed)'
         /\ live'.directory <= (2 * Cardinality(Loaded(i - 1)))'
    BY <2>3, <2>8, <2>9, <2>11
  <2>13. ASSUME ~short'
         PROVE  /\ (\A k \in Found(i - 1) : k <= match)'
                /\ live'.desc = (1 - Closed)'
                /\ live'.item = (Cardinality(Found(i - 1)) - Closed)'
    BY <2>3, <2>10, <2>11, <2>13
  <2> QED
    BY <2>8, <2>10, <2>12, <2>13 DEF Searched
<1> QED
  BY <1>6, <1>7, <1>8, <1>9, <1>10 DEF IInv

LEMMA SearchEndsIInv ==
  ASSUME IInv, SearchEnds
  PROVE  IInv'
<1> USE DEF disk
<1>1. /\ pc = "search" /\ i > total
      /\ pc' = IF match = 0 \/ Len(path) > 1 THEN "refused" ELSE "open"
      /\ UNCHANGED <<volume, path, mounted, scan, total, i, match, item, live, short>>
  BY DEF SearchEnds
<1>2. Ranges
  BY DEF IInv
<1>3. Ranges'
  BY <1>1, <1>2 DEF Ranges
<1>4. Counted'
  BY <1>1 DEF IInv, Counted, Undel
<1>5. Bounded'
  BY <1>1 DEF IInv, Bounded
<1>6. Stages'
  <2>1. i = total + 1
    BY <1>1, <1>2 DEF Ranges
  <2>2. path \in Seq(Seq(Char)) /\ path # <<>>
    BY <1>2, FatLookupAssumption DEF Ranges
  <2>3. Len(path) \in Nat \ {0}
    BY <2>2, EmptySeq, LenProperties
  <2>4. pc' = "open" => match # 0 /\ Len(path) = 1
    BY <1>1, <2>3
  <2> QED
    BY <1>1, <2>1, <2>4 DEF IInv, Stages
<1>7. Searched'
  <2>1. (Found(i - 1))' = Found(i - 1) /\ (Loaded(i - 1))' = Loaded(i - 1)
    BY <1>1 DEF Found, Loaded, Like
  <2>2. Like(match)' = Like(match) /\ Closed' = Closed
    BY <1>1 DEF Like, Closed
  <2> QED
    BY <1>1, <2>1, <2>2 DEF IInv, Searched
<1> QED
  BY <1>3, <1>4, <1>5, <1>6, <1>7 DEF IInv

LEMMA CloseIInv ==
  ASSUME IInv, Close
  PROVE  IInv'
<1> USE DEF disk
<1>1. /\ pc = "open" /\ pc' \in {"closed", "wild"}
      /\ live' = [live EXCEPT !.desc = 0, !.item = @ - 1,
                              !.entry = IF item = "whole" THEN @ - 1 ELSE @]
      /\ UNCHANGED <<volume, path, mounted, scan, total, i, match, item, short>>
  BY DEF Close
<1>2. Ranges
  BY DEF IInv
<1>3. live \in [desc : Nat, item : Nat, entry : Nat, directory : Nat]
  BY <1>2 DEF Ranges
<1>4. /\ live'.desc = 0 /\ live'.item = live.item - 1
      /\ live'.entry = IF item = "whole" THEN live.entry - 1 ELSE live.entry
      /\ live'.directory = live.directory
  BY <1>1, <1>3
<1>5. /\ live.item \in Nat \ {0} /\ live.entry \in Nat
      /\ item = "whole" => live.entry # 0
      /\ match # 0
  BY <1>1, <1>3 DEF IInv, Bounded, Stages
<1>6. live' \in [desc : Nat, item : Nat, entry : Nat, directory : Nat]
  <2> DEFINE x == live.item - 1
             y == IF item = "whole" THEN live.entry - 1 ELSE live.entry
  <2>1. live' = [live EXCEPT !.desc = 0, !.item = x, !.entry = y]
    BY <1>1, <1>3
  <2>2. x \in Nat /\ y \in Nat
    BY <1>5
  <2> HIDE DEF x, y
  <2> QED
    BY <1>3, <2>1, <2>2
<1>7. Ranges'
  BY <1>1, <1>2, <1>6 DEF Ranges
<1>8. Counted'
  BY <1>1 DEF IInv, Counted, Undel
<1>9. Bounded'
  BY <1>1, <1>2, <1>4, <1>5 DEF IInv, Bounded, Ranges
<1>10. Stages'
  BY <1>1 DEF IInv, Stages
<1>11. Searched'
  <2>1. (Found(i - 1))' = Found(i - 1) /\ (Loaded(i - 1))' = Loaded(i - 1)
    BY <1>1 DEF Found, Loaded, Like
  <2>2. Like(match)' = Like(match) /\ Closed = 0 /\ Closed' = 1
    BY <1>1 DEF Like, Closed
  <2> SUFFICES ASSUME mounted, total <= RootEntries
               PROVE  Searched'
    BY <1>1 DEF Searched
  <2>3. PICK m \in Nat : m = Cardinality(Found(i - 1))
    BY <1>2, FoundStep DEF Ranges
  <2>4. /\ live.item <= m - 0 /\ live.entry <= live.item
        /\ item = "hollow" => live.entry < live.item
        /\ live.directory <= 2 * Cardinality(Loaded(i - 1))
        /\ ~short => /\ \A k \in Found(i - 1) : k <= match
                     /\ match # 0 => Like(match)
                     /\ live.item = m - 0 /\ live.entry = live.item
    BY <1>1, <2>2, <2>3 DEF IInv, Searched
  <2>5. item \in {"hollow", "whole"} /\ (~short => item = "whole")
    BY <1>2, <1>5 DEF IInv, Stages, Ranges
  <2>6. /\ live'.desc = 0 /\ live'.item <= m - 1 /\ live'.entry <= live'.item
        /\ live'.directory <= 2 * Cardinality(Loaded(i - 1))
        /\ ~short => live'.item = m - 1 /\ live'.entry = live'.item
    BY <1>4, <1>5, <2>3, <2>4, <2>5
  <2> QED
    BY <1>1, <2>1, <2>2, <2>3, <2>4, <2>6 DEF Searched
<1> QED
  BY <1>7, <1>8, <1>9, <1>10, <1>11 DEF IInv

LEMMA NextIInv == IInv /\ [Next]_vars => IInv'
<1> SUFFICES ASSUME IInv, [Next]_vars PROVE IInv'
  OBVIOUS
<1>1. CASE UNCHANGED vars
  BY <1>1 DEF vars, IInv, Ranges, Counted, Bounded, Stages, Searched, Found,
              Loaded, Like, Closed, Undel
<1> QED
  BY <1>1, NotFatIInv, CountIInv, MountIInv, OpenDescIInv, DiffersIInv,
     MatchesIInv, SearchEndsIInv, CloseIInv DEF Next
-----------------------------------------------------------------------------
\* The count stops at the directory's end mark, on the disk: it is the number
\* of the entries before it that are not deleted.
LEMMA CountedToEnd ==
  ASSUME IInv, pc # "count", mounted
  PROVE  /\ EndMark = scan /\ Undeleted = Undel(scan - 1)
         /\ total = Cardinality(Undeleted)
<1> DEFINE marks == {k \in DOMAIN volume : Head(volume[k].name) = NUL}
<1>1. /\ volume \in Volumes /\ DOMAIN volume = 1 .. Len(volume) /\ Len(volume) \in Nat
      /\ scan \in Nat \ {0}
  BY FatLookupAssumption, LenProperties DEF IInv, Ranges
<1>2. scan \in marks /\ marks \subseteq Nat
  BY <1>1 DEF IInv, Counted
<1>3. \A k \in marks : scan <= k
  <2> SUFFICES ASSUME NEW k \in marks, k < scan PROVE FALSE
    BY <1>1
  <2>1. k \in 1 .. scan - 1
    BY <1>1
  <2> QED
    BY <2>1 DEF IInv, Counted
<1> HIDE DEF marks
<1>4. Min(marks) = scan
  BY <1>2, <1>3, MinIs
<1>5. EndMark = scan
  BY <1>4 DEF EndMark, marks
<1> QED
  BY <1>5 DEF Undeleted, Undel, IInv, Counted

\* fat16_find_item_in_directory, bounded by the count of another loop over
\* the disk: it leaves the table only where that directory has more entries
\* that are not deleted than the table holds.
THEOREM LookupStays == Spec => []SearchStaysInTable
<1>1. ASSUME IInv PROVE SearchStaysInTable
  <2> SUFFICES ASSUME pc = "search", i <= total, i > RootEntries
               PROVE  EndMark - 1 > RootEntries + Cardinality((1 .. EndMark - 1) \ Undeleted)
    BY DEF SearchStaysInTable
  <2>1. mounted
    BY <1>1 DEF IInv, Stages
  <2>2. PICK n : n = EndMark - 1
    OBVIOUS
  <2>3. n \in Nat /\ total = Cardinality(Undeleted) /\ Undeleted \subseteq 1 .. n
    BY <1>1, <2>1, <2>2, CountedToEnd DEF IInv, Ranges, Undeleted
  <2>4. IsFiniteSet(1 .. n) /\ Cardinality(1 .. n) = n
    BY <2>3, FS_Interval
  <2>5. Cardinality((1 .. n) \ Undeleted) = n - total
    <3>1. (1 .. n) \cap Undeleted = Undeleted
      BY <2>3
    <3>2. Cardinality((1 .. n) \ Undeleted)
            = Cardinality(1 .. n) - Cardinality((1 .. n) \cap Undeleted)
      BY <2>4, FS_Difference
    <3> QED
      BY <2>3, <2>4, <3>1, <3>2
  <2>6. total > RootEntries /\ total \in Nat /\ RootEntries \in Nat
    BY <1>1, FatLookupAssumption DEF IInv, Ranges
  <2> QED
    BY <2>2, <2>3, <2>5, <2>6
<1> QED
  BY <1>1, InitIInv, NextIInv, PTL DEF Spec

\* What the search has found when it is through, and before.
LEMMA FoundAll ==
  ASSUME IInv, pc # "count", mounted
  PROVE  /\ Matching = Found(total)
         /\ {k \in Matching : volume[k].attr = SUBDIRECTORY} = Loaded(total)
         /\ Cardinality(Found(i - 1)) \in Nat /\ Cardinality(Loaded(i - 1)) \in Nat
         /\ Cardinality(Found(total)) \in Nat /\ Cardinality(Loaded(total)) \in Nat
         /\ Cardinality(Found(i - 1)) <= Cardinality(Found(total))
         /\ Cardinality(Loaded(i - 1)) <= Cardinality(Loaded(total))
<1>1. total = Cardinality(Undeleted)
  BY CountedToEnd
<1>2. Matching = Found(total)
  BY <1>1 DEF Matching, Read, Found, Like
<1>3. i - 1 <= total /\ i \in Nat \ {0} /\ total \in Nat
  BY DEF IInv, Ranges
<1>4. Found(i - 1) \subseteq Found(total) /\ Loaded(i - 1) \subseteq Loaded(total)
  <2>1. 1 .. i - 1 \subseteq 1 .. total
    BY <1>3
  <2> QED
    BY <2>1 DEF Found, Loaded
<1>5. IsFiniteSet(Found(total)) /\ IsFiniteSet(Loaded(total))
  <2>1. IsFiniteSet(1 .. total)
    BY <1>3, FS_Interval
  <2>2. Found(total) \subseteq 1 .. total /\ Loaded(total) \subseteq 1 .. total
    BY DEF Found, Loaded
  <2> QED
    BY <2>1, <2>2, FS_Subset
<1>6. /\ IsFiniteSet(Found(i - 1)) /\ IsFiniteSet(Loaded(i - 1))
      /\ Cardinality(Found(i - 1)) <= Cardinality(Found(total))
      /\ Cardinality(Loaded(i - 1)) <= Cardinality(Loaded(total))
  BY <1>4, <1>5, FS_Subset
<1> QED
  BY <1>2, <1>5, <1>6, FS_CardinalityType DEF Loaded

\* fat16_open and fat16_close, whatever allocations fail: no more stays
\* allocated than the descriptor of a refused open, the items of all matches
\* but the one handed out, and what was loaded of subdirectories; and the
\* descriptor and the items all do, if none fails.
THEOREM LookupLeaves == Spec => []LeftBehind
<1>1. ASSUME IInv PROVE LeftBehind
  <2> SUFFICES ASSUME pc \in {"refused", "closed"}, mounted,
                      Cardinality(Undeleted) <= RootEntries
               PROVE  LeftBehind
    BY DEF LeftBehind
  <2>1. pc \notin {"count", "mounted"} /\ total <= RootEntries
    BY <1>1, CountedToEnd
  <2>2. PICK closed \in {0, 1} : closed = IF pc = "closed" THEN 1 ELSE 0
    OBVIOUS
  <2>3. Closed = closed
    BY <2>2 DEF Closed
  <2>4. /\ live.desc <= 1 - closed
        /\ live.item <= Cardinality(Found(i - 1)) - closed
        /\ live.entry <= live.item
        /\ live.directory <= 2 * Cardinality(Loaded(i - 1))
        /\ ~short => /\ live.desc = 1 - closed
                     /\ live.item = Cardinality(Found(i - 1)) - closed
                     /\ live.entry = live.item
    BY <1>1, <2>1, <2>3 DEF IInv, Searched
  <2>5. ~short => i - 1 = total
    BY <1>1 DEF IInv, Stages, Ranges
  <2>6. /\ live.item \in Nat /\ live.directory \in Nat
    BY <1>1 DEF IInv, Ranges
  <2>7. PICK m, n, r, q :
          /\ m = Cardinality(Found(i - 1)) /\ n = Cardinality(Found(total))
          /\ r = Cardinality(Loaded(i - 1)) /\ q = Cardinality(Loaded(total))
    OBVIOUS
  <2>8. m \in Nat /\ n \in Nat /\ r \in Nat /\ q \in Nat /\ m <= n /\ r <= q
    BY <1>1, <2>1, <2>7, FoundAll
  <2>9. live.item <= n - closed /\ live.directory <= 2 * q
    BY <2>4, <2>6, <2>7, <2>8
  <2>10. ~short => live.item = n - closed
    BY <2>4, <2>5, <2>7
  <2>11. /\ Cardinality(Matching) = n
         /\ Cardinality({k \in Matching : volume[k].attr = SUBDIRECTORY}) = q
    BY <1>1, <2>1, <2>7, FoundAll
  <2> QED
    BY <2>2, <2>4, <2>9, <2>10, <2>11 DEF LeftBehind
<1> QED
  BY <1>1, InitIInv, NextIInv, PTL DEF Spec

\* With memory enough fopen opens the last match of what it reads, through the
\* count that leaves deleted entries out, and refuses if there is none or the
\* path goes on; and the names put together from their fields match for every
\* plainly named file that is read.
THEOREM LookupFinds == Spec => []FindsPlainFiles
<1>1. ASSUME IInv PROVE FindsPlainFiles
  <2>1. TypeOK
    <3>1. scan \in 1 .. Len(volume) /\ total \in 0 .. scan - 1
      <4>1. Len(volume) \in Nat
        BY <1>1, FatLookupAssumption, LenProperties DEF IInv, Ranges
      <4> QED
        BY <1>1, <4>1 DEF IInv, Ranges, Counted
    <3>2. i \in 1 .. total + 1 /\ match \in 0 .. total
      BY <1>1 DEF IInv, Ranges
    <3>3. live \in [desc : 0 .. 1, item : 0 .. total, entry : 0 .. total,
                    directory : 0 .. 2 * total]
      <4>1. /\ live \in [desc : Nat, item : Nat, entry : Nat, directory : Nat]
            /\ live.desc <= 1 /\ live.item < i /\ live.entry < i
            /\ live.directory <= 2 * (i - 1) /\ i <= total + 1
            /\ i \in Nat /\ total \in Nat
        BY <1>1 DEF IInv, Ranges, Bounded
      <4>2. /\ live.desc \in 0 .. 1 /\ live.item \in 0 .. total
            /\ live.entry \in 0 .. total /\ live.directory \in 0 .. 2 * total
        BY <4>1
      <4> QED
        BY <4>1, <4>2
    <3>4. (item = "none") = (match = 0)
      BY <1>1, Zenon DEF IInv, Ranges
    <3> QED
      BY <1>1, <3>1, <3>2, <3>3, <3>4 DEF IInv, Ranges, TypeOK
  <2>2. ASSUME pc \in {"refused", "open"}, mounted, ~short,
               Cardinality(Undeleted) <= RootEntries
        PROVE  /\ pc = "open" <=> Matching # {} /\ Len(path) = 1
               /\ pc = "open" => /\ item = "whole" /\ match \in Matching
                                 /\ \A k \in Matching : k <= match
               /\ \A k \in 1 .. EndMark - 1 :
                    Holds(k) /\ Plain(volume[k]) /\ k \in Read => k \in Matching
    <3>1. total <= RootEntries /\ Matching = Found(total)
      BY <1>1, <2>2, CountedToEnd, FoundAll
    <3>2. i = total + 1 /\ i - 1 = total /\ match \in Nat /\ match < i
          /\ total \in Nat
      BY <1>1, <2>2 DEF IInv, Stages, Ranges
    <3>3. /\ \A k \in Matching : k <= match
          /\ match # 0 => Like(match)
      BY <1>1, <2>2, <3>1, <3>2 DEF IInv, Searched
    <3>4. match # 0 => match \in Matching
      BY <3>1, <3>2, <3>3 DEF Found
    <3>5. Matching # {} => match # 0
      <4> SUFFICES ASSUME NEW k \in Matching PROVE match # 0
        OBVIOUS
      <4>1. k \in 1 .. total /\ k <= match
        BY <3>1, <3>3 DEF Found
      <4> QED
        BY <3>2, <4>1
    <3>6. /\ pc = "open" => match # 0 /\ Len(path) = 1
          /\ pc = "refused" => match = 0 \/ Len(path) > 1
      BY <1>1, <2>2 DEF IInv, Stages
    <3>7. pc = "open" => item = "whole"
      BY <1>1, <2>2, <3>6 DEF IInv, Stages, Ranges
    <3>8. ASSUME NEW k \in 1 .. EndMark - 1, Holds(k), Plain(volume[k]), k \in Read
          PROVE  k \in Matching
      <4>1. /\ scan <= Len(volume) /\ volume \in Volumes /\ EndMark = scan
            /\ scan \in Nat
        BY <1>1, <2>2, CountedToEnd DEF IInv, Ranges, Counted
      <4>2. DOMAIN volume = 1 .. Len(volume) /\ Len(volume) \in Nat
        BY <4>1, FatLookupAssumption, LenProperties
      <4>3. k \in DOMAIN volume
        BY <3>8, <4>1, <4>2
      <4>4. path[1] = DosName(volume[k])
        BY <3>8 DEF Holds
      <4>5. FullName(volume[k]) = DosName(volume[k])
        BY <3>8, <4>1, <4>3, EntryTypes, PlainName
      <4> QED
        BY <3>8, <4>4, <4>5 DEF Matching, LooksLike
    <3>9. pc = "open" <=> Matching # {} /\ Len(path) = 1
      <4>1. pc = "refused" => ~(Matching # {} /\ Len(path) = 1)
        <5>1. Len(path) = 1 => ~(Len(path) > 1)
          OBVIOUS
        <5> QED
          BY <3>5, <3>6, <5>1, Zenon
      <4>2. pc = "open" => Matching # {} /\ Len(path) = 1
        BY <3>4, <3>6
      <4> QED
        BY <2>2, <4>1, <4>2
    <3> QED
      BY <3>3, <3>4, <3>6, <3>7, <3>8, <3>9
  <2> QED
    BY <2>1, <2>2 DEF FindsPlainFiles
<1> QED
  BY <1>1, InitIInv, NextIInv, PTL DEF Spec
=============================================================================
