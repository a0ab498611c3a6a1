------------------------- MODULE AddressSpaceProofs -------------------------
(***************************************************************************)
(* Proofs about AddressSpace, for any word, page and program headers: what *)
(* is mapped where, and which bounds are found.                            *)
(***************************************************************************)
EXTENDS AddressSpace, FiniteSetTheorems, SequenceTheorems, TLAPS

\* A number is given by its quotient and its remainder, and gives them.
LEMMA DivMod ==
  ASSUME NEW n \in Nat \ {0}, NEW x \in Int
  PROVE  /\ x % n \in 0 .. n - 1 /\ x \div n \in Int
         /\ x = (x \div n) * n + (x % n)
  OBVIOUS

LEMMA NatDivMod ==
  ASSUME NEW n \in Nat \ {0}, NEW x \in Nat
  PROVE  /\ x % n \in 0 .. n - 1 /\ x \div n \in Nat
         /\ x = (x \div n) * n + (x % n)
  OBVIOUS

LEMMA QuotientIs ==
  ASSUME NEW n \in Nat \ {0}, NEW x \in Int, NEW q \in Int, NEW r \in 0 .. n - 1,
         x = q * n + r
  PROVE  x \div n = q /\ x % n = r
<1> DEFINE k == x \div n
           t == x % n
           e == k - q
<1>1. k \in Int /\ t \in 0 .. n - 1 /\ x = k * n + t
  BY DivMod
<1> HIDE DEF k, t
<1>2. e \in Int /\ e * n = k * n - q * n /\ k * n \in Int /\ q * n \in Int
  BY <1>1
<1>3. e * n = r - t
  BY <1>1, <1>2
<1> HIDE DEF e
<1>4. ~(e >= 1)
  <2>1. SUFFICES ASSUME e >= 1 PROVE FALSE
    OBVIOUS
  <2>2. e * n >= n
    BY <1>2, <2>1
  <2> QED
    BY <1>1, <1>3, <2>2
<1>5. ~(e <= -1)
  <2>1. SUFFICES ASSUME e <= -1 PROVE FALSE
    OBVIOUS
  <2>2. e * n <= -n
    BY <1>2, <2>1
  <2> QED
    BY <1>1, <1>3, <2>2
<1>6. e = 0
  BY <1>2, <1>4, <1>5
<1>7. r = t
  BY <1>1, <1>3, <1>6
<1>8. k = q
  BY <1>1, <1>6 DEF e
<1> QED
  BY <1>7, <1>8 DEF k, t

\* Products keep and show the order of their factors.
LEMMA TimesOrder ==
  ASSUME NEW n \in Nat \ {0}, NEW a \in Int, NEW b \in Int
  PROVE  /\ a * n \in Int /\ (a + b) * n = a * n + b * n
         /\ (a + 1) * n = a * n + n
         /\ a <= b <=> a * n <= b * n
         /\ a < b <=> a * n < b * n
         /\ a < b => a * n + n <= b * n
  OBVIOUS

\* A remainder counts on like the number.
LEMMA ModNext ==
  ASSUME NEW n \in Nat \ {0}, NEW u \in Nat
  PROVE  ((u % n) + 1) % n = (u + 1) % n
<1> DEFINE j == u \div n
           c == u % n
           w == c + 1
           x == u + 1
           v == w \div n
           s == w % n
           q == j + v
<1>1. j \in Int /\ c \in Int /\ u = j * n + c
  BY DivMod
<1> HIDE DEF j, c
<1>2. w \in Int /\ w = c + 1 /\ x \in Int /\ x = u + 1
  BY <1>1
<1> HIDE DEF w, x
<1>3. v \in Int /\ s \in 0 .. n - 1 /\ w = v * n + s
  BY <1>2, DivMod
<1> HIDE DEF v, s
<1>4. q \in Int /\ q * n = j * n + v * n /\ j * n \in Int /\ v * n \in Int
  BY <1>1, <1>3
<1> HIDE DEF q
<1>5. x = q * n + s
  BY <1>1, <1>2, <1>3, <1>4
<1>6. x % n = s
  <2>1. x \in Int /\ q \in Int /\ s \in 0 .. n - 1
    BY <1>2, <1>3, <1>4
  <2> QED
    BY <1>5, <2>1, QuotientIs
<1> QED
  BY <1>6 DEF x, s, w, c

\* An address in its page: the word it wraps to keeps the place in the page.
LEMMA WrapsByPages ==
  ASSUME NEW q \in Nat, NEW r \in 0 .. Page - 1
  PROVE  /\ (q * Page + r) % WordSize = (q % Pages) * Page + r
         /\ q % Pages \in PageNumber
         /\ (q % Pages) * Page + r \in 0 .. WordSize - 1
<1> DEFINE k == q \div Pages
           m == q % Pages
           x == q * Page + r
           y == m * Page + r
<1>1. Page \in Nat \ {0} /\ Pages \in Nat \ {0}
  BY AddressSpaceAssumption
<1>2. k \in Int /\ m \in 0 .. Pages - 1 /\ q = k * Pages + m
  BY <1>1, DivMod
<1> HIDE DEF k, m
<1>3. m * Page \in Nat /\ m * Page + Page <= Pages * Page
  BY <1>1, <1>2, TimesOrder
<1>4. WordSize = Pages * Page /\ WordSize \in Nat \ {0}
  BY <1>1 DEF WordSize
<1>5. y \in 0 .. WordSize - 1
  BY <1>1, <1>3, <1>4
<1>6. q * Page = k * WordSize + m * Page
  BY <1>1, <1>2, <1>4
<1>7. q * Page \in Int /\ k * WordSize \in Int
  BY <1>1, <1>2, <1>4
<1>8. x \in Int /\ x = k * WordSize + y
  BY <1>1, <1>3, <1>6, <1>7
<1> HIDE DEF x, y
<1>9. x % WordSize = y
  BY <1>2, <1>4, <1>5, <1>8, QuotientIs
<1> QED
  BY <1>2, <1>5, <1>9 DEF x, y, m, PageNumber

\* The pages some bytes need, and the room they give.
LEMMA RoomFor ==
  ASSUME NEW m \in Nat
  PROVE  LET t == (m + Page - 1) \div Page
         IN t \in Nat /\ m <= t * Page /\ t * Page < m + Page
<1> DEFINE x == m + Page - 1
           t == x \div Page
           r == x % Page
<1>1. Page \in Nat \ {0}
  BY AddressSpaceAssumption
<1>2. x \in Nat /\ x = m + Page - 1
  BY <1>1
<1> HIDE DEF x
<1>3. t \in Nat /\ r \in 0 .. Page - 1 /\ x = t * Page + r
  BY <1>1, <1>2, NatDivMod
<1> HIDE DEF t, r
<1>4. t * Page \in Nat
  BY <1>1, <1>3
<1>5. t \in Nat /\ m <= t * Page /\ t * Page < m + Page
  BY <1>1, <1>2, <1>3, <1>4
<1> QED
  BY <1>5 DEF t, x

\* The end of m bytes from page f on, rounded up: it wraps like the pages.
LEMMA EndWraps ==
  ASSUME NEW f \in PageNumber, NEW m \in Nat, NEW t \in Nat,
         m <= t * Page, t * Page < m + Page
  PROVE  AlignUp((f * Page + m) % WordSize) = ((f + t) % Pages) * Page
<1> DEFINE k == m \div Page
           r == m % Page
           a == ((f + k) % Pages) * Page + r
           c == (f + k) % Pages
<1>1. Page \in Nat \ {0} /\ Pages \in Nat \ {0} /\ f \in Nat
  BY AddressSpaceAssumption DEF PageNumber
<1>2. k \in Nat /\ r \in 0 .. Page - 1 /\ m = k * Page + r
  BY <1>1, NatDivMod
<1> HIDE DEF k, r
<1>3. /\ f * Page \in Int /\ k * Page \in Int /\ t * Page \in Int
      /\ (f + k) * Page = f * Page + k * Page
  BY <1>1, <1>2
<1>4. f * Page + m = (f + k) * Page + r
  BY <1>1, <1>2, <1>3
<1>5. /\ (f * Page + m) % WordSize = a
      /\ c \in 0 .. Pages - 1
  <2> DEFINE u == f + k
  <2>1. u \in Nat
    BY <1>1, <1>2
  <2> HIDE DEF u
  <2>2. (u * Page + r) % WordSize = (u % Pages) * Page + r /\ u % Pages \in PageNumber
    BY <1>2, <2>1, WrapsByPages
  <2> QED
    BY <1>4, <2>2 DEF u, PageNumber
<1>6. c * Page \in Nat /\ a = c * Page + r
  BY <1>1, <1>5
<1>7. a % Page = r
  <2>1. a \in Int /\ c \in Int
    BY <1>1, <1>2, <1>5, <1>6
  <2> HIDE DEF a, c
  <2> QED
    BY <1>1, <1>2, <1>6, <2>1, QuotientIs
<1>8. CASE r = 0
  <2>1. k * Page <= t * Page /\ t * Page < k * Page + Page
    BY <1>1, <1>2, <1>3, <1>8
  <2>2. k <= t /\ ~(k < t)
    BY <1>1, <1>2, <1>3, <2>1, TimesOrder
  <2>3. t = k
    BY <1>2, <2>2
  <2>4. AlignUp(a) = c * Page
    BY <1>1, <1>6, <1>7, <1>8 DEF AlignUp
  <2> QED
    BY <1>5, <2>3, <2>4
<1>9. CASE r # 0
  <2>1. k * Page < t * Page /\ t * Page < (k + 1) * Page + Page
    BY <1>1, <1>2, <1>3, <1>9
  <2>2. k < t /\ ~(k + 1 < t)
    BY <1>1, <1>2, <1>3, <2>1, TimesOrder
  <2>3. t = k + 1
    BY <1>2, <2>2
  <2>4. a + Page - r = (c + 1) * Page
    BY <1>1, <1>2, <1>5, <1>6
  <2>5. AlignUp(a) = ((c + 1) * Page) % WordSize
    BY <1>2, <1>7, <1>9, <2>4 DEF AlignUp
  <2>6. ((c + 1) * Page) % WordSize = ((c + 1) % Pages) * Page
    <3> DEFINE d == c + 1
               e == 0
    <3>1. d \in Nat /\ e \in 0 .. Page - 1 /\ e = 0
      BY <1>1, <1>5
    <3> HIDE DEF d, e
    <3>2. (d * Page + e) % WordSize = (d % Pages) * Page + e /\ d % Pages \in PageNumber
      BY <3>1, WrapsByPages
    <3>3. d * Page + e = d * Page /\ (d % Pages) * Page + e = (d % Pages) * Page
      BY <1>1, <3>1, <3>2 DEF PageNumber
    <3> QED
      BY <3>2, <3>3 DEF d
  <2>7. (c + 1) % Pages = (f + t) % Pages
    <3> DEFINE u == f + k
    <3>1. u \in Nat /\ f + t = u + 1
      BY <1>1, <1>2, <2>3
    <3> HIDE DEF u
    <3>2. ((u % Pages) + 1) % Pages = (u + 1) % Pages
      BY <1>1, <3>1, ModNext
    <3> QED
      BY <3>1, <3>2 DEF u
  <2> QED
    BY <1>5, <2>5, <2>6, <2>7
<1> QED
  BY <1>8, <1>9
-----------------------------------------------------------------------------
\* In pages: where a header is mapped, the memory it takes, what is behind it,
\* how many pages it is given and how many its bytes need.
Start(h) == h.vaddr \div Page
First(h) == Phys(h) \div Page
Behind(h) == PhysEnd(h) \div Page
Given(h) == (PhysEnd(h) - Phys(h)) \div Page
Needs(h) == (h.memsz + Page - 1) \div Page

Accepted(h) == MapsTo(h.vaddr, Phys(h), PhysEnd(h))

LEMMA Sizing ==
  /\ Page \in Nat \ {0} /\ Pages \in Nat \ {0}
  /\ WordSize \in Nat \ {0} /\ WordSize = Pages * Page
  /\ ImageAt \in Nat /\ FilePages \in Nat /\ ImageAt + FilePages <= Pages
  /\ StackAt \in Nat /\ StackVirtual \in Nat /\ StackPages \in Nat
<1>1. /\ Page \in Nat \ {0} /\ Pages \in Nat \ {0} /\ FileSize \in Nat
      /\ ImageAt \in Nat /\ StackAt \in Nat /\ StackVirtual \in Nat /\ StackPages \in Nat
      /\ ImageAt * Page + FileSize <= Page * Pages
  BY AddressSpaceAssumption
<1>2. WordSize \in Nat \ {0} /\ WordSize = Pages * Page
  BY <1>1 DEF WordSize
<1>3. FilePages \in Nat /\ FilePages * Page < FileSize + Page
  BY <1>1, RoomFor DEF FilePages
<1>4. ImageAt + FilePages <= Pages
  <2> DEFINE s == ImageAt + FilePages
  <2>1. s \in Nat /\ s * Page = ImageAt * Page + FilePages * Page
    BY <1>1, <1>3
  <2>2. ImageAt * Page \in Nat /\ FilePages * Page \in Nat /\ Pages * Page \in Nat
        /\ Page * Pages = Pages * Page
    BY <1>1, <1>3
  <2>3. s * Page < Pages * Page + Page
    BY <1>1, <1>3, <2>1, <2>2
  <2> HIDE DEF s
  <2>4. ~(Pages < s)
    <3>1. SUFFICES ASSUME Pages < s PROVE FALSE
      OBVIOUS
    <3>2. Pages * Page + Page <= s * Page
      BY <1>1, <2>1, <3>1, TimesOrder
    <3> QED
      BY <1>1, <2>1, <2>2, <2>3, <3>2
  <2> QED
    BY <1>1, <2>1, <2>4 DEF s
<1> QED
  BY <1>1, <1>2, <1>3, <1>4

\* The word a number wraps to.
LEMMA InWord ==
  ASSUME NEW x \in Nat
  PROVE  x % WordSize \in 0 .. WordSize - 1
  BY Sizing, NatDivMod

LEMMA HeaderWords ==
  ASSUME NEW h \in Header
  PROVE  /\ {h.vaddr, h.offset, h.filesz, h.memsz} \subseteq 0 .. WordSize - 1
         /\ {Phys(h), PhysEnd(h)} \subseteq 0 .. WordSize - 1
<1>1. {h.vaddr, h.offset, h.filesz, h.memsz} \subseteq 0 .. WordSize - 1
  BY AddressSpaceAssumption DEF Header, WordSize
<1>3. Phys(h) \in 0 .. WordSize - 1
  <2>1. ImageAt * Page + h.offset \in Nat
    BY <1>1, Sizing
  <2> QED
    BY <2>1, InWord DEF Phys
<1>4. PhysEnd(h) \in 0 .. WordSize - 1
  <2> DEFINE a == (Phys(h) + h.memsz) % WordSize
             r == a % Page
             b == a + Page - r
  <2>1. a \in 0 .. WordSize - 1
    BY <1>1, <1>3, Sizing, InWord
  <2> HIDE DEF a
  <2>2. r \in 0 .. Page - 1
    BY <2>1, Sizing, NatDivMod
  <2>3. b \in Nat
    BY <2>1, <2>2, Sizing
  <2>4. b % WordSize \in 0 .. WordSize - 1
    BY <2>3, InWord
  <2>5. AlignUp(a) = IF r = 0 THEN a ELSE b % WordSize
    BY DEF AlignUp
  <2> HIDE DEF b, r
  <2>6. AlignUp(a) \in 0 .. WordSize - 1
    BY <2>1, <2>4, <2>5
  <2> QED
    BY <2>6 DEF PhysEnd, a
<1> QED
  BY <1>1, <1>3, <1>4

\* A multiple of the page below the word's end is a page number.
LEMMA PageOf ==
  ASSUME NEW a \in 0 .. WordSize - 1, a % Page = 0
  PROVE  a \div Page \in PageNumber /\ a = (a \div Page) * Page
<1> DEFINE q == a \div Page
<1>1. a \in Nat /\ a < Pages * Page /\ Page \in Nat \ {0} /\ Pages \in Nat
  BY Sizing
<1>2. q \in Nat /\ a = q * Page + (a % Page)
  BY <1>1, NatDivMod
<1> HIDE DEF q
<1>3. q * Page \in Nat
  BY <1>1, <1>2
<1>4. a = q * Page
  BY <1>2, <1>3
<1>5. q < Pages
  BY <1>1, <1>2, <1>4, TimesOrder
<1> QED
  BY <1>1, <1>2, <1>4, <1>5 DEF q, PageNumber

LEMMA InPages ==
  ASSUME NEW h \in Header, Accepted(h)
  PROVE  /\ Start(h) \in PageNumber /\ h.vaddr = Start(h) * Page
         /\ First(h) \in PageNumber /\ Phys(h) = First(h) * Page
         /\ Behind(h) \in PageNumber /\ PhysEnd(h) = Behind(h) * Page
         /\ First(h) <= Behind(h) /\ Given(h) = Behind(h) - First(h)
         /\ Needs(h) \in Nat /\ Behind(h) = (First(h) + Needs(h)) % Pages
         /\ h.memsz <= Needs(h) * Page /\ Needs(h) * Page < h.memsz + Page
<1>1. /\ h.vaddr \in 0 .. WordSize - 1 /\ Phys(h) \in 0 .. WordSize - 1
      /\ PhysEnd(h) \in 0 .. WordSize - 1 /\ h.memsz \in Nat
  BY HeaderWords
<1>2. h.vaddr % Page = 0 /\ Phys(h) % Page = 0 /\ PhysEnd(h) % Page = 0 /\ Phys(h) <= PhysEnd(h)
  BY DEF Accepted, MapsTo
<1>3. Start(h) \in PageNumber /\ h.vaddr = Start(h) * Page
  BY <1>1, <1>2, PageOf DEF Start
<1>4. First(h) \in PageNumber /\ Phys(h) = First(h) * Page
  BY <1>1, <1>2, PageOf DEF First
<1>5. Behind(h) \in PageNumber /\ PhysEnd(h) = Behind(h) * Page
  BY <1>1, <1>2, PageOf DEF Behind
<1>6. /\ Page \in Nat \ {0} /\ Pages \in Nat \ {0}
      /\ First(h) \in 0 .. Pages - 1 /\ Behind(h) \in 0 .. Pages - 1
  BY <1>4, <1>5, Sizing DEF PageNumber
<1>7. First(h) <= Behind(h)
  <2> DEFINE f == First(h)
             e == Behind(h)
  <2>1. f \in Int /\ e \in Int /\ f * Page <= e * Page
    BY <1>2, <1>4, <1>5, <1>6
  <2> HIDE DEF f, e
  <2>2. f <= e
    BY <1>6, <2>1, TimesOrder
  <2> QED
    BY <2>2 DEF f, e
<1>8. Given(h) = Behind(h) - First(h)
  <2> DEFINE f == First(h)
             e == Behind(h)
             d == PhysEnd(h) - Phys(h)
             q == e - f
             z == 0
  <2>1. f \in Int /\ e \in Int /\ q \in Int /\ d = e * Page - f * Page
    BY <1>4, <1>5, <1>6
  <2>2. z \in 0 .. Page - 1 /\ z = 0
    BY <1>6
  <2> HIDE DEF f, e, d, z
  <2>3. f * Page \in Int /\ e * Page \in Int /\ q * Page = e * Page - f * Page
    BY <1>6, <2>1
  <2> HIDE DEF q
  <2>4. d \in Int /\ d = q * Page + z
    BY <2>1, <2>2, <2>3
  <2>5. d \div Page = q
    BY <1>6, <2>1, <2>2, <2>4, QuotientIs
  <2> QED
    BY <2>5 DEF d, q, e, f, Given
<1>9. /\ Needs(h) \in Nat
      /\ h.memsz <= Needs(h) * Page /\ Needs(h) * Page < h.memsz + Page
  BY <1>1, RoomFor DEF Needs
<1>10. Behind(h) = (First(h) + Needs(h)) % Pages
  <2> DEFINE e == (First(h) + Needs(h)) % Pages
             z == 0
             d == PhysEnd(h)
  <2>1. d = e * Page
    BY <1>1, <1>4, <1>9, EndWraps DEF PhysEnd
  <2>2. First(h) + Needs(h) \in Nat
    BY <1>6, <1>9
  <2>3. e \in 0 .. Pages - 1
    BY <1>6, <2>2, NatDivMod
  <2>4. z \in 0 .. Page - 1 /\ z = 0
    BY <1>6
  <2> HIDE DEF e, z, d
  <2>5. e \in Int /\ d \in Int /\ d = e * Page + z
    BY <1>6, <2>1, <2>3, <2>4
  <2>6. d \div Page = e
    BY <1>6, <2>4, <2>5, QuotientIs
  <2> QED
    BY <2>6 DEF d, e, Behind
<1> QED
  BY <1>3, <1>4, <1>5, <1>7, <1>8, <1>9, <1>10

\* The distance of two pages, counted on from the second and round the end.
LEMMA Distance ==
  ASSUME NEW p \in PageNumber, NEW s \in PageNumber
  PROVE  /\ (p - s) % Pages \in 0 .. Pages - 1
         /\ (p - s) % Pages = IF p >= s THEN p - s ELSE p - s + Pages
<1> DEFINE x == p - s
           q == IF p >= s THEN 0 ELSE -1
           r == IF p >= s THEN p - s ELSE p - s + Pages
<1>1. Pages \in Nat \ {0} /\ p \in 0 .. Pages - 1 /\ s \in 0 .. Pages - 1
  BY Sizing DEF PageNumber
<1>2. x \in Int /\ q \in Int /\ r \in 0 .. Pages - 1 /\ x = q * Pages + r
  BY <1>1
<1> HIDE DEF x, q, r
<1>3. x % Pages = r
  BY <1>1, <1>2, QuotientIs
<1> QED
  BY <1>2, <1>3 DEF x, r

LEMMA SumInPages ==
  ASSUME NEW s \in PageNumber, NEW q \in 0 .. Pages - 1
  PROVE  /\ (s + q) % Pages \in PageNumber
         /\ (s + q) % Pages = IF s + q < Pages THEN s + q ELSE s + q - Pages
         /\ (((s + q) % Pages) - s) % Pages = q
<1> DEFINE x == s + q
           k == IF s + q < Pages THEN 0 ELSE 1
           r == IF s + q < Pages THEN s + q ELSE s + q - Pages
<1>1. Pages \in Nat \ {0} /\ s \in 0 .. Pages - 1
  BY Sizing DEF PageNumber
<1>2. x \in Int /\ k \in Int /\ r \in 0 .. Pages - 1 /\ x = k * Pages + r
  BY <1>1
<1>3. r \in PageNumber /\ (r >= s => r - s = q) /\ (~(r >= s) => r - s + Pages = q)
  BY <1>1, <1>2 DEF PageNumber
<1> HIDE DEF x, k, r
<1>4. x % Pages = r
  BY <1>1, <1>2, QuotientIs
<1>5. (r - s) % Pages = q
  BY <1>3, Distance
<1> QED
  BY <1>3, <1>4, <1>5 DEF x, r

\* Where byte b of an accepted segment goes, and what it finds there.
LEMMA ByteArrives ==
  ASSUME NEW h \in Header, Accepted(h), h.memsz <= WordSize - Page,
         NEW b \in 0 .. h.memsz - 1
  PROVE  LET v == (h.vaddr + b) % WordSize
             p == v \div Page
             k == (p - Start(h)) % Pages
         IN /\ p \in PageNumber /\ k \in 0 .. Pages - 1 /\ k < Given(h)
            /\ (First(h) + k) * Page + (v % Page) = (Phys(h) + b) % WordSize
<1> DEFINE s == Start(h)
           f == First(h)
           n == Needs(h)
           e == Behind(h)
           m == h.memsz
           q == b \div Page
           r == b % Page
<1>1. /\ Page \in Nat \ {0} /\ Pages \in Nat \ {0} /\ WordSize = Pages * Page
      /\ WordSize \in Nat
  BY Sizing
<1>2. /\ s \in 0 .. Pages - 1 /\ f \in 0 .. Pages - 1 /\ e \in 0 .. Pages - 1 /\ f <= e
      /\ h.vaddr = s * Page /\ Phys(h) = f * Page /\ Given(h) = e - f
      /\ n \in Nat /\ e = (f + n) % Pages
      /\ m <= n * Page /\ n * Page < m + Page
  BY InPages DEF PageNumber
<1>3. m \in Nat /\ b \in 0 .. m - 1 /\ m <= WordSize - Page
  BY HeaderWords
<1>4. q \in Nat /\ r \in 0 .. Page - 1 /\ b = q * Page + r
  <2>1. b \in Nat
    BY <1>3
  <2> QED
    BY <1>1, <2>1, NatDivMod
<1> HIDE DEF s, f, n, e, m, q, r
<1>5. n * Page \in Int /\ q * Page \in Int
  BY <1>1, <1>2, <1>4
<1>6. n < Pages
  <2>1. n * Page < Pages * Page
    BY <1>1, <1>2, <1>3, <1>5
  <2> QED
    BY <1>1, <1>2, <2>1, TimesOrder
<1>7. q < n
  <2>1. q * Page < n * Page
    BY <1>1, <1>2, <1>3, <1>4, <1>5
  <2> QED
    BY <1>1, <1>2, <1>4, <2>1, TimesOrder
<1>8. e = f + n
  <2>1. f \in PageNumber /\ n \in 0 .. Pages - 1
    BY <1>1, <1>2, <1>6 DEF PageNumber
  <2>2. (f + n) % Pages = IF f + n < Pages THEN f + n ELSE f + n - Pages
    BY <2>1, SumInPages
  <2> QED
    BY <1>1, <1>2, <1>6, <2>2
<1> DEFINE u == s + q
           g == f + q
           p == u % Pages
           v == (h.vaddr + b) % WordSize
<1>9. /\ u \in Nat /\ g \in 0 .. Pages - 1 /\ q \in 0 .. Pages - 1
      /\ u * Page = s * Page + q * Page /\ g * Page = f * Page + q * Page
      /\ s * Page \in Nat /\ f * Page \in Nat
  BY <1>1, <1>2, <1>4, <1>6, <1>7, <1>8
<1>10. h.vaddr + b = u * Page + r /\ Phys(h) + b = g * Page + r
  BY <1>1, <1>2, <1>3, <1>4, <1>5, <1>9
<1>11. p \in PageNumber /\ (p - s) % Pages = q
  <2>1. s \in PageNumber
    BY <1>2 DEF PageNumber
  <2> QED
    BY <1>9, <2>1, SumInPages
<1> HIDE DEF u, g
<1>12. v = p * Page + r
  BY <1>4, <1>9, <1>10, WrapsByPages
<1>13. (Phys(h) + b) % WordSize = g * Page + r
  <2>1. (g * Page + r) % WordSize = (g % Pages) * Page + r
    BY <1>4, <1>9, WrapsByPages
  <2>2. g % Pages = g
    BY <1>1, <1>9
  <2> QED
    BY <1>10, <2>1, <2>2
<1> HIDE DEF p, v
<1>14. v \div Page = p /\ v % Page = r
  <2>1. p \in Int /\ p * Page \in Int
    BY <1>1, <1>11 DEF PageNumber
  <2>2. v \in Int
    BY <1>1, <1>4, <1>12, <2>1
  <2>3. p \in Int /\ r \in 0 .. Page - 1 /\ v = p * Page + r
    BY <1>4, <1>12, <2>1
  <2> QED
    BY <1>1, <2>2, <2>3, QuotientIs
<1>15. q < Given(h)
  BY <1>2, <1>7, <1>8, <1>4
<1> QED
  BY <1>9, <1>11, <1>13, <1>14, <1>15 DEF v, s, f, g
-----------------------------------------------------------------------------
\* The segments to load that the loop over the bounds has seen, those of them
\* not followed by one at address 0, and the bounds they give.
Seen == {k \in Loads : pc = "bounds" => k < next}
SeenKept == {k \in Seen : \A j \in Seen : j >= k => headers[j].vaddr # 0}
EndOf(k) == (headers[k].vaddr + headers[k].filesz) % WordSize
Bounded ==
  /\ \A k \in SeenKept : bounds.base <= headers[k].vaddr
  /\ SeenKept = {} => bounds.base = 0
  /\ SeenKept # {} => \E k \in SeenKept : bounds.base = headers[k].vaddr
  /\ \A k \in Seen : EndOf(k) <= bounds.end
  /\ Seen = {} => bounds.end = 0
  /\ Seen # {} => \E k \in Seen : bounds.end = EndOf(k)

\* A page the program can write to was given to a header or is the stack's.
Owned ==
  \A p \in PageNumber : pte[p].write =>
    \/ \E k \in DOMAIN headers : /\ Accepted(headers[k])
                                 /\ First(headers[k]) <= pte[p].frame
                                 /\ pte[p].frame < Behind(headers[k])
    \/ p \in StackRange /\ pte[p].frame \in StackFrames

\* The headers passed were accepted, and their bytes are in place.
InPlace ==
  pc \in {"segments", "done"} =>
    \A k \in 1 .. next - 1 :
      /\ Accepted(headers[k])
      /\ headers[k].memsz <= WordSize - Page =>
           \A b \in 0 .. headers[k].memsz - 1 : Arrived(k, b)

Ended == pc = "done" => next = Len(headers) + 1

MapIInv == MapTypeOK /\ Bounded /\ Owned /\ InPlace /\ Ended

Entry == [frame : 0 .. Pages, write : BOOLEAN]

LEMMA MapInitIInv == MapInit => MapIInv
<1> SUFFICES ASSUME MapInit PROVE MapIInv
  OBVIOUS
<1> USE DEF MapInit
<1>1. headers \in Seq(Header)
  <2>1. PICK n \in 0 .. MaxHeaders : headers \in [1 .. n -> Header]
    BY DEF BoundedSeq, SeqOf
  <2> QED
    BY <2>1, AddressSpaceAssumption, SeqDef
<1>2. Len(headers) \in Nat
  BY <1>1
<1>3. next \in 1 .. Len(headers) + 1
  BY <1>2
<1>4. pte \in [PageNumber -> Entry]
  BY Sizing DEF PageNumber, Entry
<1>5. bounds \in [base : 0 .. WordSize - 1, end : 0 .. WordSize - 1]
  BY Sizing
<1>6. MapTypeOK
  BY <1>1, <1>3, <1>4, <1>5 DEF MapTypeOK, Entry
<1>7. Seen = {} /\ SeenKept = {}
  BY <1>1 DEF Seen, SeenKept, Loads
<1>8. Bounded
  BY <1>7 DEF Bounded
<1>9. Owned /\ InPlace /\ Ended
  BY DEF Owned, InPlace, Ended
<1> QED
  BY <1>6, <1>8, <1>9 DEF MapIInv

\* The header the loop is at.
LEMMA HeaderAt ==
  ASSUME MapTypeOK, next <= Len(headers)
  PROVE  /\ headers[next] \in Header /\ next \in DOMAIN headers
         /\ next + 1 \in 1 .. Len(headers) + 1
         /\ DOMAIN headers = 1 .. Len(headers) /\ next \in Nat /\ Len(headers) \in Nat
         /\ \A k \in DOMAIN headers : headers[k] \in Header
<1>1. headers \in Seq(Header) /\ next \in 1 .. Len(headers) + 1
  BY DEF MapTypeOK
<1> QED
  BY <1>1

\* The bounds after one more segment.
LEMMA BoundsGrow ==
  ASSUME MapTypeOK, NEW h \in Header
  PROVE  \E e \in 0 .. WordSize - 1, lo \in 0 .. WordSize - 1, hi \in 0 .. WordSize - 1 :
           /\ e = (h.vaddr + h.filesz) % WordSize
           /\ WithSegment(bounds, h) = [base |-> lo, end |-> hi]
           /\ lo = IF bounds.base >= h.vaddr \/ bounds.base = 0 THEN h.vaddr
                   ELSE bounds.base
           /\ hi = IF bounds.end <= e \/ bounds.end = 0 THEN e ELSE bounds.end
           /\ bounds.base \in Nat /\ bounds.end \in Nat /\ h.vaddr \in Nat
<1>1. /\ h.vaddr \in 0 .. WordSize - 1 /\ h.filesz \in 0 .. WordSize - 1
      /\ WordSize \in Nat \ {0}
  BY HeaderWords, Sizing
<1>2. bounds.base \in 0 .. WordSize - 1 /\ bounds.end \in 0 .. WordSize - 1
  BY DEF MapTypeOK
<1>3. PICK e : e = (h.vaddr + h.filesz) % WordSize
  OBVIOUS
<1>4. e \in 0 .. WordSize - 1
  <2>1. h.vaddr + h.filesz \in Nat
    BY <1>1
  <2> QED
    BY <1>3, <2>1, InWord
<1>5. PICK lo : lo = IF bounds.base >= h.vaddr \/ bounds.base = 0 THEN h.vaddr
                   ELSE bounds.base
  OBVIOUS
<1>6. PICK hi : hi = IF bounds.end <= e \/ bounds.end = 0 THEN e ELSE bounds.end
  OBVIOUS
<1>7. lo \in 0 .. WordSize - 1 /\ hi \in 0 .. WordSize - 1
  BY <1>1, <1>2, <1>4, <1>5, <1>6
<1>8. WithSegment(bounds, h) = [base |-> lo, end |-> hi]
  BY <1>3, <1>5, <1>6 DEF WithSegment
<1>9. bounds.base \in Nat /\ bounds.end \in Nat /\ h.vaddr \in Nat
  BY <1>1, <1>2
<1> QED
  BY <1>3, <1>4, <1>5, <1>6, <1>7, <1>8, <1>9, Zenon

LEMMA TakeBoundsIInv == MapIInv /\ TakeBounds => MapIInv'
<1> SUFFICES ASSUME MapIInv, TakeBounds PROVE MapIInv'
  OBVIOUS
<1>0. MapTypeOK /\ Bounded /\ Owned
  BY DEF MapIInv
<1>1. /\ pc = "bounds" /\ pc' = pc /\ next <= Len(headers) /\ next' = next + 1
      /\ headers' = headers /\ pte' = pte
      /\ bounds' = IF headers[next].load THEN WithSegment(bounds, headers[next]) ELSE bounds
  BY DEF TakeBounds
<1>2. PICK h : h = headers[next]
  OBVIOUS
<1>3. /\ h \in Header /\ next \in DOMAIN headers /\ next + 1 \in 1 .. Len(headers) + 1
      /\ DOMAIN headers = 1 .. Len(headers) /\ next \in Nat /\ Len(headers) \in Nat
  BY <1>0, <1>1, <1>2, HeaderAt
<1>4. PICK e \in 0 .. WordSize - 1, lo \in 0 .. WordSize - 1, hi \in 0 .. WordSize - 1 :
        /\ e = (h.vaddr + h.filesz) % WordSize
        /\ WithSegment(bounds, h) = [base |-> lo, end |-> hi]
        /\ lo = IF bounds.base >= h.vaddr \/ bounds.base = 0 THEN h.vaddr
                ELSE bounds.base
        /\ hi = IF bounds.end <= e \/ bounds.end = 0 THEN e ELSE bounds.end
        /\ bounds.base \in Nat /\ bounds.end \in Nat /\ h.vaddr \in Nat
  BY <1>0, <1>3, BoundsGrow
<1>5. MapTypeOK'
  <2>1. bounds' \in [base : 0 .. WordSize - 1, end : 0 .. WordSize - 1]
    BY <1>0, <1>1, <1>2, <1>4 DEF MapTypeOK
  <2> QED
    BY <1>0, <1>1, <1>3, <2>1 DEF MapTypeOK
<1>6. /\ Seen \subseteq DOMAIN headers /\ next \notin Seen
      /\ \A k \in Seen : k \in Nat /\ k < next
      /\ \A k \in Seen : headers[k].vaddr \in Nat /\ EndOf(k) \in Nat
  <2>1. \A k \in DOMAIN headers : headers[k].vaddr \in Nat /\ headers[k].filesz \in Nat
    BY <1>0, <1>1, HeaderAt, HeaderWords, Sizing
  <2>2. ASSUME NEW k \in DOMAIN headers PROVE EndOf(k) \in Nat
    <3>1. PICK x \in Nat : x = headers[k].vaddr + headers[k].filesz
      BY <2>1
    <3> QED
      BY <3>1, InWord, Sizing DEF EndOf
  <2> QED
    BY <1>1, <1>3, <2>1, <2>2 DEF Seen, Loads
<1>7. /\ \A k \in DOMAIN headers : EndOf(k)' = EndOf(k) /\ headers'[k] = headers[k]
      /\ EndOf(next) = e /\ Loads' = Loads
  BY <1>1, <1>2, <1>4 DEF EndOf, Loads
<1>8. Bounded'
  <2>1. CASE ~h.load
    <3>1. Seen' = Seen /\ bounds' = bounds
      <4>1. next \notin Loads
        BY <1>2, <2>1 DEF Loads
      <4>2. \A k \in Loads : k < next + 1 <=> k < next
        BY <1>3, <4>1 DEF Loads
      <4> QED
        BY <1>1, <1>2, <1>7, <2>1, <4>2 DEF Seen
    <3>2. SeenKept' = SeenKept
      BY <1>1, <3>1 DEF SeenKept
    <3>3. SeenKept \subseteq DOMAIN headers
      BY <1>6 DEF SeenKept
    <3> QED
      BY <1>0, <1>1, <1>6, <1>7, <3>1, <3>2, <3>3 DEF Bounded
  <2>2. CASE h.load
    <3>1. Seen' = Seen \cup {next} /\ bounds'.base = lo /\ bounds'.end = hi
      <4>1. next \in Loads
        BY <1>2, <1>3, <2>2 DEF Loads
      <4>2. \A k \in Loads : k < next + 1 <=> (k < next \/ k = next)
        BY <1>3 DEF Loads
      <4>3. bounds' = [base |-> lo, end |-> hi]
        BY <1>1, <1>2, <1>4, <2>2
      <4> QED
        BY <1>1, <1>7, <4>1, <4>2, <4>3 DEF Seen
    <3>2. /\ \A k \in Seen : EndOf(k) <= hi
          /\ e <= hi
          /\ hi = e \/ (Seen # {} /\ hi = bounds.end)
      <4>1. \A k \in Seen : EndOf(k) <= bounds.end
        BY <1>0 DEF Bounded
      <4>2. Seen = {} => bounds.end = 0
        BY <1>0 DEF Bounded
      <4> QED
        BY <1>4, <1>6, <4>1, <4>2
    <3>3. /\ \A k \in Seen' : EndOf(k)' <= bounds'.end
          /\ Seen' # {} /\ \E k \in Seen' : bounds'.end = EndOf(k)'
      <4>1. Seen # {} => \E k \in Seen : bounds.end = EndOf(k)
        BY <1>0 DEF Bounded
      <4> QED
        BY <1>3, <1>6, <1>7, <3>1, <3>2, <4>1
    <3>4. /\ \A k \in SeenKept' : bounds'.base <= headers'[k].vaddr
          /\ SeenKept' = {} => bounds'.base = 0
          /\ SeenKept' # {} => \E k \in SeenKept' : bounds'.base = headers'[k].vaddr
      <4>1. CASE h.vaddr = 0
        <5>1. SeenKept' = {}
          BY <1>1, <1>2, <1>3, <1>6, <3>1, <4>1 DEF SeenKept
        <5>2. lo = 0
          BY <1>4, <4>1
        <5> QED
          BY <3>1, <5>1, <5>2
      <4>2. CASE h.vaddr # 0
        <5>1. SeenKept' = SeenKept \cup {next}
          BY <1>1, <1>2, <1>3, <1>6, <3>1, <4>2 DEF SeenKept
        <5>2. \A k \in SeenKept : k \in Seen /\ headers[k].vaddr # 0
          BY <1>6 DEF SeenKept
        <5>3. /\ \A k \in SeenKept : bounds.base <= headers[k].vaddr
              /\ SeenKept = {} => bounds.base = 0
              /\ SeenKept # {} => \E k \in SeenKept : bounds.base = headers[k].vaddr
          BY <1>0 DEF Bounded
        <5>4. /\ \A k \in SeenKept : lo <= headers[k].vaddr
              /\ lo <= h.vaddr
              /\ lo = h.vaddr \/ (SeenKept # {} /\ lo = bounds.base)
          BY <1>4, <1>6, <5>2, <5>3
        <5> QED
          BY <1>1, <1>2, <3>1, <5>1, <5>3, <5>4
      <4> QED
        BY <4>1, <4>2
    <3> QED
      BY <3>3, <3>4 DEF Bounded
  <2> QED
    BY <2>1, <2>2
<1>9. Owned'
  BY <1>0, <1>1 DEF Owned, Accepted, First, Behind
<1>10. InPlace' /\ Ended'
  BY <1>1 DEF InPlace, Ended
<1> QED
  BY <1>5, <1>8, <1>9, <1>10 DEF MapIInv

LEMMA BoundsTakenIInv == MapIInv /\ BoundsTaken => MapIInv'
<1> SUFFICES ASSUME MapIInv, BoundsTaken PROVE MapIInv'
  OBVIOUS
<1>0. MapTypeOK /\ Bounded /\ Owned
  BY DEF MapIInv
<1>1. /\ pc = "bounds" /\ pc' = "segments" /\ next > Len(headers) /\ next' = 1
      /\ headers' = headers /\ pte' = pte /\ bounds' = bounds
  BY DEF BoundsTaken
<1>2. headers \in Seq(Header) /\ Len(headers) \in Nat /\ next \in Nat
  BY <1>0 DEF MapTypeOK
<1>3. MapTypeOK'
  BY <1>0, <1>1, <1>2 DEF MapTypeOK
<1>4. Seen' = Seen
  <2>1. \A k \in DOMAIN headers : k < next
    BY <1>1, <1>2
  <2> QED
    BY <1>1, <2>1 DEF Seen, Loads
<1>5. Bounded'
  BY <1>0, <1>1, <1>4 DEF Bounded, SeenKept, EndOf
<1>6. Owned'
  BY <1>0, <1>1 DEF Owned, Accepted, First, Behind
<1>7. InPlace' /\ Ended'
  BY <1>1 DEF InPlace, Ended
<1> QED
  BY <1>3, <1>5, <1>6, <1>7 DEF MapIInv

LEMMA RefuseIInv == MapIInv /\ Refuse => MapIInv'
<1> SUFFICES ASSUME MapIInv, Refuse PROVE MapIInv'
  OBVIOUS
<1>0. MapTypeOK /\ Bounded /\ Owned
  BY DEF MapIInv
<1>1. /\ pc = "segments" /\ pc' = "refused" /\ next' = next
      /\ headers' = headers /\ pte' = pte /\ bounds' = bounds
  BY DEF Refuse
<1>2. MapTypeOK'
  BY <1>0, <1>1 DEF MapTypeOK
<1>3. Seen' = Seen
  BY <1>1 DEF Seen, Loads
<1>4. Bounded'
  BY <1>0, <1>1, <1>3 DEF Bounded, SeenKept, EndOf
<1>5. Owned'
  BY <1>0, <1>1 DEF Owned, Accepted, First, Behind
<1>6. InPlace' /\ Ended'
  BY <1>1 DEF InPlace, Ended
<1> QED
  BY <1>2, <1>4, <1>5, <1>6 DEF MapIInv

\* The tables after an accepted header, and after the stack.
LEMMA HeaderMapped ==
  ASSUME NEW h \in Header, Accepted(h), MapTypeOK
  PROVE  LET m == Mapped(h.vaddr, Phys(h), PhysEnd(h), h.write) IN
         /\ m \in [PageNumber -> Entry]
         /\ \A p \in PageNumber :
              LET k == (p - Start(h)) % Pages IN
              IF k < Given(h) THEN /\ m[p].frame = First(h) + k /\ m[p].write = h.write
                                   /\ First(h) <= m[p].frame /\ m[p].frame < Behind(h)
              ELSE m[p] = pte[p]
<1> DEFINE m == Mapped(h.vaddr, Phys(h), PhysEnd(h), h.write)
           D(p) == (p - Start(h)) % Pages
<1>1. /\ Start(h) \in PageNumber /\ First(h) \in 0 .. Pages - 1 /\ Behind(h) \in 0 .. Pages - 1
      /\ Given(h) = Behind(h) - First(h) /\ h.write \in BOOLEAN /\ Pages \in Nat
  BY InPages, Sizing DEF PageNumber, Header
<1>2. \A p \in PageNumber : D(p) \in 0 .. Pages - 1
  BY <1>1, Distance
<1>3. m = [p \in PageNumber |-> IF D(p) < Given(h)
                                THEN [frame |-> First(h) + D(p), write |-> h.write]
                                ELSE pte[p]]
  BY DEF Mapped, Start, First, Given
<1>4. pte \in [PageNumber -> Entry]
  BY DEF MapTypeOK, Entry
<1> HIDE DEF m, D
<1>5. \A p \in PageNumber : D(p) < Given(h) =>
        /\ First(h) + D(p) \in 0 .. Pages
        /\ First(h) <= First(h) + D(p) /\ First(h) + D(p) < Behind(h)
  BY <1>1, <1>2
<1>6. m \in [PageNumber -> Entry]
  BY <1>1, <1>3, <1>4, <1>5 DEF Entry
<1>7. \A p \in PageNumber :
        IF D(p) < Given(h) THEN /\ m[p].frame = First(h) + D(p) /\ m[p].write = h.write
                                /\ First(h) <= m[p].frame /\ m[p].frame < Behind(h)
        ELSE m[p] = pte[p]
  BY <1>3, <1>5
<1> QED
  BY <1>6, <1>7 DEF m, D

LEMMA StackMapped ==
  ASSUME MapTypeOK
  PROVE  LET m == Mapped(StackVirtual * Page, StackAt * Page,
                         (StackAt + StackPages) * Page, TRUE) IN
         /\ m \in [PageNumber -> Entry]
         /\ \A p \in PageNumber :
              IF p \in StackRange THEN m[p].frame \in StackFrames ELSE m[p] = pte[p]
<1> DEFINE s == StackVirtual
           a == StackAt
           n == StackPages
           e == a + n
           z == 0
           m == Mapped(s * Page, a * Page, e * Page, TRUE)
           D(p) == (p - s) % Pages
<1>1. /\ Page \in Nat \ {0} /\ Pages \in Nat \ {0} /\ n \in Nat /\ a \in Nat /\ s \in Nat
      /\ s \in 0 .. Pages - 1 /\ a \in 0 .. Pages - 1 /\ a + n <= Pages /\ s + n <= Pages
  BY AddressSpaceAssumption
<1>2. e \in Nat /\ z \in 0 .. Page - 1 /\ z = 0 /\ e = a + n
  BY <1>1
<1>3. StackRange = s .. s + n - 1 /\ StackFrames = a .. a + n - 1
  BY DEF StackRange, StackFrames
<1>4. m = [p \in PageNumber |->
             LET k == (p - (s * Page) \div Page) % Pages
             IN IF k < (e * Page - a * Page) \div Page
                THEN [frame |-> (a * Page) \div Page + k, write |-> TRUE]
                ELSE pte[p]]
  BY DEF Mapped
<1> HIDE DEF s, a, n, e, z, m
<1>5. \A q \in Int : (q * Page) \div Page = q
  <2>1. TAKE q \in Int
  <2> DEFINE x == q * Page
  <2>2. x \in Int /\ x = q * Page + z
    BY <1>1, <1>2
  <2> HIDE DEF x
  <2>3. x \div Page = q
    BY <1>1, <1>2, <2>1, <2>2, QuotientIs
  <2> QED
    BY <2>3 DEF x
<1>6. (e * Page - a * Page) \div Page = n
  <2>1. e * Page - a * Page = n * Page
    BY <1>1, <1>2
  <2> QED
    BY <1>1, <1>5, <2>1
<1>7. (s * Page) \div Page = s /\ (a * Page) \div Page = a
  BY <1>1, <1>5
<1>8. m = [p \in PageNumber |-> IF D(p) < n THEN [frame |-> a + D(p), write |-> TRUE] ELSE pte[p]]
  BY <1>4, <1>6, <1>7
<1>9. \A p \in PageNumber : /\ D(p) \in 0 .. Pages - 1
                            /\ D(p) = IF p >= s THEN p - s ELSE p - s + Pages
  BY <1>1, Distance DEF PageNumber
<1> HIDE DEF D
<1>10. \A p \in PageNumber : D(p) < n <=> p \in s .. s + n - 1
  BY <1>1, <1>9 DEF PageNumber
<1>11. \A p \in PageNumber : D(p) < n => a + D(p) \in 0 .. Pages /\ a + D(p) \in a .. a + n - 1
  BY <1>1, <1>9
<1>12. pte \in [PageNumber -> Entry]
  BY DEF MapTypeOK, Entry
<1>13. m \in [PageNumber -> Entry]
  BY <1>8, <1>11, <1>12 DEF Entry
<1>14. \A p \in PageNumber :
         IF p \in StackRange THEN m[p].frame \in StackFrames ELSE m[p] = pte[p]
  BY <1>3, <1>8, <1>10, <1>11
<1> QED
  BY <1>13, <1>14 DEF m, s, a, n, e

\* Byte b of header k and its page are in the address space.
ByteAt(k, b) == (headers[k].vaddr + b) % WordSize
PageAt(k, b) == ByteAt(k, b) \div Page
Right(k, b) ==
  /\ pte[PageAt(k, b)].frame * Page + (ByteAt(k, b) % Page) = (Phys(headers[k]) + b) % WordSize
  /\ pte[PageAt(k, b)].write = headers[k].write

LEMMA ArrivedIs ==
  ASSUME NEW k, NEW b
  PROVE  Arrived(k, b) <=> \/ pc = "done" /\ PageAt(k, b) \in StackRange
                           \/ \E j \in k + 1 .. next - 1 : PageAt(k, b) \in PagesOf(j)
                           \/ Right(k, b)
  BY Zenon DEF Arrived, PageAt, ByteAt, Right

LEMMA ArrivedThen ==
  ASSUME NEW k, NEW b
  PROVE  Arrived(k, b)' <=>
           \/ pc' = "done" /\ PageAt(k, b)' \in StackRange
           \/ \E j \in k + 1 .. next' - 1 : PageAt(k, b)' \in PagesOf(j)'
           \/ Right(k, b)'
  BY Zenon DEF Arrived, PageAt, ByteAt, Right, StackRange

LEMMA PageAtIn ==
  ASSUME NEW k, headers[k] \in Header, NEW b \in Nat
  PROVE  PageAt(k, b) \in PageNumber
<1> DEFINE v == ByteAt(k, b)
           q == v \div Page
           a == headers[k].vaddr + b
<1>1. Page \in Nat \ {0} /\ Pages \in Nat /\ WordSize = Pages * Page
  BY Sizing
<1>2. a \in Nat
  BY HeaderWords, Sizing
<1>3. v \in 0 .. WordSize - 1
  BY <1>2, InWord DEF ByteAt
<1> HIDE DEF v
<1>4. v \in Nat /\ v < Pages * Page
  BY <1>1, <1>3
<1>5. q \in Nat /\ q * Page \in Nat /\ q * Page <= v
  BY <1>1, <1>4, NatDivMod
<1> HIDE DEF q
<1>6. q * Page < Pages * Page
  BY <1>1, <1>4, <1>5
<1>7. q < Pages
  BY <1>1, <1>5, <1>6, TimesOrder
<1> QED
  BY <1>1, <1>5, <1>7 DEF q, v, PageAt, PageNumber

LEMMA MapHeaderIInv == MapIInv /\ MapHeader => MapIInv'
<1> SUFFICES ASSUME MapIInv, MapHeader PROVE MapIInv'
  OBVIOUS
<1> DEFINE h == headers[next]
           D(p) == (p - Start(h)) % Pages
<1>0. MapTypeOK /\ Bounded /\ Owned /\ InPlace
  BY DEF MapIInv
<1>1. /\ pc = "segments" /\ pc' = pc /\ next <= Len(headers) /\ next' = next + 1
      /\ headers' = headers /\ bounds' = bounds /\ Accepted(h)
      /\ pte' = Mapped(h.vaddr, Phys(h), PhysEnd(h), h.write)
  BY DEF MapHeader, Accepted
<1>2. /\ h \in Header /\ next \in DOMAIN headers /\ next + 1 \in 1 .. Len(headers) + 1
      /\ DOMAIN headers = 1 .. Len(headers) /\ next \in Nat /\ Len(headers) \in Nat
      /\ \A k \in DOMAIN headers : headers[k] \in Header
  BY <1>0, <1>1, HeaderAt
<1>3. /\ pte' \in [PageNumber -> Entry]
      /\ \A p \in PageNumber :
           IF D(p) < Given(h)
           THEN /\ pte'[p].frame = First(h) + D(p) /\ pte'[p].write = h.write
                /\ First(h) <= pte'[p].frame /\ pte'[p].frame < Behind(h)
           ELSE pte'[p] = pte[p]
  BY <1>0, <1>1, <1>2, HeaderMapped
<1>4. MapTypeOK'
  BY <1>0, <1>1, <1>2, <1>3 DEF MapTypeOK, Entry
<1>5. Seen' = Seen
  BY <1>1 DEF Seen, Loads
<1>6. Bounded'
  BY <1>0, <1>1, <1>5 DEF Bounded, SeenKept, EndOf
<1> HIDE DEF h, D
<1>7. Owned'
  <2>1. SUFFICES ASSUME NEW p \in PageNumber, pte'[p].write
                 PROVE  \/ \E k \in DOMAIN headers : /\ Accepted(headers[k])
                                                     /\ First(headers[k]) <= pte'[p].frame
                                                     /\ pte'[p].frame < Behind(headers[k])
                        \/ p \in StackRange /\ pte'[p].frame \in StackFrames
    BY <1>1 DEF Owned, Accepted, First, Behind, StackRange, StackFrames, PageNumber
  <2>2. CASE D(p) < Given(h)
    <3>1. First(h) <= pte'[p].frame /\ pte'[p].frame < Behind(h)
      BY <1>3, <2>2
    <3> QED
      BY <1>1, <1>2, <3>1 DEF h
  <2>3. CASE ~(D(p) < Given(h))
    BY <1>0, <1>3, <2>1, <2>3 DEF Owned
  <2> QED
    BY <2>2, <2>3
<1>8. PagesOf(next) = {p \in PageNumber : D(p) < Given(h)}
  BY DEF PagesOf, D, Given, Start, h
<1>9. InPlace'
  <2>1. ASSUME NEW k \in 1 .. next, NEW b \in Nat
        PROVE  /\ PageAt(k, b)' = PageAt(k, b) /\ ByteAt(k, b)' = ByteAt(k, b)
               /\ Accepted(headers[k])' = Accepted(headers[k])
               /\ headers[k] \in Header /\ PageAt(k, b) \in PageNumber
               /\ (Right(k, b)' <=> 
                   /\ pte'[PageAt(k, b)].frame * Page + (ByteAt(k, b) % Page)
                        = (Phys(headers[k]) + b) % WordSize
                   /\ pte'[PageAt(k, b)].write = headers[k].write)
    <3>1. k \in DOMAIN headers
      BY <1>1, <1>2
    <3>2. headers[k] \in Header
      BY <1>2, <3>1
    <3>3. PageAt(k, b) \in PageNumber
      BY <3>2, PageAtIn
    <3> QED
      BY <1>1, <3>2, <3>3 DEF PageAt, ByteAt, Accepted, Right
  <2>2. \A j : PagesOf(j)' = PagesOf(j)
    BY <1>1 DEF PagesOf
  <2>3. SUFFICES ASSUME NEW k \in 1 .. next
                 PROVE  /\ Accepted(headers[k])
                        /\ headers[k].memsz <= WordSize - Page =>
                             \A b \in 0 .. headers[k].memsz - 1 : Arrived(k, b)'
    <3>1. next' - 1 = next
      BY <1>1, <1>2
    <3> QED
      BY <1>1, <3>1 DEF InPlace, Accepted
  <2>4. CASE k = next
    <3>1. Accepted(headers[k])
      BY <1>1, <2>4 DEF h
    <3>2. ASSUME headers[k].memsz <= WordSize - Page, NEW b \in 0 .. headers[k].memsz - 1
          PROVE  Arrived(k, b)'
      <4> DEFINE v == (h.vaddr + b) % WordSize
                 p == v \div Page
      <4>1. h.memsz <= WordSize - Page /\ b \in 0 .. h.memsz - 1
        BY <2>4, <3>2 DEF h
      <4>2. /\ p \in PageNumber /\ D(p) < Given(h)
            /\ (First(h) + D(p)) * Page + (v % Page) = (Phys(h) + b) % WordSize
        BY <1>1, <1>2, <4>1, ByteArrives DEF D
      <4>3. pte'[p].frame = First(h) + D(p) /\ pte'[p].write = h.write
        BY <1>3, <4>2
      <4>4. v = ByteAt(k, b) /\ p = PageAt(k, b)
        BY <2>4 DEF ByteAt, PageAt, h
      <4>5. b \in Nat
        BY <1>2, <4>1, HeaderWords
      <4> HIDE DEF v, p
      <4>6. /\ pte'[p].frame * Page + (v % Page) = (Phys(h) + b) % WordSize
            /\ pte'[p].write = h.write
        BY <4>2, <4>3
      <4>7. headers[k] = h
        BY <2>4 DEF h
      <4>8. Right(k, b)'
        BY <2>1, <4>4, <4>5, <4>6, <4>7
      <4> QED
        BY <4>8, ArrivedThen
    <3> QED
      BY <3>1, <3>2
  <2>5. CASE k # next
    <3>1. k \in 1 .. next - 1
      BY <1>2, <2>5
    <3>2. Accepted(headers[k])
      BY <1>0, <1>1, <3>1 DEF InPlace
    <3>3. ASSUME headers[k].memsz <= WordSize - Page, NEW b \in 0 .. headers[k].memsz - 1
          PROVE  Arrived(k, b)'
      <4> DEFINE p == PageAt(k, b)
      <4>1. k \in DOMAIN headers /\ b \in Nat
        BY <1>2, <3>1, HeaderWords
      <4>2. p \in PageNumber /\ PageAt(k, b)' = p /\ ByteAt(k, b)' = ByteAt(k, b)
        BY <2>1, <4>1
      <4>3. \/ \E j \in k + 1 .. next - 1 : p \in PagesOf(j)
            \/ Right(k, b)
        <5>1. Arrived(k, b)
          BY <1>0, <1>1, <3>1, <3>3 DEF InPlace
        <5> QED
          BY <1>1, <5>1, ArrivedIs
      <4>4. Right(k, b)' <=> /\ pte'[p].frame * Page + (ByteAt(k, b) % Page)
                                  = (Phys(headers[k]) + b) % WordSize
                             /\ pte'[p].write = headers[k].write
        BY <2>1, <4>1
      <4>5. CASE \E j \in k + 1 .. next - 1 : p \in PagesOf(j)
        <5>1. PICK j \in k + 1 .. next - 1 : p \in PagesOf(j)
          BY <4>5
        <5>2. j \in k + 1 .. next' - 1 /\ p \in PagesOf(j)'
          BY <1>1, <1>2, <2>2, <5>1
        <5>3. \E i \in k + 1 .. next' - 1 : PageAt(k, b)' \in PagesOf(i)'
          BY <4>2, <5>2
        <5> QED
          BY <5>3, ArrivedThen
      <4>6. CASE Right(k, b) /\ ~(D(p) < Given(h))
        <5>1. pte'[p] = pte[p]
          BY <1>3, <4>2, <4>6
        <5>2. Right(k, b)'
          BY <4>4, <4>6, <5>1 DEF Right
        <5> QED
          BY <5>2, ArrivedThen
      <4>7. CASE D(p) < Given(h)
        <5>1. next \in k + 1 .. next' - 1
          BY <1>1, <1>2, <3>1
        <5>2. p \in PagesOf(next)
          BY <1>8, <4>2, <4>7
        <5>3. \E i \in k + 1 .. next' - 1 : PageAt(k, b)' \in PagesOf(i)'
          BY <2>2, <4>2, <5>1, <5>2
        <5> QED
          BY <5>3, ArrivedThen
      <4> QED
        BY <4>3, <4>5, <4>6, <4>7
    <3> QED
      BY <3>2, <3>3
  <2> QED
    BY <2>4, <2>5
<1>10. Ended'
  BY <1>1 DEF Ended
<1> QED
  BY <1>4, <1>6, <1>7, <1>9, <1>10 DEF MapIInv

LEMMA MapStackIInv == MapIInv /\ MapStack => MapIInv'
<1> SUFFICES ASSUME MapIInv, MapStack PROVE MapIInv'
  OBVIOUS
<1>0. MapTypeOK /\ Bounded /\ Owned /\ InPlace
  BY DEF MapIInv
<1>1. /\ pc = "segments" /\ pc' = "done" /\ next > Len(headers) /\ next' = next
      /\ headers' = headers /\ bounds' = bounds
      /\ pte' = Mapped(StackVirtual * Page, StackAt * Page,
                       (StackAt + StackPages) * Page, TRUE)
  BY DEF MapStack
<1>2. /\ headers \in Seq(Header) /\ Len(headers) \in Nat /\ next \in 1 .. Len(headers) + 1
      /\ DOMAIN headers = 1 .. Len(headers) /\ next = Len(headers) + 1
  BY <1>0, <1>1 DEF MapTypeOK
<1>3. /\ pte' \in [PageNumber -> Entry]
      /\ \A p \in PageNumber :
           IF p \in StackRange THEN pte'[p].frame \in StackFrames ELSE pte'[p] = pte[p]
  BY <1>0, <1>1, StackMapped
<1>4. MapTypeOK'
  BY <1>0, <1>1, <1>3 DEF MapTypeOK, Entry
<1>5. Seen' = Seen
  BY <1>1 DEF Seen, Loads
<1>6. Bounded'
  BY <1>0, <1>1, <1>5 DEF Bounded, SeenKept, EndOf
<1>7. Owned'
  <2>1. SUFFICES ASSUME NEW p \in PageNumber, pte'[p].write
                 PROVE  \/ \E k \in DOMAIN headers : /\ Accepted(headers[k])
                                                     /\ First(headers[k]) <= pte'[p].frame
                                                     /\ pte'[p].frame < Behind(headers[k])
                        \/ p \in StackRange /\ pte'[p].frame \in StackFrames
    BY <1>1 DEF Owned, Accepted, First, Behind, StackRange, StackFrames, PageNumber
  <2> QED
    BY <1>0, <1>3, <2>1 DEF Owned
<1>8. InPlace'
  <2>1. SUFFICES ASSUME NEW k \in 1 .. next - 1
                 PROVE  /\ Accepted(headers[k])
                        /\ headers[k].memsz <= WordSize - Page =>
                             \A b \in 0 .. headers[k].memsz - 1 : Arrived(k, b)'
    BY <1>1 DEF InPlace, Accepted
  <2>2. Accepted(headers[k])
    BY <1>0, <1>1, <2>1 DEF InPlace
  <2>3. ASSUME headers[k].memsz <= WordSize - Page, NEW b \in 0 .. headers[k].memsz - 1
        PROVE  Arrived(k, b)'
    <3> DEFINE p == PageAt(k, b)
    <3>1. headers[k] \in Header
      BY <1>2, <2>1
    <3>2. b \in Nat
      BY <3>1, HeaderWords
    <3>3. p \in PageNumber /\ PageAt(k, b)' = p /\ ByteAt(k, b)' = ByteAt(k, b)
      BY <1>1, <3>1, <3>2, PageAtIn DEF PageAt, ByteAt
    <3>4. \/ \E j \in k + 1 .. next - 1 : p \in PagesOf(j)
          \/ Right(k, b)
      <4>1. Arrived(k, b)
        BY <1>0, <1>1, <2>1, <2>3 DEF InPlace
      <4> QED
        BY <1>1, <4>1, ArrivedIs
    <3>5. CASE p \in StackRange
      BY <1>1, <3>3, <3>5, ArrivedThen
    <3>6. CASE \E j \in k + 1 .. next - 1 : p \in PagesOf(j)
      <4>1. \A j : PagesOf(j)' = PagesOf(j)
        BY <1>1 DEF PagesOf
      <4>2. \E j \in k + 1 .. next' - 1 : PageAt(k, b)' \in PagesOf(j)'
        BY <1>1, <3>3, <3>6, <4>1
      <4> QED
        BY <4>2, ArrivedThen
    <3>7. CASE Right(k, b) /\ p \notin StackRange
      <4>1. pte'[p] = pte[p]
        BY <1>3, <3>3, <3>7
      <4>2. Right(k, b)'
        BY <1>1, <3>3, <3>7, <4>1 DEF Right
      <4> QED
        BY <4>2, ArrivedThen
    <3> QED
      BY <3>4, <3>5, <3>6, <3>7
  <2> QED
    BY <2>2, <2>3
<1>9. Ended'
  BY <1>1, <1>2 DEF Ended
<1> QED
  BY <1>4, <1>6, <1>7, <1>8, <1>9 DEF MapIInv

LEMMA MapNextIInv == MapIInv /\ [MapNext]_mapVars => MapIInv'
<1> SUFFICES ASSUME MapIInv, [MapNext]_mapVars PROVE MapIInv'
  OBVIOUS
<1>1. CASE UNCHANGED mapVars
  <2>1. /\ headers' = headers /\ next' = next /\ pte' = pte /\ bounds' = bounds
        /\ pc' = pc /\ StackRange' = StackRange
    BY <1>1 DEF mapVars, StackRange
  <2>2. \A k, b : Arrived(k, b)' = Arrived(k, b)
    BY <2>1 DEF Arrived, PagesOf
  <2>3. MapTypeOK' /\ Ended'
    BY <2>1 DEF MapIInv, MapTypeOK, Ended
  <2>4. Bounded'
    BY <2>1 DEF MapIInv, Bounded, Seen, SeenKept, Loads, EndOf
  <2>5. Owned'
    BY <2>1 DEF MapIInv, Owned, Accepted, First, Behind
  <2>6. InPlace'
    BY <2>1, <2>2 DEF MapIInv, InPlace, Accepted
  <2> QED
    BY <2>3, <2>4, <2>5, <2>6 DEF MapIInv
<1>2. CASE MapNext
  BY <1>2, TakeBoundsIInv, BoundsTakenIInv, MapHeaderIInv, RefuseIInv, MapStackIInv
     DEF MapNext
<1> QED
  BY <1>1, <1>2

LEMMA AlwaysMapIInv == MapSpec => []MapIInv
  BY MapInitIInv, MapNextIInv, PTL DEF MapSpec

-----------------------------------------------------------------------------
\* When a program starts, its segments' bytes are where their headers want
\* them, and the bounds of the file were found (elf_process_pheaders,
\* process_map_elf, paging_map_to).
THEOREM MappingArrives == MapSpec => []SegmentsArrive
<1>1. MapIInv => SegmentsArrive
  <2> SUFFICES ASSUME MapIInv PROVE SegmentsArrive
    OBVIOUS
  <2>0. MapTypeOK /\ Bounded /\ InPlace /\ Ended
    BY DEF MapIInv
  <2>1. /\ headers \in Seq(Header) /\ Len(headers) \in Nat /\ DOMAIN headers = 1 .. Len(headers)
    BY <2>0 DEF MapTypeOK
  <2>2. BoundsRight
    <3>1. CASE pc = "bounds"
      BY <3>1 DEF BoundsRight
    <3>2. CASE pc # "bounds"
      <4>1. Seen = Loads /\ SeenKept = Kept
        BY <3>2 DEF Seen, SeenKept, Kept
      <4>2. /\ \A k \in Kept : bounds.base <= headers[k].vaddr
            /\ bounds.base \in IF Kept = {} THEN {0} ELSE {headers[k].vaddr : k \in Kept}
        BY <2>0, <4>1 DEF Bounded
      <4>3. /\ \A e \in {EndOf(k) : k \in Loads} : e <= bounds.end
            /\ bounds.end \in IF Loads = {} THEN {0} ELSE {EndOf(k) : k \in Loads}
        BY <2>0, <4>1 DEF Bounded
      <4> QED
        BY <4>2, <4>3 DEF BoundsRight, EndOf
    <3> QED
      BY <3>1, <3>2
  <2>3. pc = "done" =>
          \A k \in DOMAIN headers : headers[k].memsz <= WordSize - Page =>
            \A b \in 0 .. headers[k].memsz - 1 : Arrived(k, b)
    BY <2>0, <2>1 DEF InPlace, Ended
  <2> QED
    BY <2>0, <2>2, <2>3 DEF SegmentsArrive
<1> QED
  BY <1>1, AlwaysMapIInv, PTL

\* Memory a segment takes is the file's, if it claims no more than the pages
\* of the file have behind its offset.
LEMMA WithinFile ==
  ASSUME NEW h \in Header, Accepted(h), h.offset + h.memsz <= Page * FilePages,
         NEW f \in Nat, First(h) <= f, f < Behind(h)
  PROVE  f \in ImagePages
<1> DEFINE a == First(h)
           n == Needs(h)
           e == Behind(h)
           o == h.offset \div Page
           r == h.offset % Page
           g == ImageAt + o
           i == ImageAt
           w == FilePages
<1>1. /\ Page \in Nat \ {0} /\ Pages \in Nat \ {0} /\ i \in Nat /\ w \in Nat /\ i + w <= Pages
  BY Sizing
<1>2. /\ a \in 0 .. Pages - 1 /\ e \in 0 .. Pages - 1 /\ n \in Nat /\ e = (a + n) % Pages
      /\ Phys(h) = a * Page /\ n * Page < h.memsz + Page
  BY InPages DEF PageNumber
<1>3. h.offset \in Nat /\ h.memsz \in Nat
  BY HeaderWords
<1>4. o \in Nat /\ r \in 0 .. Page - 1 /\ h.offset = o * Page + r
  BY <1>1, <1>3, NatDivMod
<1> HIDE DEF a, n, e, o, r, i, w
<1>5. /\ g \in Nat /\ g * Page = i * Page + o * Page /\ i * Page \in Nat /\ o * Page \in Nat
      /\ n * Page \in Nat /\ w * Page \in Nat /\ Page * w = w * Page
  BY <1>1, <1>2, <1>4 DEF i
<1>6. i * Page + h.offset = g * Page + r
  BY <1>1, <1>3, <1>4, <1>5
<1>7. a = g % Pages /\ r = 0
  <2>1. (g * Page + r) % WordSize = (g % Pages) * Page + r /\ g % Pages \in PageNumber
    BY <1>4, <1>5, WrapsByPages
  <2> DEFINE p == g % Pages
             z == 0
             x == a * Page
  <2>2. p \in Int
    BY <2>1 DEF PageNumber
  <2>3. x = p * Page + r
    BY <1>2, <1>6, <2>1 DEF Phys, i
  <2>4. x \in Int /\ x = a * Page + z /\ z \in 0 .. Page - 1 /\ z = 0
    BY <1>1, <1>2
  <2> HIDE DEF p, z, x
  <2>5. x \div Page = p /\ x % Page = r
    BY <1>1, <1>4, <2>2, <2>3, <2>4, QuotientIs
  <2>6. x \div Page = a /\ x % Page = z
    <3>1. a \in Int
      BY <1>2
    <3> QED
      BY <1>1, <2>4, <3>1, QuotientIs
  <2> QED
    BY <2>4, <2>5, <2>6 DEF p
<1>8. o + n <= w
  <2> DEFINE s == o + n
  <2>1. s \in Nat /\ s * Page = o * Page + n * Page
    BY <1>1, <1>2, <1>4
  <2>2. s * Page < w * Page + Page
    BY <1>1, <1>3, <1>4, <1>2, <1>5, <1>7, <2>1 DEF w
  <2> HIDE DEF s
  <2>3. ~(w < s)
    <3>1. SUFFICES ASSUME w < s PROVE FALSE
      OBVIOUS
    <3>2. w * Page + Page <= s * Page
      BY <1>1, <2>1, <3>1, TimesOrder
    <3> QED
      BY <1>1, <1>5, <2>1, <2>2, <3>2
  <2> QED
    BY <1>1, <2>1, <2>3 DEF s
<1>9. g = i + o
  BY DEF i
<1> HIDE DEF g
<1>10. CASE g < Pages
  <2>1. a = g
    BY <1>1, <1>5, <1>7, <1>10
  <2>2. a \in PageNumber /\ n \in 0 .. Pages - 1 =>
          e = IF a + n < Pages THEN a + n ELSE a + n - Pages
    BY <1>2, SumInPages
  <2>3. a \in PageNumber
    BY <1>2 DEF PageNumber
  <2>4. a + n <= i + w
    BY <1>1, <1>2, <1>4, <1>8, <1>9, <2>1
  <2>5. CASE n <= Pages - 1
    <3>1. e <= a + n
      BY <1>1, <1>2, <2>2, <2>3, <2>5
    <3>2. i <= f /\ f <= i + w - 1
      BY <1>1, <1>2, <1>4, <1>9, <2>1, <2>4, <3>1 DEF a, e
    <3> QED
      BY <1>1, <3>2 DEF ImagePages, i, w
  <2>6. CASE n > Pages - 1
    <3>1. n = Pages /\ a = 0
      BY <1>1, <1>2, <2>4, <2>6
    <3>2. e = 0
      <4> DEFINE z == a + n
      <4>1. z \in Int /\ z = 1 * Pages + 0 /\ z = Pages
        BY <1>1, <3>1
      <4> HIDE DEF z
      <4>2. z % Pages = 0
        BY <1>1, <4>1
      <4> QED
        BY <1>2, <4>2 DEF z
    <3> QED
      BY <3>2 DEF e
  <2> QED
    BY <1>1, <1>2, <2>5, <2>6
<1>11. CASE g >= Pages
  <2>1. g = Pages /\ n = 0
    BY <1>1, <1>2, <1>4, <1>8, <1>9, <1>11
  <2>2. e = a % Pages
    BY <1>2, <2>1
  <2>3. e = a
    BY <1>1, <1>2, <2>2
  <2> QED
    BY <1>2, <2>3 DEF a, e
<1> QED
  BY <1>1, <1>5, <1>10, <1>11

\* A program writes to its file and its stack only, unless a segment claims
\* more memory than its file gives it (process_map_elf maps p_memsz bytes).
THEOREM MappingWrites == MapSpec => []WritesOnlyFileAndStack
<1>1. MapIInv => WritesOnlyFileAndStack
  <2> SUFFICES ASSUME MapIInv,
                      NEW p \in PageNumber, pte[p].write, pte[p].frame \notin ImagePages,
                      ~(p \in StackRange /\ pte[p].frame \in StackFrames)
               PROVE  \E k \in DOMAIN headers :
                        headers[k].offset + headers[k].memsz > Page * FilePages
    BY DEF WritesOnlyFileAndStack
  <2>1. PICK k \in DOMAIN headers : /\ Accepted(headers[k])
                                    /\ First(headers[k]) <= pte[p].frame
                                    /\ pte[p].frame < Behind(headers[k])
    BY DEF MapIInv, Owned
  <2>2. headers[k] \in Header /\ pte[p].frame \in Nat
    <3>1. headers \in Seq(Header) /\ pte \in [PageNumber -> Entry]
      BY DEF MapIInv, MapTypeOK, Entry
    <3> QED
      BY <2>1, <3>1 DEF Entry
  <2>3. ~(headers[k].offset + headers[k].memsz <= Page * FilePages)
    BY <2>1, <2>2, WithinFile
  <2>4. headers[k].offset + headers[k].memsz > Page * FilePages
    <3>1. headers[k].offset \in Nat /\ headers[k].memsz \in Nat /\ Page * FilePages \in Nat
      BY <2>2, HeaderWords, Sizing
    <3> QED
      BY <2>3, <3>1
  <2> QED
    BY <2>4
<1> QED
  BY <1>1, AlwaysMapIInv, PTL
=============================================================================
