---------------------------- MODULE LoaderProofs ----------------------------
(***************************************************************************)
(* Proofs about Loader, for every page size, file and command line: no     *)
(* user page is lost on any path, the segments of a loaded program are in  *)
(* memory as its headers say, and its stack holds its arguments as main    *)
(* expects them.                                                           *)
(***************************************************************************)
EXTENDS Loader, FiniteSetTheorems, WellFoundedInduction, TLAPS

(***************************************************************************)
(* Pages.                                                                  *)
(***************************************************************************)

Labels == {"open", "header", "phdr", "segment", "read", "install", "stack", "token", "null",
           "address", "argc", "return", "deny", "loaded", "failed", "panic"}

Pages ==
  /\ taken \in Nat /\ IsFiniteSet(DOMAIN pagedir)
  /\ pc \in Labels
  /\ PagesMapped

\* Mapping a page that is not mapped.
LEMMA Mapped ==
  ASSUME NEW upage, NEW page, Installs(upage, page)
  PROVE  /\ upage \notin DOMAIN pagedir /\ DOMAIN pagedir' = DOMAIN pagedir \cup {upage}
         /\ pagedir'[upage] = page
         /\ \A p \in DOMAIN pagedir : pagedir'[p] = pagedir[p]
  BY DEF Installs

LEMMA PagesInit == Init => Pages
  <1> SUFFICES ASSUME Init PROVE Pages
    OBVIOUS
  <1>1. DOMAIN pagedir = {}
    BY DEF Init
  <1> QED
    BY <1>1, FS_EmptySet DEF Init, Pages, PagesMapped, Labels, InHand

\* The pushing of the arguments takes no page.
LEMMA PushKeeps ==
  ASSUME Pages, NEW size, NEW items, NEW label \in Labels \ InHand, Push(size, items, label),
         pc \notin InHand, UNCHANGED image
  PROVE  Pages'
  <1>1. pc' \in Labels \ InHand
    BY DEF Push, Labels, InHand
  <1> QED
    BY <1>1 DEF Pages, PagesMapped, image

LEMMA PagesNext ==
  ASSUME Pages, [Next]_vars
  PROVE  Pages'
  <1> DEFINE n == Cardinality(DOMAIN pagedir)
  <1>1. n \in Nat /\ taken = n + (IF pc \in InHand THEN 1 ELSE 0) /\ taken \in Nat /\ pc \in Labels
        /\ IsFiniteSet(DOMAIN pagedir)
    BY FS_CardinalityType DEF Pages, PagesMapped
  <1>2. ASSUME UNCHANGED <<taken, pagedir>>, pc' \in Labels, pc' \in InHand <=> pc \in InHand
        PROVE  Pages'
    BY <1>2 DEF Pages, PagesMapped
  <1>3. ASSUME UNCHANGED pagedir, pc' \in Labels,
               \/ pc \in InHand /\ pc' \notin InHand /\ taken' = taken - 1
               \/ pc \notin InHand /\ pc' \in InHand /\ taken' = taken + 1
        PROVE  Pages'
    BY <1>1, <1>3 DEF Pages, PagesMapped
  <1>4. ASSUME NEW upage, NEW page, Installs(upage, page), UNCHANGED taken,
               pc \in InHand, pc' \in Labels \ InHand
        PROVE  Pages'
    <2>1. upage \notin DOMAIN pagedir /\ DOMAIN pagedir' = DOMAIN pagedir \cup {upage}
      BY <1>4, Mapped
    <2>2. IsFiniteSet(DOMAIN pagedir') /\ Cardinality(DOMAIN pagedir') = n + 1
      BY <1>1, <2>1, FS_AddElement
    <2> QED
      BY <1>1, <1>4, <2>2 DEF Pages, PagesMapped
  <1>5. CASE Open \/ ReadHeader \/ NextHeader \/ Finish
    BY <1>2, <1>5 DEF Open, ReadHeader, NextHeader, Finish, Fail, image, Labels, InHand
  <1>6. CASE GetPage
    BY <1>1, <1>2, <1>3, <1>6 DEF GetPage, Fail, Labels, InHand
  <1>7. CASE ReadPage
    BY <1>1, <1>2, <1>3, <1>7 DEF ReadPage, Fail, Labels, InHand
  <1>8. CASE InstallPage
    <2>1. CASE Fail /\ Frees /\ UNCHANGED pagedir
      BY <1>3, <1>8, <2>1 DEF InstallPage, Fail, Frees, Labels, InHand
    <2>2. CASE /\ Installs(segment.upage,
                           [ofs |-> segment.ofs, read |-> PageReadBytes, writable |-> segment.writable])
               /\ pc' = "segment" /\ UNCHANGED taken
      BY <1>4, <1>8, <2>2 DEF InstallPage, Labels, InHand
    <2> QED
      BY <1>8, <2>1, <2>2 DEF InstallPage
  <1>9. CASE GetStackPage
    BY <1>1, <1>2, <1>3, <1>9 DEF GetStackPage, Fail, Labels, InHand
  <1>10. CASE InstallStack
    <2>1. CASE Fail /\ Frees /\ UNCHANGED pagedir
      BY <1>3, <1>10, <2>1 DEF InstallStack, Fail, Frees, Labels, InHand
    <2>2. CASE /\ Installs(StackPage, [ofs |-> 0, read |-> 0, writable |-> TRUE])
               /\ pc' = "token" /\ UNCHANGED taken
      BY <1>4, <1>10, <2>2 DEF InstallStack, Labels, InHand
    <2> QED
      BY <1>10, <2>1, <2>2 DEF InstallStack
  <1>11. CASE PushToken
    BY <1>11, PushKeeps DEF PushToken, Labels, InHand
  <1>12. CASE PushAlign
    BY <1>12, PushKeeps DEF PushAlign, Labels, InHand
  <1>13. CASE PushNull \/ PushAddress
    BY <1>13, PushKeeps DEF PushNull, PushAddress, PushWord, Labels, InHand
  <1>14. CASE PushLast
    BY <1>14, PushKeeps DEF PushLast, PushWord, Labels, InHand
  <1>15. CASE UNCHANGED vars
    BY <1>2, <1>1, <1>15 DEF vars, image
  <1> QED
    BY <1>5, <1>6, <1>7, <1>8, <1>9, <1>10, <1>11, <1>12, <1>13, <1>14, <1>15 DEF Next

\* Wherever load fails, each user page it took is in the page directory, and no other.
THEOREM NoPageLost == Spec => []PagesMapped
  <1>1. Pages => PagesMapped
    BY DEF Pages
  <1> QED
    BY <1>1, PagesInit, PagesNext, PTL DEF Spec

(***************************************************************************)
(* Addresses and pages.                                                    *)
(***************************************************************************)

\* Quotient and remainder.
LEMMA Divided ==
  ASSUME NEW a \in Nat
  PROVE  /\ a \div PGSIZE \in Nat /\ a % PGSIZE \in 0..(PGSIZE - 1)
         /\ a = (a \div PGSIZE) * PGSIZE + (a % PGSIZE)
  BY LoaderAssumption

\* Multiples of PGSIZE.
LEMMA Multiples ==
  ASSUME NEW u \in Int, NEW v \in Int
  PROVE  /\ u < v => u * PGSIZE + PGSIZE <= v * PGSIZE
         /\ (u + 1) * PGSIZE = u * PGSIZE + PGSIZE
         /\ u * PGSIZE \in Int /\ (u \in Nat => u * PGSIZE \in Nat)
  BY LoaderAssumption

LEMMA MultipleNat ==
  ASSUME NEW u \in Nat
  PROVE  u * PGSIZE \in Nat
  BY LoaderAssumption

LEMMA Distributes ==
  ASSUME NEW u \in Int, NEW v \in Int
  PROVE  (u + v) * PGSIZE = u * PGSIZE + v * PGSIZE
  <1>1. PGSIZE \in Int
    BY LoaderAssumption
  <1> QED
    BY <1>1

\* The page of an address, and its place there.
LEMMA PageOf ==
  ASSUME NEW u \in Nat, NEW a \in Nat, u * PGSIZE <= a, a < u * PGSIZE + PGSIZE
  PROVE  a \div PGSIZE = u /\ a % PGSIZE = a - u * PGSIZE
  <1> DEFINE q == a \div PGSIZE
             r == a % PGSIZE
             B == u * PGSIZE
             C == q * PGSIZE
  <1>1. q \in Nat /\ r \in 0..(PGSIZE - 1) /\ a = C + r
    BY Divided
  <1>2. B \in Int /\ C \in Int /\ PGSIZE \in Int
    BY <1>1, Multiples, LoaderAssumption
  <1>3. ~(q < u)
    <2> SUFFICES ASSUME q < u PROVE FALSE
      OBVIOUS
    <2>1. C + PGSIZE <= B
      BY <1>1, Multiples
    <2> HIDE DEF q, r, B, C
    <2> QED
      BY <1>1, <1>2, <2>1, u * PGSIZE <= a DEF B
  <1>4. ~(u < q)
    <2> SUFFICES ASSUME u < q PROVE FALSE
      OBVIOUS
    <2>1. B + PGSIZE <= C
      BY <1>1, Multiples
    <2> HIDE DEF q, r, B, C
    <2> QED
      BY <1>1, <1>2, <2>1, a < u * PGSIZE + PGSIZE DEF B
  <1>5. q = u
    <2> HIDE DEF q, r, B, C
    <2> QED
      BY <1>1, <1>3, <1>4
  <1> QED
    BY <1>1, <1>2, <1>5

\* ROUND_UP goes to the end of a page, past the address.
LEMMA RoundedUp ==
  ASSUME NEW n \in Nat
  PROVE  \E e \in Nat : Round_up(n) = e * PGSIZE /\ n <= e * PGSIZE
  <1> DEFINE e == (n + PGSIZE - 1) \div PGSIZE
  <1>1. n + PGSIZE - 1 \in Nat
    BY LoaderAssumption
  <1>2. e \in Nat /\ n + PGSIZE - 1 <= e * PGSIZE + PGSIZE - 1
    BY <1>1, Divided, LoaderAssumption
  <1>3. Round_up(n) = e * PGSIZE
    BY DEF Round_up
  <1>4. n <= e * PGSIZE
    <2>1. e * PGSIZE \in Nat /\ PGSIZE \in Nat
      BY <1>2, MultipleNat, LoaderAssumption
    <2> DEFINE E == e * PGSIZE
    <2>2. n + PGSIZE - 1 <= E + PGSIZE - 1 /\ E \in Nat
      BY <1>2, <2>1
    <2> HIDE DEF E
    <2>3. n <= E
      BY <2>1, <2>2
    <2> QED
      BY <2>3 DEF E
  <1> HIDE DEF e
  <1> QED
    BY <1>2, <1>3, <1>4

(***************************************************************************)
(* Segments: what load_segment has done of one, and when it is done.       *)
(***************************************************************************)

\* The addresses of a segment.
Span(h) == h.p_vaddr..(h.p_vaddr + h.p_memsz - 1)

\* With the pages dir, the byte at a of the segment h is where and what it should be.
RightAt(dir, h, a) ==
  /\ a \div PGSIZE \in DOMAIN dir
  /\ dir[a \div PGSIZE].writable = h.writable
  /\ (IF a % PGSIZE < dir[a \div PGSIZE].read
        THEN <<"file", dir[a \div PGSIZE].ofs + (a % PGSIZE)>> ELSE Zero)
       = IF a < h.p_vaddr + h.p_filesz THEN <<"file", h.p_offset + a - h.p_vaddr>> ELSE Zero

Placed(dir, h) == \A a \in Span(h) : RightAt(dir, h, a)

SegmentType == [ofs : Nat, upage : Nat, read : Nat, zero : Nat, writable : BOOLEAN]

\* load_segment has done the pages of h before s.upage.
Placing(dir, s, h) ==
  /\ s \in SegmentType
  /\ \E e \in Nat : s.read + s.zero = e * PGSIZE - s.upage * PGSIZE
                    /\ h.p_vaddr + h.p_memsz <= e * PGSIZE
  /\ s.writable = h.writable
  /\ s.read > 0 => /\ s.read = h.p_vaddr + h.p_filesz - s.upage * PGSIZE
                   /\ s.ofs = h.p_offset - h.p_vaddr + s.upage * PGSIZE
  /\ s.read = 0 /\ h.p_filesz > 0 => h.p_vaddr + h.p_filesz <= s.upage * PGSIZE
  /\ \A a \in Span(h) : a \div PGSIZE < s.upage => RightAt(dir, h, a)

\* The page that a round maps, and the variables after it.
PageWith(s, n) == [ofs |-> s.ofs, read |-> n, writable |-> s.writable]
Advanced(s, n) ==
  [s EXCEPT !.ofs = @ + n, !.upage = @ + 1, !.read = @ - n, !.zero = @ - (PGSIZE - n)]

\* The members of a header.
LEMMA HeaderType ==
  ASSUME NEW h \in Header
  PROVE  /\ h.p_offset \in Nat /\ h.p_vaddr \in Nat /\ h.p_filesz \in Nat /\ h.p_memsz \in Nat
         /\ h.writable \in BOOLEAN
         /\ Span(h) \subseteq Nat
  <1>1. AllPages * PGSIZE \in Nat
    BY LoaderAssumption
  <1>2. Unsigned \subseteq Nat
    BY <1>1 DEF Unsigned
  <1>3. h.p_offset \in Nat /\ h.p_vaddr \in Nat /\ h.p_filesz \in Nat /\ h.p_memsz \in Nat
        /\ h.writable \in BOOLEAN
    BY <1>2 DEF Header
  <1> QED
    BY <1>3 DEF Span

\* What is in place stays so when a page is added.
LEMMA PlacedKept ==
  ASSUME NEW dir, NEW dirn, NEW h,
         \A p \in DOMAIN dir : p \in DOMAIN dirn /\ dirn[p] = dir[p]
  PROVE  /\ \A a : RightAt(dir, h, a) => RightAt(dirn, h, a)
         /\ Placed(dir, h) => Placed(dirn, h)
  BY DEF RightAt, Placed

\* What load computes of a valid header is where load_segment begins.
LEMMA SegmentBegins ==
  ASSUME NEW dir, NEW h \in Header, h.p_offset % PGSIZE = h.p_vaddr % PGSIZE,
         h.p_memsz >= h.p_filesz
  PROVE  Placing(dir, [ofs |-> (h.p_offset \div PGSIZE) * PGSIZE, upage |-> h.p_vaddr \div PGSIZE,
                       read |-> ReadBytes(h), zero |-> ZeroBytes(h), writable |-> h.writable], h)
  <1> DEFINE b == h.p_vaddr % PGSIZE
             u == h.p_vaddr \div PGSIZE
             O == (h.p_offset \div PGSIZE) * PGSIZE
             U == u * PGSIZE
             s == [ofs |-> O, upage |-> u, read |-> ReadBytes(h), zero |-> ZeroBytes(h),
                   writable |-> h.writable]
  <1>1. h.p_offset \in Nat /\ h.p_vaddr \in Nat /\ h.p_filesz \in Nat /\ h.p_memsz \in Nat
        /\ h.writable \in BOOLEAN /\ Span(h) \subseteq Nat /\ PGSIZE \in Nat
    BY HeaderType, LoaderAssumption
  <1>2. u \in Nat /\ b \in 0..(PGSIZE - 1) /\ h.p_vaddr = U + b
    BY <1>1, Divided
  <1>3. h.p_offset \div PGSIZE \in Nat /\ h.p_offset = O + b
    BY <1>1, Divided
  <1>4. O \in Nat /\ U \in Nat
    BY <1>2, <1>3, Multiples
  <1>5. PICK k \in Nat : Round_up(b + h.p_memsz) = k * PGSIZE /\ b + h.p_memsz <= k * PGSIZE
    <2>1. b + h.p_memsz \in Nat
      BY <1>1, <1>2
    <2> HIDE DEF b
    <2> QED
      BY <2>1, RoundedUp
  <1>6. k * PGSIZE \in Nat
    BY Multiples
  <1>7. (u + k) * PGSIZE = U + k * PGSIZE
    BY <1>2, Distributes
  <1>8. ReadBytes(h) = (IF h.p_filesz > 0 THEN b + h.p_filesz ELSE 0)
        /\ ZeroBytes(h) = k * PGSIZE - ReadBytes(h)
    BY <1>5 DEF ReadBytes, ZeroBytes
  <1> DEFINE K == k * PGSIZE
  <1>9. \A a \in Span(h) : ~(a \div PGSIZE < u)
    <2> SUFFICES ASSUME NEW a \in Span(h), a \div PGSIZE < u PROVE FALSE
      OBVIOUS
    <2> DEFINE A == (a \div PGSIZE) * PGSIZE
    <2>1. a \in Nat /\ h.p_vaddr <= a
      BY <1>1 DEF Span
    <2>2. a \div PGSIZE \in Nat /\ a % PGSIZE \in 0..(PGSIZE - 1) /\ a = A + (a % PGSIZE)
      BY <2>1, Divided
    <2>3. A + PGSIZE <= U /\ A \in Nat
      BY <1>2, <2>2, Multiples
    <2> HIDE DEF A, U, b, u
    <2> QED
      BY <1>1, <1>2, <1>4, <2>1, <2>2, <2>3
  <1>10. ReadBytes(h) \in Nat /\ ZeroBytes(h) \in Nat /\ ReadBytes(h) + ZeroBytes(h) = K
    <2> HIDE DEF b, K
    <2> QED
      BY <1>1, <1>2, <1>5, <1>6, <1>8 DEF K
  <1>11. s \in SegmentType
    BY <1>1, <1>2, <1>4, <1>10 DEF SegmentType
  <1>12. s.read = ReadBytes(h) /\ s.zero = ZeroBytes(h) /\ s.upage = u /\ s.ofs = O
         /\ s.writable = h.writable
    OBVIOUS
  <1> HIDE DEF s
  <1>13. \E e \in Nat : s.read + s.zero = e * PGSIZE - s.upage * PGSIZE
                        /\ h.p_vaddr + h.p_memsz <= e * PGSIZE
    <2>1. u + k \in Nat
      BY <1>2
    <2>2. s.read + s.zero = (u + k) * PGSIZE - s.upage * PGSIZE
      <3> HIDE DEF K, U, u
      <3> QED
        BY <1>4, <1>6, <1>7, <1>10, <1>12 DEF K, U
    <2>3. h.p_vaddr + h.p_memsz <= (u + k) * PGSIZE
      <3> HIDE DEF U, u, b
      <3> QED
        BY <1>1, <1>2, <1>4, <1>5, <1>6, <1>7
    <2> QED
      BY <2>1, <2>2, <2>3
  <1>14. s.read > 0 => /\ s.read = h.p_vaddr + h.p_filesz - s.upage * PGSIZE
                       /\ s.ofs = h.p_offset - h.p_vaddr + s.upage * PGSIZE
    <2>1. s.upage * PGSIZE = U
      BY <1>12
    <2> HIDE DEF U, u, b, O
    <2> QED
      BY <1>1, <1>2, <1>3, <1>4, <1>8, <1>12, <2>1
  <1>15. s.read = 0 /\ h.p_filesz > 0 => h.p_vaddr + h.p_filesz <= s.upage * PGSIZE
    BY <1>1, <1>2, <1>8, <1>12
  <1>16. \A a \in Span(h) : a \div PGSIZE < s.upage => RightAt(dir, h, a)
    BY <1>9, <1>12
  <1>17. Placing(dir, s, h)
    BY <1>11, <1>12, <1>13, <1>14, <1>15, <1>16 DEF Placing
  <1> QED
    BY <1>17 DEF s

\* With nothing left to read or to zero, the segment is in place.
LEMMA SegmentEnds ==
  ASSUME NEW dir, NEW s, NEW h \in Header, Placing(dir, s, h), s.read = 0, s.zero = 0
  PROVE  Placed(dir, h)
  <1>1. PICK e \in Nat : s.read + s.zero = e * PGSIZE - s.upage * PGSIZE
                         /\ h.p_vaddr + h.p_memsz <= e * PGSIZE
    BY DEF Placing
  <1>2. s.upage \in Nat /\ e * PGSIZE \in Nat /\ s.upage * PGSIZE \in Nat
    <2>1. s.upage \in Nat
      BY DEF Placing, SegmentType
    <2> QED
      BY <2>1, MultipleNat
  <1> DEFINE U == s.upage * PGSIZE
  <1>3. h.p_vaddr + h.p_memsz <= U
    <2> DEFINE E == e * PGSIZE
    <2> HIDE DEF U, E
    <2> QED
      BY <1>1, <1>2 DEF U, E
  <1>4. ASSUME NEW a \in Span(h)
        PROVE  a \div PGSIZE < s.upage
    <2> DEFINE A == (a \div PGSIZE) * PGSIZE
    <2>1. a \in Nat /\ a < h.p_vaddr + h.p_memsz /\ h.p_vaddr + h.p_memsz \in Nat /\ PGSIZE \in Nat
      BY HeaderType, LoaderAssumption DEF Span
    <2>2. a \div PGSIZE \in Nat /\ a % PGSIZE \in 0..(PGSIZE - 1) /\ a = A + (a % PGSIZE)
      BY <2>1, Divided
    <2>3. SUFFICES ASSUME ~(a \div PGSIZE < s.upage) PROVE FALSE
      OBVIOUS
    <2>4. U <= A /\ A \in Nat
      <3>1. s.upage = a \div PGSIZE \/ s.upage < a \div PGSIZE
        BY <1>2, <2>2, <2>3
      <3>2. s.upage < a \div PGSIZE => U + PGSIZE <= A
        <4> DEFINE v == a \div PGSIZE
        <4>1. v \in Int /\ s.upage \in Int
          BY <1>2, <2>2
        <4> HIDE DEF v
        <4>2. s.upage < v => s.upage * PGSIZE + PGSIZE <= v * PGSIZE
          BY <4>1, Multiples
        <4> QED
          BY <4>2 DEF v
      <3>3. A \in Nat
        BY <2>2, MultipleNat
      <3> QED
        BY <1>2, <2>1, <3>1, <3>2, <3>3
    <2> HIDE DEF U, A
    <2> QED
      BY <1>2, <1>3, <2>1, <2>2, <2>4 DEF U
  <1> QED
    BY <1>4 DEF Placing, Placed

\* A round of load_segment.
LEMMA SegmentGoesOn ==
  ASSUME NEW dir, NEW dirn, NEW s, NEW sn, NEW h \in Header, NEW n \in Nat,
         Placing(dir, s, h), s.read + s.zero > 0,
         n = (IF s.read < PGSIZE THEN s.read ELSE PGSIZE),
         sn = Advanced(s, n),
         \A p \in DOMAIN dir : p \in DOMAIN dirn /\ dirn[p] = dir[p],
         s.upage \in DOMAIN dirn,
         dirn[s.upage] = PageWith(s, n)
  PROVE  Placing(dirn, sn, h)
  <1> DEFINE u == s.upage
             U == u * PGSIZE
  <1>1. PICK e \in Nat : s.read + s.zero = e * PGSIZE - U
                         /\ h.p_vaddr + h.p_memsz <= e * PGSIZE
    BY DEF Placing
  <1>2. /\ h.p_offset \in Nat /\ h.p_vaddr \in Nat /\ h.p_filesz \in Nat /\ h.p_memsz \in Nat
        /\ Span(h) \subseteq Nat /\ PGSIZE \in Nat /\ PGSIZE > 0
    BY HeaderType, LoaderAssumption
  <1>2a. s \in SegmentType /\ s.ofs \in Nat /\ u \in Nat /\ s.read \in Nat /\ s.zero \in Nat
    BY DEF Placing, SegmentType
  <1>2b. U \in Nat /\ e * PGSIZE \in Nat
    BY <1>2a, MultipleNat
  <1>3. s \in SegmentType /\ s.ofs \in Nat /\ u \in Nat /\ s.read \in Nat /\ s.zero \in Nat
        /\ U \in Nat /\ e * PGSIZE \in Nat
    BY <1>2a, <1>2b
  <1>4. sn = [ofs |-> s.ofs + n, upage |-> u + 1, read |-> s.read - n, zero |-> s.zero - (PGSIZE - n),
              writable |-> s.writable]
    BY <1>3 DEF SegmentType, Advanced
  <1>5. sn.ofs = s.ofs + n /\ sn.upage = u + 1 /\ sn.read = s.read - n
        /\ sn.zero = s.zero - (PGSIZE - n) /\ sn.writable = s.writable
    BY <1>4
  <1>6. (u + 1) * PGSIZE = U + PGSIZE
    BY <1>3, Multiples
  <1>7. s.read + s.zero >= PGSIZE
    <2>1. u < e \/ u = e \/ e < u
      BY <1>3
    <2>2. u < e => U + PGSIZE <= e * PGSIZE
      BY <1>3, Multiples
    <2>3. e < u => e * PGSIZE + PGSIZE <= U
      BY <1>3, Multiples
    <2>4. u = e => U = e * PGSIZE
      OBVIOUS
    <2> DEFINE E == e * PGSIZE
    <2> HIDE DEF U, E, u
    <2> QED
      BY <1>1, <1>2, <1>3, <2>1, <2>2, <2>3, <2>4 DEF E
  <1>8. sn.read \in Nat /\ sn.zero \in Nat /\ sn.read + sn.zero = s.read + s.zero - PGSIZE
    BY <1>2, <1>3, <1>5, <1>7
  <1>9. sn \in SegmentType
    BY <1>3, <1>4, <1>5, <1>8 DEF SegmentType
  <1>10. \E e1 \in Nat : sn.read + sn.zero = e1 * PGSIZE - sn.upage * PGSIZE
                         /\ h.p_vaddr + h.p_memsz <= e1 * PGSIZE
    <2> DEFINE E == e * PGSIZE
               V == sn.upage * PGSIZE
    <2>1. V = U + PGSIZE
      BY <1>5, <1>6
    <2>2. s.read + s.zero = E - U /\ E \in Nat /\ U \in Nat
      BY <1>1, <1>3
    <2>3. sn.read + sn.zero = E - V
      <3> HIDE DEF U, E, V
      <3> QED
        BY <1>2, <1>2a, <1>8, <2>1, <2>2
    <2> QED
      BY <1>1, <2>3
  <1>11. s.writable = h.writable
         /\ (s.read > 0 => s.read = h.p_vaddr + h.p_filesz - U /\ s.ofs = h.p_offset - h.p_vaddr + U)
         /\ (s.read = 0 /\ h.p_filesz > 0 => h.p_vaddr + h.p_filesz <= U)
    BY DEF Placing
  <1>12. sn.upage * PGSIZE = U + PGSIZE
    BY <1>5, <1>6
  <1>13. sn.read > 0 => /\ sn.read = h.p_vaddr + h.p_filesz - sn.upage * PGSIZE
                        /\ sn.ofs = h.p_offset - h.p_vaddr + sn.upage * PGSIZE
    <2> SUFFICES ASSUME sn.read > 0
                 PROVE  /\ sn.read = h.p_vaddr + h.p_filesz - sn.upage * PGSIZE
                        /\ sn.ofs = h.p_offset - h.p_vaddr + sn.upage * PGSIZE
      OBVIOUS
    <2>1. s.read > 0 /\ n = PGSIZE
      BY <1>2, <1>2a, <1>5
    <2> HIDE DEF U
    <2> QED
      BY <1>2, <1>3, <1>5, <1>11, <1>12, <2>1
  <1>14. sn.read = 0 /\ h.p_filesz > 0 => h.p_vaddr + h.p_filesz <= sn.upage * PGSIZE
    <2>1. sn.read = 0 => s.read = n /\ n <= PGSIZE
      BY <1>2, <1>2a, <1>5
    <2> HIDE DEF U
    <2> QED
      BY <1>2, <1>3, <1>11, <1>12, <2>1
  <1>15. ASSUME NEW a \in Span(h), a \div PGSIZE < sn.upage
         PROVE  RightAt(dirn, h, a)
    <2>1. a \in Nat /\ h.p_vaddr <= a
      BY <1>2 DEF Span
    <2>2. a \div PGSIZE \in Nat /\ a % PGSIZE \in 0..(PGSIZE - 1)
          /\ a = (a \div PGSIZE) * PGSIZE + (a % PGSIZE)
      BY <2>1, Divided
    <2>3. CASE a \div PGSIZE < u
      <3>1. RightAt(dir, h, a)
        BY <2>3 DEF Placing
      <3> QED
        BY <3>1, PlacedKept
    <2>4. CASE a \div PGSIZE = u
      <3> DEFINE r == a % PGSIZE
      <3>1. a = U + r /\ r \in Nat /\ r < PGSIZE
        BY <1>2, <2>2, <2>4
      <3>2. dirn[u].read = n /\ dirn[u].ofs = s.ofs /\ dirn[u].writable = h.writable
        BY <1>11 DEF PageWith
      <3>3. r < n <=> a < h.p_vaddr + h.p_filesz
        <4> HIDE DEF U, r, u
        <4> QED
          BY <1>2, <1>3, <1>11, <2>1, <3>1
      <3>4. r < n => s.ofs + r = h.p_offset + a - h.p_vaddr
        <4> HIDE DEF U, r, u
        <4> QED
          BY <1>2, <1>3, <1>11, <2>1, <3>1
      <3>5. u \in DOMAIN dirn
        OBVIOUS
      <3> HIDE DEF U, u
      <3> QED
        BY <2>4, <3>2, <3>3, <3>4, <3>5 DEF RightAt
    <2> QED
      BY <1>3, <1>5, <1>15, <2>2, <2>3, <2>4
  <1> QED
    BY <1>5, <1>9, <1>10, <1>11, <1>13, <1>14, <1>15 DEF Placing

(***************************************************************************)
(* The image.  A segment is in place from its last page on; the stack is   *)
(* apart from it, for the page of the stack was not mapped before.         *)
(***************************************************************************)

InSegment == {"segment", "read", "install"}
OnStack == {"token", "null", "address", "argc", "return", "deny", "loaded"}

\* No segment has a byte on the page of the stack, and the stack has none outside of sp..PHYS_BASE.
StackInv ==
  /\ sp \in Int /\ sp <= PHYS_BASE /\ DOMAIN stored \subseteq sp..(PHYS_BASE - 1)
  /\ total_length \in Nat /\ num \in Nat
  /\ \A j \in 1..Len(file.headers) :
       file.headers[j].p_type = "load" => \A a \in Span(file.headers[j]) : a \div PGSIZE # StackPage

SegmentsInv ==
  /\ i \in Nat \ {0}
  /\ pc \in {"open", "header", "phdr", "stack"} \cup InSegment \cup OnStack
  /\ pc \in {"stack"} \cup OnStack => i > Len(file.headers)
  /\ \A j \in 1..Len(file.headers) :
       j < i /\ (pc \in InSegment => j < i - 1) /\ file.headers[j].p_type = "load"
         => Placed(pagedir, file.headers[j])
  /\ pc \in InSegment => /\ i - 1 \in 1..Len(file.headers)
                         /\ Placing(pagedir, segment, file.headers[i - 1])
  /\ pc \in {"read", "install"} => segment.read + segment.zero > 0
  /\ pc \in OnStack => StackInv
  /\ pc \notin OnStack => DOMAIN stored = {} /\ total_length = 0 /\ num = 0

ImageInv ==
  /\ file \in Files /\ tokens \in CommandLines
  /\ pc \notin {"failed", "panic"} => SegmentsInv

LEMMA ImageInit == Init => ImageInv
  <1> SUFFICES ASSUME Init PROVE ImageInv
    OBVIOUS
  <1>1. DOMAIN stored = {}
    BY DEF Init
  <1>2. i = 1 /\ pc = "open" /\ total_length = 0 /\ num = 0
    BY DEF Init
  <1> QED
    BY <1>1, <1>2 DEF Init, ImageInv, SegmentsInv, InSegment, OnStack

\* The headers of a file.
LEMMA HeaderIn ==
  ASSUME NEW f \in Files, NEW j \in 1..Len(f.headers)
  PROVE  f.headers[j] \in Header /\ Len(f.headers) \in Nat
  <1>1. f.headers \in Seq(Header)
    BY LoaderAssumption
  <1> QED
    BY <1>1

\* Nothing is said of a load that failed.
LEMMA FailedStep ==
  ASSUME ImageInv, UNCHANGED <<file, tokens>>, pc' \in {"failed", "panic"}
  PROVE  ImageInv'
  BY DEF ImageInv

\* A step that changes neither memory nor its plan.
LEMMA QuietStep ==
  ASSUME ImageInv, UNCHANGED <<file, tokens, i, segment, pagedir, stack>>,
         \/ pc' = pc
         \/ pc = "open" /\ pc' = "header"
         \/ pc = "header" /\ pc' = "phdr"
         \/ pc = "read" /\ pc' = "install"
         \/ pc = "segment" /\ pc' = "read" /\ segment.read + segment.zero > 0
         \/ pc = "phdr" /\ pc' = "stack" /\ i > Len(file.headers)
         \/ pc = "deny" /\ pc' = "loaded"
  PROVE  ImageInv'
  <1>1. pc' \in {"failed", "panic"} => pc \in {"failed", "panic"}
    OBVIOUS
  <1>2. SUFFICES ASSUME pc' \notin {"failed", "panic"} PROVE SegmentsInv'
    BY DEF ImageInv
  <1>3. SegmentsInv
    BY <1>2 DEF ImageInv
  <1>4. StackInv => StackInv'
    BY DEF StackInv, stack
  <1>5. pc' \in OnStack <=> pc \in OnStack
    BY DEF OnStack
  <1>6. pc' \in InSegment <=> pc \in InSegment
    BY DEF InSegment
  <1>7. pc' \in {"open", "header", "phdr", "stack"} \cup InSegment \cup OnStack
    BY <1>3 DEF SegmentsInv, InSegment, OnStack
  <1>8. pc' \in {"stack"} \cup OnStack => i > Len(file.headers)
    BY <1>3, <1>5 DEF SegmentsInv
  <1>9. pc' \in {"read", "install"} => segment.read + segment.zero > 0
    BY <1>3 DEF SegmentsInv
  <1> QED
    BY <1>3, <1>4, <1>5, <1>6, <1>7, <1>8, <1>9 DEF SegmentsInv, stack

LEMMA NextHeaderImage ==
  ASSUME ImageInv, NextHeader
  PROVE  ImageInv'
  <1> DEFINE h == file.headers[i]
  <1>1. pc = "phdr" /\ i <= Len(file.headers) /\ UNCHANGED <<file, tokens, pagedir, stack>>
    BY DEF NextHeader
  <1>2. SegmentsInv /\ file \in Files
    BY <1>1 DEF ImageInv
  <1>3. i \in 1..Len(file.headers) /\ Len(file.headers) \in Nat
    <2>1. file.headers \in Seq(Header)
      BY <1>2, LoaderAssumption
    <2> QED
      BY <1>1, <1>2, <2>1 DEF SegmentsInv
  <1>4. h \in Header
    BY <1>2, <1>3, HeaderIn
  <1>5. \A j \in 1..Len(file.headers) :
          j < i /\ file.headers[j].p_type = "load" => Placed(pagedir, file.headers[j])
    BY <1>1, <1>2 DEF SegmentsInv, InSegment
  <1>6. DOMAIN stored = {} /\ total_length = 0 /\ num = 0
    BY <1>1, <1>2 DEF SegmentsInv, OnStack
  <1>7. CASE Fail
    BY <1>1, <1>7, FailedStep DEF Fail
  <1>8. CASE h.p_type = "ignored" /\ i' = i + 1 /\ UNCHANGED <<pc, segment, handle>>
    <2>1. \A j \in 1..Len(file.headers) :
            j < i' /\ file.headers[j].p_type = "load" => Placed(pagedir, file.headers[j])
      BY <1>3, <1>5, <1>8
    <2>2. SegmentsInv'
      BY <1>1, <1>3, <1>6, <1>8, <2>1 DEF SegmentsInv, InSegment, OnStack, stack
    <2> QED
      BY <1>1, <2>2 DEF ImageInv
  <1>9. CASE /\ Validate_segment(h)
             /\ segment' = [ofs |-> (h.p_offset \div PGSIZE) * PGSIZE, upage |-> h.p_vaddr \div PGSIZE,
                            read |-> ReadBytes(h), zero |-> ZeroBytes(h), writable |-> h.writable]
             /\ i' = i + 1 /\ pc' = "segment"
    <2>1. h.p_offset % PGSIZE = h.p_vaddr % PGSIZE /\ h.p_memsz >= h.p_filesz
      BY <1>9 DEF Validate_segment
    <2>2. Placing(pagedir, segment', h)
      BY <1>4, <1>9, <2>1, SegmentBegins
    <2>3. i' - 1 = i /\ i' \in Nat \ {0}
      BY <1>3, <1>9
    <2>4. \A j \in 1..Len(file.headers) :
            j < i' - 1 /\ file.headers[j].p_type = "load" => Placed(pagedir, file.headers[j])
      BY <1>5, <2>3
    <2>5. SegmentsInv'
      BY <1>1, <1>3, <1>6, <1>9, <2>2, <2>3, <2>4 DEF SegmentsInv, InSegment, OnStack, stack
    <2> QED
      BY <1>1, <2>5 DEF ImageInv
  <1> QED
    BY <1>7, <1>8, <1>9 DEF NextHeader

LEMMA GetPageImage ==
  ASSUME ImageInv, GetPage
  PROVE  ImageInv'
  <1>1. pc = "segment" /\ UNCHANGED <<file, tokens, i, segment, pagedir, stack>>
    BY DEF GetPage
  <1>2. SegmentsInv /\ file \in Files
    BY <1>1 DEF ImageInv
  <1>3. CASE Fail
    BY <1>1, <1>3, FailedStep DEF Fail
  <1>4. CASE segment.read + segment.zero > 0 /\ pc' = "read"
    BY <1>1, <1>4, QuietStep
  <1>5. CASE segment.read = 0 /\ segment.zero = 0 /\ pc' = "phdr"
    <2>1. i - 1 \in 1..Len(file.headers) /\ Placing(pagedir, segment, file.headers[i - 1])
      BY <1>1, <1>2 DEF SegmentsInv, InSegment
    <2>2. Placed(pagedir, file.headers[i - 1])
      BY <1>2, <1>5, <2>1, HeaderIn, SegmentEnds
    <2>3. \A j \in 1..Len(file.headers) :
            j < i /\ file.headers[j].p_type = "load" => Placed(pagedir, file.headers[j])
      <3> SUFFICES ASSUME NEW j \in 1..Len(file.headers), j < i, file.headers[j].p_type = "load"
                   PROVE  Placed(pagedir, file.headers[j])
        OBVIOUS
      <3>1. j = i - 1 \/ j < i - 1
        BY <1>2 DEF SegmentsInv
      <3> QED
        BY <1>1, <1>2, <2>2, <3>1 DEF SegmentsInv, InSegment
    <2>4. SegmentsInv'
      BY <1>1, <1>2, <1>5, <2>3 DEF SegmentsInv, InSegment, OnStack, stack
    <2> QED
      BY <1>1, <1>2, <2>4 DEF ImageInv
  <1> QED
    BY <1>3, <1>4, <1>5 DEF GetPage

LEMMA InstallPageImage ==
  ASSUME ImageInv, InstallPage
  PROVE  ImageInv'
  <1>1. pc = "install" /\ UNCHANGED <<file, tokens, i, stack>>
    BY DEF InstallPage
  <1>2. SegmentsInv /\ file \in Files
    BY <1>1 DEF ImageInv
  <1>3. CASE Fail
    BY <1>1, <1>3, FailedStep DEF Fail
  <1>4. CASE /\ Installs(segment.upage,
                         [ofs |-> segment.ofs, read |-> PageReadBytes, writable |-> segment.writable])
             /\ segment' = [segment EXCEPT !.ofs = @ + PageReadBytes, !.upage = @ + 1,
                              !.read = @ - PageReadBytes, !.zero = @ - (PGSIZE - PageReadBytes)]
             /\ pc' = "segment"
    <2> DEFINE h == file.headers[i - 1]
    <2>1. i - 1 \in 1..Len(file.headers) /\ Placing(pagedir, segment, h)
          /\ segment.read + segment.zero > 0
      BY <1>1, <1>2 DEF SegmentsInv, InSegment
    <2>2. h \in Header
      BY <1>2, <2>1, HeaderIn
    <2>3. PageReadBytes \in Nat
      BY <2>1, LoaderAssumption DEF PageReadBytes, Placing, SegmentType
    <2>4. /\ segment.upage \in DOMAIN pagedir'
          /\ pagedir'[segment.upage] = PageWith(segment, PageReadBytes)
          /\ \A p \in DOMAIN pagedir : p \in DOMAIN pagedir' /\ pagedir'[p] = pagedir[p]
          /\ segment' = Advanced(segment, PageReadBytes)
      BY <1>4, Mapped DEF PageWith, Advanced
    <2>5. PageReadBytes = (IF segment.read < PGSIZE THEN segment.read ELSE PGSIZE)
      BY DEF PageReadBytes
    <2>6. Placing(pagedir', segment', h)
      <3> HIDE DEF h
      <3> QED
        BY <2>1, <2>2, <2>3, <2>4, <2>5, SegmentGoesOn
    <2>7. \A j \in 1..Len(file.headers) :
            j < i /\ j < i - 1 /\ file.headers[j].p_type = "load" => Placed(pagedir', file.headers[j])
      BY <1>1, <1>2, <2>4, PlacedKept DEF SegmentsInv, InSegment
    <2>8. SegmentsInv'
      BY <1>1, <1>2, <1>4, <2>1, <2>6, <2>7 DEF SegmentsInv, InSegment, OnStack, stack
    <2> QED
      BY <1>1, <1>2, <2>8 DEF ImageInv
  <1> QED
    BY <1>3, <1>4 DEF InstallPage

LEMMA InstallStackImage ==
  ASSUME ImageInv, InstallStack
  PROVE  ImageInv'
  <1>1. pc = "stack" /\ UNCHANGED <<file, tokens, i, segment, stored, num, total_length>>
    BY DEF InstallStack
  <1>2. SegmentsInv /\ file \in Files
    BY <1>1 DEF ImageInv
  <1>3. CASE Fail
    BY <1>1, <1>3, FailedStep DEF Fail
  <1>4. CASE /\ Installs(StackPage, [ofs |-> 0, read |-> 0, writable |-> TRUE])
             /\ sp' = PHYS_BASE /\ pc' = "token"
    <2>1. /\ StackPage \notin DOMAIN pagedir
          /\ \A p \in DOMAIN pagedir : p \in DOMAIN pagedir' /\ pagedir'[p] = pagedir[p]
      BY <1>4, Mapped
    <2>2. i > Len(file.headers) /\ i \in Nat /\ DOMAIN stored = {} /\ total_length = 0 /\ num = 0
      BY <1>1, <1>2 DEF SegmentsInv, OnStack
    <2>3. \A j \in 1..Len(file.headers) :
            file.headers[j].p_type = "load" => Placed(pagedir, file.headers[j])
      <3>1. file.headers \in Seq(Header)
        BY <1>2, LoaderAssumption
      <3>2. Len(file.headers) \in Nat
        BY <3>1
      <3> QED
        BY <1>1, <1>2, <2>2, <3>2 DEF SegmentsInv, InSegment
    <2>4. \A j \in 1..Len(file.headers) :
            file.headers[j].p_type = "load" =>
              \A a \in Span(file.headers[j]) : a \div PGSIZE # StackPage
      BY <2>1, <2>3 DEF Placed, RightAt
    <2>5. PHYS_BASE \in Int
      BY LoaderAssumption DEF PHYS_BASE
    <2>6. StackInv'
      BY <1>1, <1>4, <2>2, <2>4, <2>5 DEF StackInv
    <2>7. \A j \in 1..Len(file.headers) :
            file.headers[j].p_type = "load" => Placed(pagedir', file.headers[j])
      BY <2>1, <2>3, PlacedKept
    <2>8. SegmentsInv'
      BY <1>1, <1>2, <1>4, <2>2, <2>6, <2>7 DEF SegmentsInv, InSegment, OnStack
    <2> QED
      BY <1>1, <1>2, <2>8 DEF ImageInv
  <1> QED
    BY <1>3, <1>4 DEF InstallStack

\* A push of the items, below sp.
LEMMA PushImage ==
  ASSUME ImageInv, pc \in OnStack, NEW size \in Nat, NEW items, NEW label \in OnStack,
         DOMAIN items \subseteq (sp - size)..(sp - 1),
         Push(size, items, label), UNCHANGED <<file, tokens, i, pagedir>>,
         total_length' \in Nat, num' \in Nat
  PROVE  ImageInv'
  <1>1. SegmentsInv /\ StackInv
    BY DEF ImageInv, SegmentsInv, OnStack
  <1>2. CASE pc' = "panic"
    BY <1>2, FailedStep
  <1>3. CASE /\ sp' = sp - size /\ pc' = label
             /\ stored' = [a \in DOMAIN items \cup DOMAIN stored |->
                             IF a \in DOMAIN items THEN items[a] ELSE stored[a]]
    <2>1. PHYS_BASE \in Int
      BY LoaderAssumption DEF PHYS_BASE
    <2>2. sp' \in Int /\ sp' <= PHYS_BASE
      BY <1>1, <1>3, <2>1 DEF StackInv
    <2>3. DOMAIN stored' \subseteq sp'..(PHYS_BASE - 1)
      BY <1>1, <1>3, <2>1 DEF StackInv
    <2>4. StackInv'
      BY <1>1, <2>2, <2>3 DEF StackInv
    <2>5. SegmentsInv'
      BY <1>1, <1>3, <2>4 DEF SegmentsInv, InSegment, OnStack
    <2> QED
      BY <2>5 DEF ImageInv
  <1> QED
    BY <1>2, <1>3 DEF Push

LEMMA TokenImage ==
  ASSUME ImageInv, PushToken
  PROVE  ImageInv'
  <1> DEFINE n == tokens[num + 1]
             low == sp - (n + 1)
             items == [a \in low..(low + n) |-> IF a = low + n THEN Zero ELSE <<"char", num + 1, a - low>>]
  <1>1. pc = "token" /\ num < Len(tokens) /\ UNCHANGED <<file, tokens, i, pagedir>>
        /\ Push(n + 1, items, "token") /\ total_length' = total_length + n + 1 /\ num' = num + 1
    BY DEF PushToken, image
  <1>2. StackInv /\ tokens \in CommandLines
    BY <1>1 DEF ImageInv, SegmentsInv, OnStack
  <1>3. n \in Nat
    <2>1. tokens \in Seq(Nat \ {0})
      BY <1>2, LoaderAssumption
    <2>2. num + 1 \in 1..Len(tokens)
      BY <1>1, <1>2, <2>1 DEF StackInv
    <2> QED
      BY <2>1, <2>2
  <1>4. n + 1 \in Nat /\ sp \in Int /\ total_length' \in Nat /\ num' \in Nat
    BY <1>1, <1>2, <1>3 DEF StackInv
  <1>5. DOMAIN items \subseteq (sp - (n + 1))..(sp - 1)
    BY <1>3, <1>4
  <1>6. pc \in OnStack /\ "token" \in OnStack
    BY <1>1 DEF OnStack
  <1> HIDE DEF items, n
  <1> QED
    BY <1>1, <1>4, <1>5, <1>6, PushImage

LEMMA AlignImage ==
  ASSUME ImageInv, PushAlign
  PROVE  ImageInv'
  <1> DEFINE items == [a \in (sp - Padding)..(sp - 1) |-> Zero]
  <1>1. pc = "token" /\ UNCHANGED <<file, tokens, i, pagedir, num>>
        /\ Push(Padding, items, "null") /\ total_length' = total_length + Padding
    BY DEF PushAlign, image
  <1>2. StackInv
    BY <1>1 DEF ImageInv, SegmentsInv, OnStack
  <1>3. Padding \in Nat /\ total_length' \in Nat /\ num' \in Nat
    BY <1>1, <1>2 DEF Padding, StackInv
  <1>4. DOMAIN items \subseteq (sp - Padding)..(sp - 1)
    OBVIOUS
  <1>5. pc \in OnStack /\ "null" \in OnStack
    BY <1>1 DEF OnStack
  <1> HIDE DEF items
  <1> QED
    BY <1>1, <1>3, <1>4, <1>5, PushImage

\* A push of a word.
LEMMA WordImage ==
  ASSUME ImageInv, pc \in OnStack, NEW content, NEW label \in OnStack,
         PushWord(content, label), UNCHANGED <<file, tokens, i, pagedir, total_length>>, num' \in Nat
  PROVE  ImageInv'
  <1> DEFINE items == [a \in {sp - 4} |-> content]
  <1>1. StackInv
    BY DEF ImageInv, SegmentsInv, OnStack
  <1>2. total_length' \in Nat /\ sp \in Int
    BY <1>1 DEF StackInv
  <1>3. DOMAIN items \subseteq (sp - 4)..(sp - 1)
    BY <1>2
  <1>4. Push(4, items, label)
    BY DEF PushWord
  <1> HIDE DEF items
  <1> QED
    BY <1>2, <1>3, <1>4, PushImage

LEMMA ImageNext ==
  ASSUME ImageInv, [Next]_vars
  PROVE  ImageInv'
  <1>1. CASE Open \/ ReadHeader
    BY <1>1, FailedStep, QuietStep DEF Open, ReadHeader, Fail, image
  <1>2. CASE NextHeader
    BY <1>2, NextHeaderImage
  <1>3. CASE GetPage
    BY <1>3, GetPageImage
  <1>4. CASE ReadPage
    BY <1>4, FailedStep, QuietStep DEF ReadPage, Fail
  <1>5. CASE InstallPage
    BY <1>5, InstallPageImage
  <1>6. CASE GetStackPage
    BY <1>6, FailedStep, QuietStep DEF GetStackPage, Fail
  <1>7. CASE InstallStack
    BY <1>7, InstallStackImage
  <1>8. CASE PushToken
    BY <1>8, TokenImage
  <1>9. CASE PushAlign
    BY <1>9, AlignImage
  <1>10. CASE PushNull \/ PushAddress \/ PushLast
    <2>1. pc \in OnStack /\ {"address", "argc", "return", "deny"} \subseteq OnStack
      BY <1>10 DEF PushNull, PushAddress, PushLast, OnStack
    <2>2. StackInv
      BY <2>1 DEF ImageInv, SegmentsInv, OnStack
    <2>3. num' \in Nat /\ UNCHANGED <<file, tokens, i, pagedir, total_length>>
      BY <1>10, <2>2 DEF PushNull, PushAddress, PushLast, StackInv, image
    <2>4. \E content : \E label \in {"address", "argc", "return", "deny"} : PushWord(content, label)
      <3>1. CASE PushWord(Zero, "address") \/ PushWord(Word(args_pointer), "address")
        BY <3>1
      <3>2. CASE PushWord(Word(sp), "argc")
        BY <3>2
      <3>3. CASE PushWord(Word(num), "return")
        BY <3>3
      <3>4. CASE PushWord(Word(0), "deny")
        BY <3>4
      <3> QED
        BY <1>10, <3>1, <3>2, <3>3, <3>4 DEF PushNull, PushAddress, PushLast
    <2> QED
      BY <2>1, <2>3, <2>4, WordImage
  <1>11. CASE Finish
    BY <1>11, QuietStep DEF Finish, image
  <1>12. CASE UNCHANGED vars
    BY <1>12, QuietStep DEF vars, image
  <1> QED
    BY <1>1, <1>2, <1>3, <1>4, <1>5, <1>6, <1>7, <1>8, <1>9, <1>10, <1>11, <1>12 DEF Next

LEMMA ImageFollows == ImageInv => ImageExact
  <1> SUFFICES ASSUME ImageInv, pc = "loaded", OnPage,
                      NEW j \in 1..Len(file.headers), file.headers[j].p_type = "load",
                      NEW a \in Span(file.headers[j])
               PROVE  LET h == file.headers[j]
                      IN  /\ a \div PGSIZE \in DOMAIN pagedir
                          /\ pagedir[a \div PGSIZE].writable = h.writable
                          /\ At(a) = IF a < h.p_vaddr + h.p_filesz
                                       THEN <<"file", h.p_offset + a - h.p_vaddr>> ELSE Zero
    BY DEF ImageExact, Span
  <1> DEFINE h == file.headers[j]
  <1>1. SegmentsInv /\ StackInv /\ file \in Files
    BY DEF ImageInv, SegmentsInv, OnStack
  <1>2. h \in Header /\ Len(file.headers) \in Nat
    BY <1>1, HeaderIn
  <1>3. j < i
    BY <1>1, <1>2 DEF SegmentsInv, OnStack
  <1>4. RightAt(pagedir, h, a)
    BY <1>1, <1>3 DEF SegmentsInv, InSegment, Placed
  <1>5. a \div PGSIZE # StackPage /\ a \in Nat
    BY <1>1, <1>2, HeaderType DEF StackInv
  <1>6. a \notin DOMAIN stored
    <2> SUFFICES ASSUME a \in sp..(PHYS_BASE - 1) PROVE FALSE
      BY <1>1 DEF StackInv
    <2> DEFINE B == StackPage * PGSIZE
    <2>1. PGSIZE \in Nat /\ StackPage \in Nat
      BY LoaderAssumption DEF StackPage
    <2>2. PHYS_BASE = B + PGSIZE /\ B \in Nat
      BY <2>1, Multiples, LoaderAssumption DEF PHYS_BASE, StackPage
    <2>3. B <= a /\ a < B + PGSIZE
      <3> HIDE DEF B
      <3> QED
        BY <1>1, <1>5, <2>1, <2>2 DEF OnPage, StackInv
    <2> QED
      BY <1>5, <2>1, <2>3, PageOf
  <1> QED
    BY <1>4, <1>6 DEF RightAt, At

\* The segments of a loaded program are in memory byte for byte, for every file that load
\* accepts and every page size, unless its arguments left the page of the stack.
THEOREM SegmentsInPlace == Spec => []ImageExact
  BY ImageInit, ImageNext, ImageFollows, PTL DEF Spec

(***************************************************************************)
(* Sizes.  Size is a function given by recursion: that one exists which    *)
(* satisfies its equation, and what follows from the equation for every n, *)
(* is shown by induction over the places of the tokens, which needs no     *)
(* more than that the naturals are well-founded.                           *)
(***************************************************************************)

\* A nonempty set of naturals has a least element, from which the induction below starts.
LEMMA Least ==
  ASSUME NEW T \in SUBSET Nat, T # {}
  PROVE  \E n \in T : \A m \in T : n <= m
  <1>1. PICK n \in T : \A m \in T : ~ (<<m, n>> \in OpToRel(<, Nat))
    BY NatLessThanWellFounded, WFMin
  <1>2. \A m \in T : m < n => <<m, n>> \in OpToRel(<, Nat)
    BY DEF OpToRel
  <1>3. \A m \in T : ~ (m < n)
    BY <1>1, <1>2, Zenon
  <1> QED
    BY <1>3

\* Induction over a set of numbers, up to N.
LEMMA Induction ==
  ASSUME NEW N \in Nat, NEW T, 0 \in T,
         \A n \in 0..N : n \in T /\ n < N => n + 1 \in T
  PROVE  \A n \in 0..N : n \in T
  <1> DEFINE U == {n \in 0..N : n \notin T}
  <1> SUFFICES ASSUME U # {} PROVE FALSE
    OBVIOUS
  <1>1. PICK n \in U : \A m \in U : n <= m
    <2>1. U \in SUBSET Nat
      OBVIOUS
    <2> HIDE DEF U
    <2> QED
      BY <2>1, Least
  <1>2. n \in 0..N /\ n \notin T /\ n # 0
    BY <1>1
  <1>3. n - 1 \in 0..N /\ n - 1 < N /\ n - 1 \notin U
    <2>1. n - 1 \in 0..N /\ n - 1 < N /\ ~ (n <= n - 1)
      BY <1>2
    <2> HIDE DEF U
    <2> QED
      BY <1>1, <2>1
  <1>4. (n - 1) + 1 \in T
    BY <1>3
  <1> QED
    BY <1>2, <1>4

\* One unfolding of Size.
SizeStep(f, n) == IF n = 0 THEN 0 ELSE f[n - 1] + tokens[n] + 1

\* A command line has a length, and no token of it is empty.
LEMMA TokenLength ==
  ASSUME tokens \in CommandLines
  PROVE  Len(tokens) \in Nat /\ \A k \in 1..Len(tokens) : tokens[k] \in Nat \ {0}
  <1>1. tokens \in Seq(Nat \ {0})
    BY LoaderAssumption
  <1> QED
    BY <1>1

\* The function Size exists: it is given up to n for every n.
LEMMA SizeExists ==
  ASSUME tokens \in CommandLines
  PROVE  \E f \in [0..Len(tokens) -> Nat] : f = [n \in 0..Len(tokens) |-> SizeStep(f, n)]
  <1> DEFINE L == Len(tokens)
             F == [0..L -> Nat]
             Fixed(f, n) == \A k \in 0..n : f[k] = SizeStep(f, k)
             T == {n \in 0..L : \E f \in F : Fixed(f, n)}
  <1>1. L \in Nat /\ \A k \in 1..L : tokens[k] \in Nat
    BY TokenLength
  <1> HIDE DEF L
  <1>2. 0 \in T
    <2>1. [k \in 0..L |-> 0] \in F /\ Fixed([k \in 0..L |-> 0], 0)
      BY <1>1 DEF SizeStep
    <2> HIDE DEF F, Fixed
    <2> QED
      BY <1>1, <2>1
  <1>3. ASSUME NEW m \in 0..L, m \in T, m < L PROVE m + 1 \in T
    <2>1. PICK f \in F : Fixed(f, m)
      BY <1>3
    <2> DEFINE g == [f EXCEPT ![m + 1] = SizeStep(f, m + 1)]
    <2>2. m + 1 \in 0..L /\ m + 1 \in 1..L /\ m + 1 # 0 /\ (m + 1) - 1 = m
      BY <1>1, <1>3
    <2>3. SizeStep(f, m + 1) \in Nat
      BY <1>1, <2>2 DEF SizeStep
    <2>4. g \in F /\ g[m + 1] = SizeStep(f, m + 1) /\ \A k \in 0..L : k # m + 1 => g[k] = f[k]
      BY <2>2, <2>3
    <2> HIDE DEF g
    <2>5. Fixed(g, m + 1)
      <3> SUFFICES ASSUME NEW k \in 0..(m + 1) PROVE g[k] = SizeStep(g, k)
        OBVIOUS
      <3>1. k \in Nat /\ (k = m + 1 \/ (k \in 0..m /\ k # m + 1)) /\ k \in 0..L
        BY <1>1, <1>3
      <3>2. k > 0 => k - 1 \in 0..L /\ k - 1 # m + 1
        BY <1>1, <1>3, <3>1
      <3>3. SizeStep(g, k) = SizeStep(f, k)
        BY <2>4, <3>1, <3>2 DEF SizeStep
      <3> QED
        BY <2>1, <2>4, <3>1, <3>3
    <2> HIDE DEF F, Fixed
    <2> QED
      BY <2>2, <2>4, <2>5
  <1>4. L \in T
    <2>1. L \in 0..L
      BY <1>1
    <2> HIDE DEF T
    <2> QED
      BY <1>1, <1>2, <1>3, <2>1, Induction
  <1>5. PICK f \in F : Fixed(f, L)
    BY <1>4
  <1>6. f = [n \in 0..L |-> SizeStep(f, n)]
    BY <1>5
  <1> QED
    BY <1>6 DEF L

\* What the tokens take.
LEMMA SizeIs ==
  ASSUME tokens \in CommandLines
  PROVE  /\ \A n \in 0..Len(tokens) : Size[n] \in Nat
         /\ Size[0] = 0
         /\ \A k \in 1..Len(tokens) : Size[k] = Size[k - 1] + tokens[k] + 1
  <1>1. Size = CHOOSE f : f = [n \in 0..Len(tokens) |-> SizeStep(f, n)]
    BY DEF Size, SizeStep
  <1>2. Size = [n \in 0..Len(tokens) |-> SizeStep(Size, n)]
    BY <1>1, SizeExists, Zenon
  <1>3. Len(tokens) \in Nat /\ \A k \in 1..Len(tokens) : tokens[k] \in Nat
    BY TokenLength
  <1>4. \A n \in 0..Len(tokens) : Size[n] = SizeStep(Size, n)
    BY <1>2, Zenon
  <1>5. Size[0] = 0
    BY <1>3, <1>4 DEF SizeStep
  <1>6. \A k \in 1..Len(tokens) : Size[k] = Size[k - 1] + tokens[k] + 1
    BY <1>3, <1>4 DEF SizeStep
  <1> DEFINE T == {n \in 0..Len(tokens) : Size[n] \in Nat}
  <1>7. 0 \in T
    BY <1>3, <1>5
  <1>8. \A n \in 0..Len(tokens) : n \in T /\ n < Len(tokens) => n + 1 \in T
    <2> SUFFICES ASSUME NEW n \in 0..Len(tokens), n \in T, n < Len(tokens) PROVE n + 1 \in T
      OBVIOUS
    <2>1. n + 1 \in 1..Len(tokens) /\ (n + 1) - 1 = n /\ n + 1 \in 0..Len(tokens)
      BY <1>3
    <2> QED
      BY <1>3, <1>6, <2>1
  <1>9. \A n \in 0..Len(tokens) : n \in T
    <2> HIDE DEF T
    <2> QED
      BY <1>3, <1>7, <1>8, Induction
  <1> QED
    BY <1>5, <1>6, <1>9

\* They take no less as they get more.
LEMMA SizeGrows ==
  ASSUME tokens \in CommandLines, NEW k \in 0..Len(tokens)
  PROVE  Size[k] <= Size[Len(tokens)]
  <1> DEFINE L == Len(tokens)
             T == {m \in 0..(L - k) : Size[k] <= Size[k + m]}
  <1>1. L \in Nat /\ \A j \in 1..L : tokens[j] \in Nat
    BY TokenLength
  <1>2. /\ \A n \in 0..L : Size[n] \in Nat
        /\ \A j \in 1..L : Size[j] = Size[j - 1] + tokens[j] + 1
    BY SizeIs
  <1>3. k \in 0..L
    OBVIOUS
  <1> HIDE DEF L
  <1>4. 0 \in T /\ L - k \in Nat
    BY <1>1, <1>2, <1>3
  <1>5. \A m \in 0..(L - k) : m \in T /\ m < L - k => m + 1 \in T
    <2> SUFFICES ASSUME NEW m \in 0..(L - k), m \in T, m < L - k PROVE m + 1 \in T
      OBVIOUS
    <2>1. k + (m + 1) \in 1..L /\ (k + (m + 1)) - 1 = k + m /\ k + m \in 0..L /\ m + 1 \in 0..(L - k)
      BY <1>1, <1>3
    <2>2. Size[k + (m + 1)] = Size[k + m] + tokens[k + (m + 1)] + 1
      BY <1>2, <2>1
    <2>3. Size[k] <= Size[k + (m + 1)]
      BY <1>1, <1>2, <1>3, <2>1, <2>2
    <2> QED
      BY <2>1, <2>3
  <1>6. L - k \in T
    <2> HIDE DEF T
    <2>1. L - k \in 0..(L - k)
      BY <1>4
    <2> QED
      BY <1>4, <1>5, <2>1, Induction
  <1>7. k + (L - k) = L
    BY <1>1, <1>3
  <1> QED
    BY <1>6, <1>7 DEF L

\* Size depends on the tokens alone.
LEMMA SizeKept == ASSUME tokens' = tokens PROVE Size' = Size
  BY DEF Size

(***************************************************************************)
(* The arguments.  Every round stores strings, then addresses, below what  *)
(* it finds, and the next place is known from the tokens.                  *)
(***************************************************************************)

\* st has x at a.
Has(st, a, x) == a \in DOMAIN st /\ st[a] = x

\* Where the token k, the word that ends argv, and the end of the padding are.
Start(k) == PHYS_BASE - Size[k]
Aligned == ((Size[Len(tokens)] + 3) \div 4) * 4
Bottom == PHYS_BASE - Aligned - 4

\* What is stored: the first m tokens, the addresses of the last m, the null word of which one
\* byte is cleared.
String(st, k) ==
  /\ \A n \in 0..(tokens[k] - 1) : Has(st, Start(k) + n, <<"char", k, n>>)
  /\ Has(st, Start(k) + tokens[k], Zero)
Strings(st, m) == \A k \in 1..m : String(st, k)
Pointers(st, m) ==
  \A k \in (Len(tokens) - m + 1)..Len(tokens) :
    Has(st, Bottom - 4 * (Len(tokens) - k + 1), Word(Start(k)))
NullWord(st) == Has(st, Bottom, Zero) /\ \A n \in 1..3 : Bottom + n \notin DOMAIN st

\* The page of the stack is the one that setup_stack installed.
StackMapped ==
  /\ StackPage \in DOMAIN pagedir
  /\ pagedir[StackPage].writable = TRUE /\ pagedir[StackPage].read = 0

\* What is on the stack at each label; Argv is where the addresses of the tokens start.
AtToken ==
  /\ num \in 0..Len(tokens) /\ Strings(stored, num)
  /\ sp = Start(num) /\ total_length = Size[num]
AtNull ==
  /\ Strings(stored, Len(tokens))
  /\ sp = PHYS_BASE - Aligned /\ args_pointer = Start(Len(tokens))
AtAddress ==
  /\ num \in 0..Len(tokens) /\ Strings(stored, Len(tokens)) /\ NullWord(stored)
  /\ Pointers(stored, num) /\ sp = Bottom - 4 * num /\ args_pointer = Start(Len(tokens) - num)
Argv == Bottom - 4 * Len(tokens)
AtLast ==
  /\ num = Len(tokens) /\ Strings(stored, num) /\ NullWord(stored) /\ Pointers(stored, num)
  /\ Has(stored, Argv - 4, Word(Argv))
  /\ pc # "argc" => Has(stored, Argv - 8, Word(num))
  /\ pc \in {"deny", "loaded"} => Has(stored, Argv - 12, Word(0))
  /\ pc = "argc" => sp = Argv - 4
  /\ pc = "return" => sp = Argv - 8
  /\ pc \in {"deny", "loaded"} => sp = Argv - 12

Last == {"argc", "return", "deny", "loaded"}

\* The inductive invariant.
ArgvInv ==
  /\ pc \in OnStack => StackMapped
  /\ pc = "token" => AtToken
  /\ pc = "null" => AtNull
  /\ pc = "address" => AtAddress
  /\ pc \in Last => AtLast
  /\ pc = "panic" => ~ ArgsFit

\* The numbers.
LEMMA Layout ==
  ASSUME tokens \in CommandLines
  PROVE  /\ Len(tokens) \in Nat
         /\ Aligned \in Nat /\ Aligned >= Size[Len(tokens)] /\ Aligned % 4 = 0
         /\ Size[Len(tokens)] + ((- Size[Len(tokens)]) % 4) = Aligned
         /\ Needed = Aligned + 4 + 4 * Len(tokens) + 12
         /\ PHYS_BASE \in Nat /\ Bottom \in Int /\ Argv \in Int
         /\ Argv - 12 = PHYS_BASE - Needed
         /\ \A k \in 0..Len(tokens) : /\ Size[k] \in Nat /\ Size[k] <= Aligned
                                      /\ Start(k) \in Int /\ Start(k) + Size[k] = PHYS_BASE
         /\ \A k \in 1..Len(tokens) : /\ tokens[k] \in Nat /\ tokens[k] > 0 /\ Start(k) \in Int
                                      /\ Start(k) + tokens[k] + 1 = Start(k - 1)
  <1> DEFINE L == Len(tokens)
             z == Size[L]
  <1>1. L \in Nat /\ (\A k \in 1..L : tokens[k] \in Nat /\ tokens[k] > 0) /\ \A n \in 0..L : Size[n] \in Nat
    BY TokenLength, SizeIs
  <1>2. z \in Nat
    BY <1>1
  <1>3. PHYS_BASE \in Nat
    BY LoaderAssumption, MultipleNat DEF PHYS_BASE
  <1>4. Aligned = ((z + 3) \div 4) * 4
    BY DEF Aligned
  <1>5. Needed = Aligned + 4 + 4 * L + 12
    BY DEF Needed, Aligned
  <1> HIDE DEF z
  <1>6. Aligned \in Nat /\ Aligned >= z /\ Aligned % 4 = 0 /\ z + ((- z) % 4) = Aligned
    BY <1>2, <1>4
  <1>7. Bottom = PHYS_BASE - Aligned - 4 /\ Argv = Bottom - 4 * L
    BY DEF Bottom, Argv
  <1> HIDE DEF L
  <1>8. Bottom \in Int /\ Argv \in Int /\ Argv - 12 = PHYS_BASE - Needed
    BY <1>1, <1>3, <1>5, <1>6, <1>7
  <1>9. ASSUME NEW k \in 0..L
        PROVE  Size[k] \in Nat /\ Size[k] <= Aligned /\ Start(k) \in Int /\ Start(k) + Size[k] = PHYS_BASE
    <2>1. Size[k] \in Nat /\ Size[k] <= z
      BY <1>1, SizeGrows DEF z, L
    <2> QED
      BY <1>2, <1>3, <1>6, <2>1 DEF Start
  <1>10. ASSUME NEW k \in 1..L
         PROVE  Start(k) \in Int /\ Start(k) + tokens[k] + 1 = Start(k - 1)
    <2>1. Size[k] = Size[k - 1] + tokens[k] + 1
      BY SizeIs DEF L
    <2>2. k \in 0..L /\ k - 1 \in 0..L
      BY <1>1
    <2>3. Size[k] \in Nat /\ Size[k - 1] \in Nat
      BY <1>1, <2>2
    <2> QED
      BY <1>1, <1>3, <2>1, <2>3 DEF Start
  <1> QED
    BY <1>1, <1>3, <1>5, <1>6, <1>8, <1>9, <1>10 DEF L, z

\* The tokens never change, nor does what is computed of them.
LEMMA LayoutKept ==
  ASSUME tokens' = tokens
  PROVE  /\ Size' = Size /\ Aligned' = Aligned /\ Bottom' = Bottom /\ Argv' = Argv
         /\ \A k : Start(k)' = Start(k)
         /\ ArgsFit' = ArgsFit
  <1>1. Size' = Size
    BY SizeKept
  <1> QED
    BY <1>1 DEF Aligned, Bottom, Argv, Start, ArgsFit, Needed

\* The kernel stops at a push only below the page of the stack.
LEMMA Overflow ==
  ASSUME tokens \in CommandLines, StackMapped, sp \in Int, sp <= PHYS_BASE,
         NEW size \in Nat, NEW items, NEW label, label # "panic", Push(size, items, label),
         sp - size >= PHYS_BASE - Needed, tokens' = tokens, pc' = "panic"
  PROVE  ArgvInv'
  <1>1. PICK a \in (sp - size)..(sp - 1) :
          ~ (a \div PGSIZE \in DOMAIN pagedir /\ pagedir[a \div PGSIZE].writable)
    BY DEF Push
  <1>2. ~ ArgsFit
    <2> SUFFICES ASSUME ArgsFit PROVE FALSE
      OBVIOUS
    <2> DEFINE B == StackPage * PGSIZE
    <2>1. PGSIZE \in Nat /\ StackPage \in Nat
      BY LoaderAssumption DEF StackPage
    <2>2. PHYS_BASE = B + PGSIZE /\ B \in Nat
      BY <2>1, Multiples, LoaderAssumption DEF PHYS_BASE, StackPage
    <2>3. Needed \in Nat /\ Needed <= PGSIZE
      <3>1. Aligned \in Nat /\ Len(tokens) \in Nat /\ Needed = Aligned + 4 + 4 * Len(tokens) + 12
        BY Layout
      <3> QED
        BY <3>1 DEF ArgsFit
    <2>4. a \in Nat /\ B <= a /\ a < B + PGSIZE
      <3> HIDE DEF B
      <3> QED
        BY <2>1, <2>2, <2>3
    <2>5. a \div PGSIZE = StackPage
      BY <2>1, <2>4, PageOf
    <2> QED
      BY <1>1, <2>5 DEF StackMapped
  <1>3. ~ ArgsFit'
    BY <1>2, LayoutKept
  <1> QED
    BY <1>3 DEF ArgvInv, OnStack, Last

\* What was stored is stored as it was.
Grown(st, stn) == \A a \in DOMAIN st : a \in DOMAIN stn /\ stn[a] = st[a]

\* What a push leaves.
LEMMA Pushes ==
  ASSUME StackInv, NEW size \in Nat, NEW items, NEW label,
         DOMAIN items \subseteq (sp - size)..(sp - 1),
         Push(size, items, label), pc' # "panic"
  PROVE  /\ sp' = sp - size /\ pc' = label
         /\ Grown(stored, stored')
         /\ DOMAIN stored' = DOMAIN items \cup DOMAIN stored
         /\ \A a \in DOMAIN items : Has(stored', a, items[a])
  <1>1. /\ sp' = sp - size /\ pc' = label
        /\ stored' = [a \in DOMAIN items \cup DOMAIN stored |->
                        IF a \in DOMAIN items THEN items[a] ELSE stored[a]]
    BY DEF Push
  <1>2. \A a \in DOMAIN stored : a \notin DOMAIN items
    BY DEF StackInv
  <1> QED
    BY <1>1, <1>2 DEF Grown, Has

\* A word that is pushed.
LEMMA PushesWord ==
  ASSUME StackInv, NEW content, NEW label, PushWord(content, label), pc' # "panic"
  PROVE  /\ sp' = sp - 4 /\ pc' = label
         /\ Grown(stored, stored')
         /\ DOMAIN stored' = {sp - 4} \cup DOMAIN stored
         /\ Has(stored', sp - 4, content)
  <1> DEFINE items == [a \in {sp - 4} |-> content]
  <1>1. Push(4, items, label) /\ 4 \in Nat
    BY DEF PushWord
  <1>2. DOMAIN items = {sp - 4} /\ items[sp - 4] = content
    OBVIOUS
  <1> HIDE DEF items
  <1>3. DOMAIN items \subseteq (sp - 4)..(sp - 1)
    BY <1>2 DEF StackInv
  <1> QED
    BY <1>1, <1>2, <1>3, Pushes

\* What was stored stays.
LEMMA GrownKeeps ==
  ASSUME tokens' = tokens, Grown(stored, stored')
  PROVE  /\ \A a, x : Has(stored, a, x) => Has(stored', a, x)
         /\ \A m : Strings(stored, m) => Strings(stored', m)
         /\ \A m : Pointers(stored, m) => Pointers(stored', m)
  <1>1. \A a, x : Has(stored, a, x) => Has(stored', a, x)
    BY DEF Has, Grown
  <1> QED
    BY <1>1 DEF Strings, String, Pointers

\* The strings and addresses of the next state.
LEMMA NextState ==
  ASSUME tokens' = tokens
  PROVE  /\ (\A m : Strings(stored', m) => Strings(stored, m)')
         /\ (\A m : Pointers(stored', m) => Pointers(stored, m)')
         /\ NullWord(stored') => NullWord(stored)'
         /\ \A a, x : Has(stored', a, x) => Has(stored, a, x)'
  <1>1. Size' = Size /\ Bottom' = Bottom /\ \A k : Start(k)' = Start(k)
    BY LayoutKept
  <1>2. \A a, x : Has(stored', a, x) => Has(stored, a, x)'
    BY DEF Has
  <1>3. ASSUME NEW m, Strings(stored', m) PROVE Strings(stored, m)'
    BY <1>1, <1>3 DEF Strings, String, Start, Has
  <1>4. ASSUME NEW m, Pointers(stored', m) PROVE Pointers(stored, m)'
    BY <1>1, <1>4 DEF Pointers, Start, Has
  <1>5. NullWord(stored') => NullWord(stored)'
    BY <1>1 DEF NullWord, Has
  <1> QED
    BY <1>2, <1>3, <1>4, <1>5

\* The stack is not mapped or unmapped by a push.
LEMMA MappedKept == ASSUME StackMapped, UNCHANGED pagedir PROVE StackMapped'
  BY DEF StackMapped

\* What a step along the labels of the pushes has to show.
LEMMA AtLabel ==
  ASSUME StackMapped', NEW label \in OnStack, pc' = label,
         label = "token" => AtToken', label = "null" => AtNull',
         label = "address" => AtAddress', label \in Last => AtLast'
  PROVE  ArgvInv'
  BY DEF ArgvInv, OnStack, Last

\* A token is pushed with its NUL: String holds of it.
LEMMA PushTokenArgv ==
  ASSUME ImageInv, ArgvInv, PushToken
  PROVE  ArgvInv'
  <1> DEFINE k == num + 1
             n == tokens[k]
             low == sp - (n + 1)
             items == [a \in low..(low + n) |-> IF a = low + n THEN Zero ELSE <<"char", k, a - low>>]
  <1>1. pc = "token" /\ num < Len(tokens) /\ UNCHANGED <<tokens, pagedir>>
        /\ Push(n + 1, items, "token") /\ total_length' = total_length + n + 1 /\ num' = num + 1
    BY DEF PushToken, image
  <1>2. StackInv /\ tokens \in CommandLines /\ StackMapped /\ AtToken
    BY <1>1 DEF ImageInv, SegmentsInv, OnStack, ArgvInv
  <1>3. k \in 1..Len(tokens) /\ k \in 0..Len(tokens) /\ k - 1 = num /\ num \in 0..Len(tokens)
    BY <1>1, <1>2, Layout DEF AtToken
  <1>4. n \in Nat /\ n > 0 /\ Start(k) \in Int /\ Start(k) + n + 1 = Start(num)
        /\ Size[k] \in Nat /\ Size[k] <= Aligned /\ Start(k) + Size[k] = PHYS_BASE
        /\ Size[num] \in Nat /\ Start(num) \in Int /\ Start(num) + Size[num] = PHYS_BASE
    BY <1>2, <1>3, Layout
  <1>5. PHYS_BASE \in Nat /\ Aligned \in Nat /\ Len(tokens) \in Nat
        /\ Needed = Aligned + 4 + 4 * Len(tokens) + 12
    BY <1>2, Layout
  <1> HIDE DEF n
  <1>6. low = Start(k) /\ sp \in Int /\ sp <= PHYS_BASE
    <2> DEFINE s == Start(k)
               z == Size[num]
    <2>1. sp = Start(num)
      BY <1>2 DEF AtToken
    <2>2. s \in Int /\ n \in Nat /\ s + n + 1 = sp /\ z \in Nat /\ sp \in Int /\ sp + z = PHYS_BASE
      BY <1>4, <2>1
    <2> HIDE DEF s, z
    <2>3. sp - (n + 1) = s /\ sp <= PHYS_BASE
      BY <1>5, <2>2
    <2> QED
      BY <2>2, <2>3 DEF s
  <1>7. CASE pc' = "panic"
    <2>1. sp - (n + 1) >= PHYS_BASE - Needed
      <3> DEFINE s == Start(k)
                 z == Size[k]
      <3>1. s \in Int /\ z \in Nat /\ z <= Aligned /\ s + z = PHYS_BASE /\ sp - (n + 1) = s
        BY <1>4, <1>6
      <3> HIDE DEF s, z, k
      <3>2. Needed >= z /\ Needed \in Int
        BY <1>5, <3>1
      <3> QED
        BY <1>5, <3>1, <3>2
    <2> HIDE DEF items
    <2> QED
      BY <1>1, <1>2, <1>4, <1>6, <1>7, <2>1, Overflow
  <1>8. CASE pc' # "panic"
    <2>1. DOMAIN items = Start(k)..(Start(k) + n) /\ DOMAIN items \subseteq (sp - (n + 1))..(sp - 1)
      BY <1>4, <1>6
    <2>2. \A j \in 0..(n - 1) : Start(k) + j \in DOMAIN items /\ items[Start(k) + j] = <<"char", k, j>>
      <3> SUFFICES ASSUME NEW j \in 0..(n - 1)
                   PROVE  Start(k) + j \in DOMAIN items /\ items[Start(k) + j] = <<"char", k, j>>
        OBVIOUS
      <3>1. Start(k) + j \in low..(low + n) /\ Start(k) + j # low + n /\ (Start(k) + j) - low = j
        BY <1>4, <1>6
      <3> HIDE DEF k, low
      <3> QED
        BY <3>1
    <2>3. Start(k) + n \in DOMAIN items /\ items[Start(k) + n] = Zero
      BY <1>4, <1>6
    <2> HIDE DEF items
    <2>4. sp' = Start(k) /\ pc' = "token" /\ Grown(stored, stored')
          /\ \A a \in DOMAIN items : Has(stored', a, items[a])
      <3>1. n + 1 \in Nat
        BY <1>4
      <3>2. /\ sp' = sp - (n + 1) /\ pc' = "token" /\ Grown(stored, stored')
            /\ \A a \in DOMAIN items : Has(stored', a, items[a])
        <4> HIDE DEF low
        <4> QED
          BY <1>1, <1>2, <1>8, <2>1, <3>1, Pushes
      <3> QED
        BY <1>6, <3>2
    <2>5. String(stored', k)
      BY <2>2, <2>3, <2>4 DEF String, n
    <2>6. Strings(stored', num)
      BY <1>1, <1>2, <2>4, GrownKeeps DEF AtToken
    <2>7. Strings(stored', k)
      <3>1. \A m \in 1..k : m = k \/ m \in 1..num
        BY <1>3
      <3> QED
        BY <2>5, <2>6, <3>1 DEF Strings
    <2>8. total_length' = Size[k] /\ num' = k
      <3>1. total_length' = Size[num] + n + 1 /\ num' = k
        BY <1>1, <1>2 DEF AtToken
      <3>2. Size[k] = Size[num] + n + 1
        <4> DEFINE s == Start(k)
                   z == Size[k]
                   r == Start(num)
                   y == Size[num]
        <4>1. /\ s \in Int /\ z \in Nat /\ s + z = PHYS_BASE /\ n \in Nat
              /\ r \in Int /\ y \in Nat /\ r + y = PHYS_BASE /\ s + n + 1 = r
          BY <1>4
        <4> HIDE DEF s, z, r, y
        <4> QED
          BY <4>1 DEF z, y
      <3> QED
        BY <3>1, <3>2
    <2>9. AtToken'
      <3>1. Strings(stored, num)'
        BY <1>1, <2>7, <2>8, NextState
      <3>2. sp' = Start(num)' /\ total_length' = Size'[num']
        BY <1>1, <2>4, <2>8, LayoutKept DEF Start
      <3> QED
        BY <1>1, <1>3, <2>8, <3>1, <3>2 DEF AtToken
    <2> QED
      BY <1>1, <1>2, <2>4, <2>9, MappedKept, AtLabel DEF OnStack, Last
  <1> QED
    BY <1>7, <1>8

\* The padding goes from the tokens to a multiple of four.
LEMMA PushAlignArgv ==
  ASSUME ImageInv, ArgvInv, PushAlign
  PROVE  ArgvInv'
  <1> DEFINE items == [a \in (sp - Padding)..(sp - 1) |-> Zero]
  <1>1. pc = "token" /\ num = Len(tokens) /\ UNCHANGED <<tokens, pagedir, num>>
        /\ Push(Padding, items, "null") /\ args_pointer' = sp
    BY DEF PushAlign, image
  <1>2. StackInv /\ tokens \in CommandLines /\ StackMapped /\ AtToken
    BY <1>1 DEF ImageInv, SegmentsInv, OnStack, ArgvInv
  <1>3. Len(tokens) \in 0..Len(tokens) /\ Len(tokens) \in Nat
    BY <1>2, Layout
  <1>4. total_length = Size[Len(tokens)] /\ sp = Start(Len(tokens)) /\ Strings(stored, Len(tokens))
    BY <1>1, <1>2 DEF AtToken
  <1>5. Size[Len(tokens)] \in Nat /\ Start(Len(tokens)) \in Int
        /\ Start(Len(tokens)) + Size[Len(tokens)] = PHYS_BASE
        /\ Size[Len(tokens)] + ((- Size[Len(tokens)]) % 4) = Aligned
        /\ PHYS_BASE \in Nat /\ Aligned \in Nat /\ Needed = Aligned + 4 + 4 * Len(tokens) + 12
    BY <1>2, <1>3, Layout
  <1>6. Padding = (- Size[Len(tokens)]) % 4 /\ Padding \in Nat
    BY <1>4, <1>5 DEF Padding
  <1>7. sp - Padding = PHYS_BASE - Aligned /\ sp \in Int /\ sp <= PHYS_BASE
    <2> DEFINE z == Size[Len(tokens)]
               d == (- z) % 4
    <2>1. sp \in Int /\ z \in Nat /\ sp + z = PHYS_BASE /\ z + d = Aligned /\ Padding = d /\ d \in Nat
      BY <1>4, <1>5, <1>6
    <2> HIDE DEF z, d
    <2> QED
      BY <1>5, <2>1
  <1>8. CASE pc' = "panic"
    <2>1. sp - Padding >= PHYS_BASE - Needed
      BY <1>3, <1>5, <1>7
    <2> HIDE DEF items
    <2> QED
      BY <1>1, <1>2, <1>6, <1>7, <1>8, <2>1, Overflow
  <1>9. CASE pc' # "panic"
    <2>1. DOMAIN items \subseteq (sp - Padding)..(sp - 1)
      OBVIOUS
    <2> HIDE DEF items
    <2>2. sp' = PHYS_BASE - Aligned /\ pc' = "null" /\ Grown(stored, stored')
      BY <1>1, <1>2, <1>6, <1>7, <1>9, <2>1, Pushes
    <2>3. AtNull'
      <3>1. Strings(stored', Len(tokens))
        BY <1>1, <1>4, <2>2, GrownKeeps
      <3>2. Strings(stored, Len(tokens))' /\ Aligned' = Aligned /\ Start(Len(tokens))' = Start(Len(tokens))
        BY <1>1, <3>1, NextState, LayoutKept DEF Start
      <3> QED
        BY <1>1, <1>4, <2>2, <3>2 DEF AtNull
    <2> QED
      BY <1>1, <1>2, <2>2, <2>3, MappedKept, AtLabel DEF OnStack, Last
  <1> QED
    BY <1>8, <1>9

\* The word that ends argv: of the four bytes one is written.
LEMMA PushNullArgv ==
  ASSUME ImageInv, ArgvInv, PushNull
  PROVE  ArgvInv'
  <1>1. pc = "null" /\ UNCHANGED <<tokens, pagedir, args_pointer>> /\ num' = 0
        /\ PushWord(Zero, "address")
    BY DEF PushNull, image
  <1>2. StackInv /\ tokens \in CommandLines /\ StackMapped /\ AtNull
    BY <1>1 DEF ImageInv, SegmentsInv, OnStack, ArgvInv
  <1>3. Len(tokens) \in Nat /\ PHYS_BASE \in Nat /\ Aligned \in Nat
        /\ Needed = Aligned + 4 + 4 * Len(tokens) + 12 /\ Bottom \in Int
    BY <1>2, Layout
  <1>4. sp - 4 = Bottom /\ Bottom = PHYS_BASE - Aligned - 4 /\ sp \in Int /\ sp <= PHYS_BASE
    BY <1>2, <1>3 DEF AtNull, Bottom
  <1>5. CASE pc' = "panic"
    <2>1. sp - 4 >= PHYS_BASE - Needed /\ 4 \in Nat
      BY <1>3, <1>4
    <2> QED
      BY <1>1, <1>2, <1>4, <1>5, <2>1, Overflow DEF PushWord
  <1>6. CASE pc' # "panic"
    <2>1. /\ sp' = Bottom /\ pc' = "address" /\ Grown(stored, stored')
          /\ DOMAIN stored' = {Bottom} \cup DOMAIN stored /\ Has(stored', Bottom, Zero)
      BY <1>1, <1>2, <1>4, <1>6, PushesWord
    <2>2. NullWord(stored')
      <3>1. \A n \in 1..3 : Bottom + n # Bottom /\ Bottom + n \notin sp..(PHYS_BASE - 1)
        BY <1>3, <1>4
      <3> QED
        BY <1>2, <2>1, <3>1 DEF NullWord, StackInv
    <2>3. Strings(stored', Len(tokens))
      BY <1>1, <1>2, <2>1, GrownKeeps DEF AtNull
    <2>4. Pointers(stored', 0)
      <3>1. (Len(tokens) - 0 + 1)..Len(tokens) = {}
        BY <1>3
      <3> QED
        BY <3>1 DEF Pointers
    <2>5. AtAddress'
      <3>1. Strings(stored, Len(tokens))' /\ NullWord(stored)' /\ Pointers(stored, num)'
        BY <1>1, <2>2, <2>3, <2>4, NextState
      <3>2. Bottom' = Bottom /\ Start(Len(tokens) - num)' = Start(Len(tokens))
        <4>1. Len(tokens') - num' = Len(tokens)
          BY <1>1, <1>3
        <4> QED
          BY <1>1, <4>1, LayoutKept DEF Start
      <3>3. sp' = Bottom' - 4 * num' /\ num' \in 0..Len(tokens)
        BY <1>1, <1>3, <2>1, <3>2
      <3> QED
        BY <1>1, <1>2, <3>1, <3>2, <3>3 DEF AtAddress, AtNull
    <2> QED
      BY <1>1, <1>2, <2>1, <2>5, MappedKept, AtLabel DEF OnStack, Last
  <1> QED
    BY <1>5, <1>6

\* A string is as long as its token.
LEMMA StrlenIs ==
  ASSUME tokens \in CommandLines, NEW k \in 1..Len(tokens), String(stored, k)
  PROVE  Strlen(Start(k)) = tokens[k]
  <1> DEFINE a == Start(k)
             n == tokens[k]
             D == 0..(PHYS_BASE - a)
             P(m) == At(a + m) = Zero /\ \A j \in 0..(m - 1) : At(a + j) # Zero
  <1>1. n \in Nat /\ a \in Int /\ n \in D
    <2>1. k \in 0..Len(tokens) /\ k - 1 \in 0..Len(tokens) /\ k \in Nat
      BY Layout
    <2>2. Start(k) \in Int /\ Start(k) + Size[k] = PHYS_BASE /\ Size[k] \in Nat
          /\ Start(k - 1) + Size[k - 1] = PHYS_BASE /\ Size[k - 1] \in Nat /\ Start(k - 1) \in Int
          /\ tokens[k] \in Nat /\ Start(k) + tokens[k] + 1 = Start(k - 1) /\ PHYS_BASE \in Nat
      BY <2>1, Layout
    <2> QED
      BY <2>2
  <1>2. \A j \in 0..(n - 1) : At(a + j) # Zero
    <2> SUFFICES ASSUME NEW j \in 0..(n - 1) PROVE At(a + j) # Zero
      OBVIOUS
    <2>1. At(a + j) = <<"char", k, j>>
      BY DEF String, Has, At
    <2>2. <<"char", k, j>> # <<"zero">>
      OBVIOUS
    <2> QED
      BY <2>1, <2>2 DEF Zero
  <1>3. At(a + n) = Zero
    BY DEF String, Has, At
  <1> HIDE DEF a, n
  <1>4. P(n)
    BY <1>2, <1>3
  <1>5. \A m \in D : P(m) => m = n
    <2> SUFFICES ASSUME NEW m \in D, P(m), m # n PROVE FALSE
      OBVIOUS
    <2>1. CASE m < n
      <3>1. m \in 0..(n - 1)
        BY <1>1, <2>1
      <3> QED
        BY <1>2, <3>1
    <2>2. CASE n < m
      <3>1. n \in 0..(m - 1)
        BY <1>1, <2>2
      <3> QED
        BY <1>3, <3>1
    <2> QED
      BY <1>1, <2>1, <2>2
  <1>6. Strlen(a) = CHOOSE m \in D : P(m)
    BY DEF Strlen
  <1> HIDE DEF D, P
  <1> QED
    BY <1>1, <1>4, <1>5, <1>6 DEF a, n

\* A word below the null word leaves it.
LEMMA NullKept ==
  ASSUME NullWord(stored), Grown(stored, stored'), DOMAIN stored' = {sp - 4} \cup DOMAIN stored,
         sp \in Int, Bottom \in Int, sp <= Bottom
  PROVE  NullWord(stored')
  <1>1. \A n \in 1..3 : Bottom + n # sp - 4
    OBVIOUS
  <1> QED
    BY <1>1 DEF NullWord, Has, Grown

\* The address of a token is pushed, and strlen leads to the one before it.
LEMMA PushAddressArgv ==
  ASSUME ImageInv, ArgvInv, PushAddress
  PROVE  ArgvInv'
  <1> DEFINE L == Len(tokens)
             k == L - num
  <1>1. pc = "address" /\ num < L /\ UNCHANGED <<tokens, pagedir>>
        /\ PushWord(Word(args_pointer), "address") /\ num' = num + 1
        /\ args_pointer' = args_pointer + Strlen(args_pointer) + 1
    BY DEF PushAddress, image
  <1>2. StackInv /\ tokens \in CommandLines /\ StackMapped /\ AtAddress
    BY <1>1 DEF ImageInv, SegmentsInv, OnStack, ArgvInv
  <1>3. L \in Nat /\ PHYS_BASE \in Nat /\ Aligned \in Nat /\ Bottom \in Int
        /\ Needed = Aligned + 4 + 4 * L + 12 /\ Bottom = PHYS_BASE - Aligned - 4
    BY <1>2, Layout DEF Bottom
  <1>4. num \in 0..L /\ sp = Bottom - 4 * num /\ args_pointer = Start(k)
        /\ Strings(stored, L) /\ NullWord(stored) /\ Pointers(stored, num)
    BY <1>2 DEF AtAddress
  <1> HIDE DEF L
  <1>5. k \in 1..L /\ k - 1 = L - (num + 1) /\ num + 1 \in 0..L
    BY <1>1, <1>3, <1>4
  <1>6. sp \in Int /\ sp <= PHYS_BASE /\ sp <= Bottom /\ sp - 4 = Bottom - 4 * (num + 1)
    BY <1>3, <1>4
  <1>7. CASE pc' = "panic"
    <2>1. sp - 4 >= PHYS_BASE - Needed /\ 4 \in Nat
      BY <1>1, <1>3, <1>4
    <2> QED
      BY <1>1, <1>2, <1>6, <1>7, <2>1, Overflow DEF PushWord
  <1>8. CASE pc' # "panic"
    <2>1. /\ sp' = sp - 4 /\ pc' = "address" /\ Grown(stored, stored')
          /\ DOMAIN stored' = {sp - 4} \cup DOMAIN stored
          /\ Has(stored', sp - 4, Word(args_pointer))
      BY <1>1, <1>2, <1>8, PushesWord
    <2>2. Strings(stored', L) /\ NullWord(stored')
      BY <1>1, <1>3, <1>4, <1>6, <2>1, GrownKeeps, NullKept
    <2>3. Pointers(stored', num + 1)
      <3> SUFFICES ASSUME NEW j \in (L - (num + 1) + 1)..L
                   PROVE  Has(stored', Bottom - 4 * (L - j + 1), Word(Start(j)))
        BY DEF Pointers, L
      <3>1. Pointers(stored', num)
        BY <1>1, <1>4, <2>1, GrownKeeps
      <3>2. CASE j = k
        <4>1. Bottom - 4 * (L - j + 1) = sp - 4
          BY <1>3, <1>4, <1>6, <3>2
        <4> QED
          BY <1>4, <2>1, <3>2, <4>1
      <3>3. CASE j # k
        <4>1. j \in (L - num + 1)..L
          BY <1>3, <1>4, <3>3
        <4> QED
          BY <3>1, <4>1 DEF Pointers, L
      <3> QED
        BY <3>2, <3>3
    <2>4. args_pointer' = Start(L - (num + 1))
      <3> HIDE DEF k
      <3>1. Strlen(Start(k)) = tokens[k]
        <4>1. String(stored, k)
          BY <1>4, <1>5 DEF Strings
        <4> QED
          BY <1>2, <1>5, <4>1, StrlenIs DEF L
      <3>2. Start(k) + tokens[k] + 1 = Start(k - 1)
        BY <1>2, <1>5, Layout DEF L
      <3> QED
        BY <1>1, <1>4, <1>5, <3>1, <3>2
    <2>5. AtAddress'
      <3>1. Strings(stored, L)' /\ NullWord(stored)' /\ Pointers(stored, num)'
        <4>1. num' = num + 1 /\ L' = L /\ tokens' = tokens
          BY <1>1 DEF L
        <4> QED
          BY <2>2, <2>3, <4>1, NextState
      <3>2. Bottom' = Bottom /\ Start(L - num)' = Start(L - (num + 1))
        BY <1>1, LayoutKept DEF Start, L
      <3>3. sp' = Bottom' - 4 * num' /\ num' \in 0..L /\ args_pointer' = Start(L - num)'
        BY <1>1, <1>5, <1>6, <2>1, <2>4, <3>2
      <3> QED
        BY <1>1, <3>1, <3>3 DEF AtAddress, L
    <2> QED
      BY <1>1, <1>2, <2>1, <2>5, MappedKept, AtLabel DEF OnStack, Last
  <1> QED
    BY <1>7, <1>8

\* Each of the last three words leaves the strings and their addresses, or the stack is full.
LEMMA LastWord ==
  ASSUME StackInv, StackMapped, tokens \in CommandLines, UNCHANGED <<tokens, num>>,
         num = Len(tokens), Strings(stored, num), NullWord(stored), Pointers(stored, num),
         sp \in {Argv, Argv - 4, Argv - 8}, NEW content, NEW label, PushWord(content, label),
         label # "panic"
  PROVE  \/ pc' = "panic" /\ ArgvInv'
         \/ /\ pc' = label /\ sp' = sp - 4 /\ Grown(stored, stored')
            /\ Has(stored', sp - 4, content)
            /\ Strings(stored, num)' /\ NullWord(stored)' /\ Pointers(stored, num)'
  <1>1. Len(tokens) \in Nat /\ PHYS_BASE \in Nat /\ Aligned \in Nat /\ Bottom \in Int
        /\ Argv - 12 = PHYS_BASE - Needed /\ Argv = Bottom - 4 * Len(tokens)
        /\ Bottom = PHYS_BASE - Aligned - 4
    BY Layout DEF Argv, Bottom
  <1>2. Argv \in Int
    BY <1>1
  <1>3. sp \in Int /\ sp <= PHYS_BASE /\ sp <= Bottom
    BY <1>1
  <1>4. CASE pc' = "panic"
    <2>1. sp - 4 >= Argv - 12 /\ 4 \in Nat
      BY <1>2
    <2> QED
      BY <1>1, <1>3, <1>4, <2>1, Overflow DEF PushWord
  <1>5. CASE pc' # "panic"
    <2>1. /\ sp' = sp - 4 /\ pc' = label /\ Grown(stored, stored')
          /\ DOMAIN stored' = {sp - 4} \cup DOMAIN stored
          /\ Has(stored', sp - 4, content)
      BY <1>5, PushesWord
    <2>2. Strings(stored', num) /\ NullWord(stored') /\ Pointers(stored', num)
      BY <1>1, <1>3, <2>1, GrownKeeps, NullKept
    <2>3. Strings(stored, num)' /\ NullWord(stored)' /\ Pointers(stored, num)'
      BY <2>2, NextState
    <2> QED
      BY <2>1, <2>3
  <1> QED
    BY <1>4, <1>5

\* argv, argc and the return address.
LEMMA PushLastArgv ==
  ASSUME ImageInv, ArgvInv, PushLast
  PROVE  ArgvInv'
  <1>1. UNCHANGED <<tokens, pagedir, num>> /\ pc \in OnStack
    BY DEF PushLast, image, OnStack
  <1>2. StackInv /\ tokens \in CommandLines /\ StackMapped
    BY <1>1 DEF ImageInv, SegmentsInv, ArgvInv, OnStack
  <1>3. StackMapped'
    BY <1>1, <1>2, MappedKept
  <1>4. Argv \in Int /\ Len(tokens) \in Nat /\ Argv' = Argv
    BY <1>1, <1>2, Layout, LayoutKept
  <1>5. CASE pc = "address" /\ num = Len(tokens) /\ PushWord(Word(sp), "argc")
    <2>1. AtAddress /\ sp = Argv
      BY <1>5 DEF ArgvInv, AtAddress, Argv
    <2>2. \/ pc' = "panic" /\ ArgvInv'
          \/ /\ pc' = "argc" /\ sp' = sp - 4
             /\ Has(stored', sp - 4, Word(sp))
             /\ Strings(stored, num)' /\ NullWord(stored)' /\ Pointers(stored, num)'
      BY <1>1, <1>2, <1>5, <2>1, LastWord DEF AtAddress
    <2>3. ASSUME pc' # "panic" PROVE AtLast'
      <3>1. Has(stored, Argv - 4, Word(Argv))'
        BY <1>1, <1>4, <2>1, <2>2, <2>3 DEF Has, Word
      <3> QED
        BY <1>1, <1>4, <1>5, <2>1, <2>2, <2>3, <3>1 DEF AtLast
    <2> QED
      BY <1>3, <2>2, <2>3, AtLabel DEF OnStack, Last
  <1>6. CASE pc = "argc" /\ PushWord(Word(num), "return")
    <2>1. AtLast /\ sp = Argv - 4 /\ num = Len(tokens)
      BY <1>6 DEF ArgvInv, AtLast, Last
    <2>2. \/ pc' = "panic" /\ ArgvInv'
          \/ /\ pc' = "return" /\ sp' = sp - 4 /\ Grown(stored, stored')
             /\ Has(stored', sp - 4, Word(num))
             /\ Strings(stored, num)' /\ NullWord(stored)' /\ Pointers(stored, num)'
      BY <1>1, <1>2, <1>6, <2>1, LastWord DEF AtLast
    <2>3. ASSUME pc' # "panic" PROVE AtLast'
      <3>1. Has(stored', Argv - 4, Word(Argv)) /\ Has(stored', Argv - 8, Word(num))
        BY <1>4, <2>1, <2>2, <2>3 DEF AtLast, Has, Grown
      <3>2. Has(stored, Argv - 4, Word(Argv))' /\ Has(stored, Argv - 8, Word(num))'
        BY <1>1, <1>4, <3>1 DEF Has, Word
      <3> QED
        BY <1>1, <1>4, <1>6, <2>1, <2>2, <2>3, <3>2 DEF AtLast
    <2> QED
      BY <1>3, <2>2, <2>3, AtLabel DEF OnStack, Last
  <1>7. CASE pc = "return" /\ PushWord(Word(0), "deny")
    <2>1. AtLast /\ sp = Argv - 8 /\ num = Len(tokens)
      BY <1>7 DEF ArgvInv, AtLast, Last
    <2>2. \/ pc' = "panic" /\ ArgvInv'
          \/ /\ pc' = "deny" /\ sp' = sp - 4 /\ Grown(stored, stored')
             /\ Has(stored', sp - 4, Word(0))
             /\ Strings(stored, num)' /\ NullWord(stored)' /\ Pointers(stored, num)'
      BY <1>1, <1>2, <1>7, <2>1, LastWord DEF AtLast
    <2>3. ASSUME pc' # "panic" PROVE AtLast'
      <3>1. /\ Has(stored', Argv - 4, Word(Argv)) /\ Has(stored', Argv - 8, Word(num))
            /\ Has(stored', Argv - 12, Word(0))
        BY <1>4, <1>7, <2>1, <2>2, <2>3 DEF AtLast, Has, Grown
      <3>2. /\ Has(stored, Argv - 4, Word(Argv))' /\ Has(stored, Argv - 8, Word(num))'
            /\ Has(stored, Argv - 12, Word(0))'
        BY <1>1, <1>4, <3>1 DEF Has, Word
      <3> QED
        BY <1>1, <1>4, <1>7, <2>1, <2>2, <2>3, <3>2 DEF AtLast
    <2> QED
      BY <1>3, <2>2, <2>3, AtLabel DEF OnStack, Last
  <1> QED
    BY <1>5, <1>6, <1>7 DEF PushLast

\* Before the stack has its page there is nothing to show.
LEMMA BeforeArgv ==
  ASSUME NEW label, pc' = label, label \notin OnStack, label # "panic"
  PROVE  ArgvInv'
  BY DEF ArgvInv, OnStack, Last

\* The stack starts empty.
LEMMA InstallStackArgv ==
  ASSUME ImageInv, ArgvInv, InstallStack
  PROVE  ArgvInv'
  <1>1. CASE Fail
    BY <1>1, BeforeArgv DEF Fail, OnStack
  <1>2. CASE Installs(StackPage, [ofs |-> 0, read |-> 0, writable |-> TRUE])
             /\ sp' = PHYS_BASE /\ pc' = "token"
    <2>1. UNCHANGED <<tokens, num, total_length, stored>> /\ pc = "stack"
      BY DEF InstallStack
    <2>2. tokens \in CommandLines /\ num = 0 /\ total_length = 0
      BY <2>1 DEF ImageInv, SegmentsInv, OnStack
    <2>3. StackMapped'
      BY <1>2 DEF Installs, StackMapped
    <2>4. Len(tokens) \in Nat /\ Size[0] = 0 /\ PHYS_BASE \in Nat
      BY <2>2, SizeIs, Layout
    <2>5. AtToken'
      <3>1. Strings(stored', 0)
        BY DEF Strings
      <3>2. Strings(stored, num)' /\ Size' = Size /\ num' = 0 /\ total_length' = 0
        BY <2>1, <2>2, <3>1, NextState, LayoutKept
      <3>3. sp' = Start(num)'
        BY <1>2, <2>4, <3>2 DEF Start, PHYS_BASE
      <3> QED
        BY <2>1, <2>4, <3>2, <3>3 DEF AtToken
    <2> QED
      BY <1>2, <2>3, <2>5, AtLabel DEF OnStack, Last
  <1> QED
    BY <1>1, <1>2 DEF InstallStack

\* Every step.
LEMMA ArgvNext ==
  ASSUME ImageInv, ArgvInv, [Next]_vars
  PROVE  ArgvInv'
  <1>1. CASE Open
    BY <1>1, BeforeArgv DEF Open, Fail, OnStack
  <1>2. CASE ReadHeader
    BY <1>2, BeforeArgv DEF ReadHeader, Fail, OnStack
  <1>3. CASE NextHeader
    <2>1. pc' \in {"phdr", "failed", "segment"}
      BY <1>3 DEF NextHeader, Fail
    <2> QED
      BY <2>1, BeforeArgv DEF OnStack
  <1>4. CASE GetPage
    BY <1>4, BeforeArgv DEF GetPage, Fail, OnStack
  <1>5. CASE ReadPage
    BY <1>5, BeforeArgv DEF ReadPage, Fail, OnStack
  <1>6. CASE InstallPage
    BY <1>6, BeforeArgv DEF InstallPage, Fail, OnStack
  <1>7. CASE GetStackPage
    BY <1>7, BeforeArgv DEF GetStackPage, Fail, OnStack
  <1>8. CASE Finish
    <2>1. pc = "deny" /\ pc' = "loaded" /\ UNCHANGED <<tokens, pagedir, sp, stored, num>>
      BY <1>8 DEF Finish, image, stack
    <2>2. StackMapped' /\ AtLast
      BY <2>1 DEF ArgvInv, StackMapped, OnStack, Last
    <2>3. AtLast'
      <3>1. /\ Strings(stored, num)' /\ NullWord(stored)' /\ Pointers(stored, num)'
            /\ Has(stored, Argv - 4, Word(Argv))' /\ Has(stored, Argv - 8, Word(num))'
            /\ Has(stored, Argv - 12, Word(0))' /\ Argv' = Argv
        BY <2>1, <2>2, NextState, LayoutKept DEF AtLast, Has, Word
      <3> QED
        BY <2>1, <2>2, <3>1 DEF AtLast
    <2> QED
      BY <2>1, <2>2, <2>3, AtLabel DEF OnStack, Last
  <1>9. CASE UNCHANGED vars
    <2>1. UNCHANGED <<tokens, pc, pagedir, sp, stored, num, total_length, args_pointer>>
      BY <1>9 DEF vars, image, stack
    <2>2. /\ Size' = Size /\ Aligned' = Aligned /\ Bottom' = Bottom /\ Argv' = Argv
          /\ (\A k : Start(k)' = Start(k)) /\ ArgsFit' = ArgsFit
      BY <2>1, LayoutKept
    <2>3. /\ \A m : Strings(stored, m) => Strings(stored, m)'
          /\ \A m : Pointers(stored, m) => Pointers(stored, m)'
          /\ NullWord(stored) => NullWord(stored)'
      BY <2>1, NextState
    <2> QED
      BY <2>1, <2>2, <2>3
      DEF ArgvInv, StackMapped, AtToken, AtNull, AtAddress, AtLast, Has, Word, PHYS_BASE
  <1> QED
    BY <1>1, <1>2, <1>3, <1>4, <1>5, <1>6, <1>7, <1>8, <1>9, InstallStackArgv, PushTokenArgv,
       PushAlignArgv, PushNullArgv, PushAddressArgv, PushLastArgv DEF Next

\* The stack starts at a multiple of four.
LEMMA BaseAligned == PHYS_BASE % 4 = 0
  <1>1. UserPages \in Nat /\ PGSIZE \in Nat /\ PGSIZE % 4 = 0
    BY LoaderAssumption
  <1>2. PICK q \in Nat : PGSIZE = 4 * q
    <2>1. PGSIZE = 4 * (PGSIZE \div 4) /\ PGSIZE \div 4 \in Nat
      BY <1>1
    <2> QED
      BY <2>1
  <1>3. PHYS_BASE = 4 * (UserPages * q) /\ UserPages * q \in Nat
    BY <1>1, <1>2 DEF PHYS_BASE
  <1> DEFINE m == UserPages * q
  <1> HIDE DEF m
  <1>4. m \in Nat => (4 * m) % 4 = 0
    OBVIOUS
  <1> QED
    BY <1>3, <1>4 DEF m

\* What is stored is what the memory has.
LEMMA HasAt == ASSUME NEW a, NEW x, Has(stored, a, x) PROVE At(a) = x
  BY DEF Has, At

\* The invariant gives the property.
LEMMA ArgvExactHolds ==
  ASSUME ImageInv, ArgvInv
  PROVE  ArgvExact
  <1> DEFINE L == Len(tokens)
  <1>1. pc = "panic" => ~ ArgsFit
    BY DEF ArgvInv
  <1> SUFFICES ASSUME pc = "loaded"
               PROVE  /\ OnPage <=> ArgsFit
                      /\ OnPage => /\ sp % 4 = 0 /\ At(sp) = Word(0) /\ At(sp + 4) = Word(L)
                                   /\ At(sp + 8) = Word(sp + 12)
                                   /\ \A k \in 1..L : \E address \in sp..(PHYS_BASE - 1) :
                                        /\ At(sp + 12 + 4 * (k - 1)) = Word(address)
                                        /\ Holds(address, k)
                                   /\ \A n \in 0..3 : At(sp + 12 + 4 * L + n) = Zero
    BY <1>1 DEF ArgvExact
  <1>2. StackMapped /\ AtLast /\ tokens \in CommandLines
    BY DEF ImageInv, ArgvInv, OnStack, Last
  <1>3. /\ L \in Nat /\ PHYS_BASE \in Nat /\ Aligned \in Nat /\ Aligned % 4 = 0 /\ Bottom \in Int
        /\ Argv - 12 = PHYS_BASE - Needed /\ Argv = Bottom - 4 * L
        /\ Bottom = PHYS_BASE - Aligned - 4 /\ Needed = Aligned + 4 + 4 * L + 12
    BY <1>2, Layout DEF Argv, Bottom
  <1>4. /\ num = L /\ Strings(stored, L) /\ NullWord(stored) /\ Pointers(stored, L) /\ sp = Argv - 12
        /\ Has(stored, Argv - 4, Word(Argv)) /\ Has(stored, Argv - 8, Word(L))
        /\ Has(stored, Argv - 12, Word(0))
    BY <1>2 DEF AtLast
  <1> HIDE DEF L
  <1>5. Argv \in Int /\ Argv = sp + 12 /\ sp \in Int
    BY <1>3, <1>4
  <1>6. PGSIZE \in Nat /\ PGSIZE > 0
    BY LoaderAssumption
  <1>7. OnPage <=> ArgsFit
    BY <1>3, <1>4, <1>6 DEF OnPage, ArgsFit
  <1>8. sp % 4 = 0
    BY <1>3, <1>4, BaseAligned
  <1>9. At(sp) = Word(0) /\ At(sp + 4) = Word(L) /\ At(sp + 8) = Word(sp + 12)
    <2>1. sp = Argv - 12 /\ sp + 4 = Argv - 8 /\ sp + 8 = Argv - 4 /\ sp + 12 = Argv
      BY <1>5
    <2> QED
      BY <1>4, <2>1, HasAt
  <1>10. ASSUME NEW k \in 1..L
         PROVE  \E address \in sp..(PHYS_BASE - 1) :
                  At(sp + 12 + 4 * (k - 1)) = Word(address) /\ Holds(address, k)
    <2>1. /\ Size[k] \in Nat /\ Size[k] <= Aligned /\ Start(k) \in Int /\ Start(k) + Size[k] = PHYS_BASE
          /\ tokens[k] \in Nat /\ Start(k) + tokens[k] + 1 = Start(k - 1)
          /\ Start(k - 1) \in Int /\ Size[k - 1] \in Nat /\ Start(k - 1) + Size[k - 1] = PHYS_BASE
      <3>1. k \in 0..L /\ k - 1 \in 0..L
        BY <1>3
      <3> QED
        BY <1>2, <3>1, Layout DEF L
    <2>2. Start(k) \in sp..(PHYS_BASE - 1)
      BY <1>3, <1>4, <2>1
    <2>3. At(sp + 12 + 4 * (k - 1)) = Word(Start(k))
      <3>1. k \in (L - L + 1)..L
        BY <1>3
      <3>2. Has(stored, Bottom - 4 * (L - k + 1), Word(Start(k)))
        BY <1>4, <3>1 DEF Pointers, L
      <3>3. sp + 12 + 4 * (k - 1) = Bottom - 4 * (L - k + 1)
        BY <1>3, <1>4
      <3> QED
        BY <3>2, <3>3, HasAt
    <2>4. Holds(Start(k), k)
      <3>1. String(stored, k)
        BY <1>4 DEF Strings
      <3> QED
        BY <3>1, HasAt DEF String, Holds
    <2> QED
      BY <2>2, <2>3, <2>4
  <1>11. ASSUME OnPage, NEW n \in 0..3 PROVE At(sp + 12 + 4 * L + n) = Zero
    <2>1. sp + 12 + 4 * L + n = Bottom + n
      BY <1>3, <1>4
    <2>2. CASE n = 0
      <3>1. Bottom + n = Bottom
        BY <1>3, <2>2
      <3> QED
        BY <1>4, <2>1, <3>1, HasAt DEF NullWord
    <2>3. CASE n # 0
      <3> DEFINE a == Bottom + n
                 B == StackPage * PGSIZE
      <3>1. a \notin DOMAIN stored
        BY <1>4, <2>3 DEF NullWord
      <3>2. PHYS_BASE = B + PGSIZE /\ B \in Nat /\ StackPage \in Nat
        BY Multiples, LoaderAssumption DEF PHYS_BASE, StackPage
      <3>3. a \in Nat /\ B <= a /\ a < B + PGSIZE
        <4> HIDE DEF B
        <4>1. a \in Int /\ B <= a /\ a < PHYS_BASE
          BY <1>3, <1>4, <1>6, <1>11, <3>2 DEF OnPage
        <4> QED
          BY <3>2, <4>1
      <3> HIDE DEF a
      <3>4. a \div PGSIZE = StackPage
        BY <1>6, <3>2, <3>3, PageOf
      <3>5. ~ (a % PGSIZE < 0)
        BY <1>6, <3>3
      <3> QED
        BY <1>2, <2>1, <3>1, <3>4, <3>5 DEF At, StackMapped, a
    <2> QED
      BY <2>2, <2>3
  <1> QED
    BY <1>7, <1>8, <1>9, <1>10, <1>11

\* A loaded program finds argc, argv and the strings where main expects them, each address the
\* start of its string, on an aligned stack, and the kernel stops, or the stack leaves its page,
\* only when the arguments do not fit (ArgvExact), for every command line and every page size.
THEOREM ArgumentsRight == Spec => []ArgvExact
  <1>1. Init => ImageInv /\ ArgvInv
    BY ImageInit DEF Init, ArgvInv, OnStack, Last
  <1>2. ImageInv /\ ArgvInv /\ [Next]_vars => ImageInv' /\ ArgvInv'
    BY ImageNext, ArgvNext
  <1>3. ImageInv /\ ArgvInv => ArgvExact
    BY ArgvExactHolds
  <1> QED
    BY <1>1, <1>2, <1>3, PTL DEF Spec
=============================================================================
