----------------------------- MODULE InputProofs -----------------------------
(***************************************************************************)
(* Theorems about ServiceInput, for all widths of the integer types, any    *)
(* length of targets and command lines, and any texts given as numbers.     *)
(***************************************************************************)
EXTENDS ServiceInput, SequenceTheorems, FiniteSetTheorems, WellFoundedInduction, TLAPS

-----------------------------------------------------------------------------
(* Induction. The library's induction theorems take an operator; these take *)
(* the set of the numbers for which a formula holds.                        *)

\* Every non-empty set of naturals has a least element.
LEMMA NatLeast ==
    ASSUME NEW T, T \subseteq Nat, T # {}
    PROVE  \E n \in T : \A m \in T : n <= m
<1> DEFINE Sets == {0..n : n \in T}
<1>1. Sets \subseteq FiniteSubsetsOf(Nat)
    <2>1. \A n \in T : 0..n \subseteq Nat /\ IsFiniteSet(0..n)
        BY FS_Interval
    <2> QED
        BY <2>1 DEF FiniteSubsetsOf
<1>2. IsWellFoundedOn(StrictSubsetOrdering(Nat), FiniteSubsetsOf(Nat))
    BY FS_StrictSubsetOrderingWellFounded
<1>3. Sets # {}
    OBVIOUS
<1>4. PICK x \in Sets : \A y \in Sets : ~(<<y, x>> \in StrictSubsetOrdering(Nat))
    <2> HIDE DEF Sets
    <2> QED
        BY <1>1, <1>2, <1>3, WFMin
<1>5. PICK n \in T : x = 0..n
    OBVIOUS
<1>6. ASSUME NEW m \in T PROVE n <= m
    <2>1. n \in Nat /\ m \in Nat
        OBVIOUS
    <2>2. SUFFICES ASSUME m < n PROVE FALSE
        BY <2>1
    <2>3. 0..m \subseteq 0..n /\ 0..m # 0..n /\ 0..m \in SUBSET Nat /\ 0..n \in SUBSET Nat
        BY <2>1, <2>2
    <2>4. <<0..m, 0..n>> \in StrictSubsetOrdering(Nat)
        BY <2>3 DEF StrictSubsetOrdering
    <2> QED
        BY <1>4, <1>5, <2>4
<1> QED
    BY <1>6

\* A set that has 0 and every successor of its elements has all naturals.
LEMMA SetInduction ==
    ASSUME NEW T, 0 \in T, \A n \in Nat : n \in T => n + 1 \in T
    PROVE  Nat \subseteq T
<1>1. SUFFICES ASSUME Nat \ T # {} PROVE FALSE
    OBVIOUS
<1>2. PICK n \in Nat \ T : \A m \in Nat \ T : n <= m
    BY <1>1, NatLeast
<1>3. n # 0 /\ n - 1 \in Nat /\ n - 1 \notin T
    BY <1>2
<1> QED
    BY <1>2, <1>3

-----------------------------------------------------------------------------
(* Parts of sequences.                                                      *)

\* What SubSeq takes of a sequence.
LEMMA PartOf ==
    ASSUME NEW S, NEW s \in Seq(S), NEW m \in Nat, NEW n \in 0..Len(s), m >= 1, m <= n + 1
    PROVE  /\ SubSeq(s, m, n) \in Seq(S) /\ Len(SubSeq(s, m, n)) = n + 1 - m
           /\ \A j \in 1..(n + 1 - m) : SubSeq(s, m, n)[j] = s[m + j - 1]
<1>1. m \in Int /\ n \in Int /\ \A j \in m..n : s[j] \in S
    OBVIOUS
<1>2. /\ SubSeq(s, m, n) \in Seq(S)
      /\ Len(SubSeq(s, m, n)) = IF m <= n THEN n - m + 1 ELSE 0
      /\ \A j \in 1..(n - m + 1) : SubSeq(s, m, n)[j] = s[m + j - 1]
    BY <1>1, SubSeqProperties
<1>3. n - m + 1 = n + 1 - m /\ (m <= n \/ n + 1 - m = 0)
    OBVIOUS
<1> QED
    BY <1>2, <1>3

\* Find returns the first position of the character, or 0.
LEMMA FindFirst ==
    ASSUME NEW S, NEW text \in Seq(S), NEW char, NEW begin \in Nat, begin >= 1
    PROVE  \/ /\ Find(text, char, begin) = 0
              /\ \A i \in begin..Len(text) : text[i] # char
           \/ /\ Find(text, char, begin) \in begin..Len(text)
              /\ text[Find(text, char, begin)] = char
              /\ \A i \in begin..(Find(text, char, begin) - 1) : text[i] # char
<1> DEFINE found == {i \in begin..Len(text) : text[i] = char}
<1>1. CASE found = {}
    BY <1>1 DEF Find
<1>2. CASE found # {}
    <2>1. found \subseteq Nat
        OBVIOUS
    <2>2. \E i \in found : \A j \in found : i <= j
        <3> HIDE DEF found
        <3> QED
            BY <1>2, <2>1, NatLeast
    <2>3. Find(text, char, begin) \in found /\ \A j \in found : Find(text, char, begin) <= j
        BY <1>2, <2>2 DEF Find
    <2> QED
        BY <2>3
<1> QED
    BY <1>1, <1>2
-----------------------------------------------------------------------------
(* The query that asks to wait.                                             *)

Waits == {"wait=true", "wait=1"}

\* An item of the query from position b on asks to wait.
Asked(query, b) ==
    \E i \in b..Len(query) :
        /\ query[i] \in Waits
        /\ i = Len(query) \/ query[i + 1] = "&"
        /\ i = b \/ query[i - 1] = "&"

\* An item asks to wait if it is the one text that asks.
LEMMA ItemAsks ==
    ASSUME NEW S, NEW query \in Seq(S), NEW b \in 1..(Len(query) + 1),
           NEW end, end = 0 \/ end \in b..Len(query)
    PROVE  Item(query, b, end) \in WaitItems
               <=> /\ b = (IF end = 0 THEN Len(query) ELSE end - 1)
                   /\ query[b] \in Waits
<1> DEFINE last == IF end = 0 THEN Len(query) ELSE end - 1
           item == SubSeq(query, b, last)
<1>1. last \in 0..Len(query) /\ b \in Nat /\ b >= 1 /\ b <= last + 1
    OBVIOUS
<1>2. /\ item \in Seq(S) /\ Len(item) = last + 1 - b
      /\ \A j \in 1..(last + 1 - b) : item[j] = query[b + j - 1]
    <2> HIDE DEF last
    <2> QED
        BY <1>1, PartOf
<1>3. Item(query, b, end) = item
    BY DEF Item
<1> HIDE DEF last, item
<1>4. ASSUME item \in WaitItems PROVE b = last /\ query[b] \in Waits
    <2>1. Len(item) = 1 /\ item[1] \in Waits
        BY <1>4 DEF WaitItems, Waits
    <2>2. b = last
        <3>1. last + 1 - b = 1
            BY <1>2, <2>1
        <3>2. Len(query) \in Nat /\ last \in Int /\ b \in Int
            BY <1>1
        <3> QED
            BY <3>1, <3>2
    <2>3. 1 \in 1..(last + 1 - b) /\ b + 1 - 1 = b
        BY <1>1, <2>2
    <2>4. item[1] = query[b]
        BY <1>2, <2>3
    <2> QED
        BY <2>1, <2>2, <2>4
<1>5. ASSUME b = last, query[b] \in Waits PROVE item \in WaitItems
    <2>1. Len(item) = 1 /\ item[1] = query[b]
        BY <1>1, <1>2, <1>5
    <2>2. item[1] \in S
        <3>1. 1 \in 1..Len(item)
            BY <2>1
        <3> QED
            BY <1>2, <3>1, ElementOfSeq
    <2>3. PICK x \in S : x = item[1]
        BY <2>2
    <2>4. <<x>> \in Seq(S) /\ Len(<<x>>) = 1 /\ <<x>>[1] = x
        OBVIOUS
    <2>5. \A i \in 1..Len(item) : item[i] = <<x>>[i]
        BY <2>1, <2>3, <2>4
    <2>6. item = <<x>>
        BY <1>2, <2>1, <2>4, <2>5, SeqEqual
    <2> QED
        BY <1>5, <2>1, <2>3, <2>6 DEF WaitItems, Waits
<1> QED
    BY <1>3, <1>4, <1>5 DEF last

\* An item asks, or one behind the next separator does.
LEMMA AskedStep ==
    ASSUME NEW S, NEW query \in Seq(S), NEW b \in 1..(Len(query) + 1), NEW end,
           end = Find(query, "&", b)
    PROVE  /\ end = 0 \/ end \in b..Len(query)
           /\ Asked(query, b) <=> \/ Item(query, b, end) \in WaitItems
                                  \/ end # 0 /\ Asked(query, end + 1)
<1>1. \/ end = 0 /\ \A i \in b..Len(query) : query[i] # "&"
      \/ /\ end \in b..Len(query) /\ query[end] = "&"
         /\ \A i \in b..(end - 1) : query[i] # "&"
    BY FindFirst
<1>2. Item(query, b, end) \in WaitItems
          <=> /\ b = (IF end = 0 THEN Len(query) ELSE end - 1)
              /\ query[b] \in Waits
    BY <1>1, ItemAsks
<1>3. Len(query) \in Nat /\ b \in Nat /\ b >= 1 /\ "&" \notin Waits
    BY DEF Waits
<1>4. ASSUME NEW i \in b..Len(query), query[i] \in Waits, i = Len(query) \/ query[i + 1] = "&",
             i = b \/ query[i - 1] = "&"
      PROVE  Item(query, b, end) \in WaitItems \/ (end # 0 /\ Asked(query, end + 1))
    <2>1. CASE i = b
        <3>1. end # b
            BY <1>1, <1>3, <1>4, <2>1
        <3>2. b = IF end = 0 THEN Len(query) ELSE end - 1
            BY <1>1, <1>3, <1>4, <2>1, <3>1
        <3> QED
            BY <1>2, <1>4, <2>1, <3>2
    <2>2. CASE i # b
        <3>1. query[i - 1] = "&" /\ i - 1 \in b..Len(query)
            BY <1>3, <1>4, <2>2
        <3>2. end # 0 /\ end \in b..Len(query) /\ end <= i - 1
            BY <1>1, <1>3, <3>1
        <3>3. i \in (end + 1)..Len(query)
            BY <1>3, <3>2
        <3>4. Asked(query, end + 1)
            BY <1>4, <3>1, <3>3 DEF Asked
        <3> QED
            BY <3>2, <3>4
    <2> QED
        BY <2>1, <2>2
<1>5. ASSUME Item(query, b, end) \in WaitItems PROVE Asked(query, b)
    <2>1. query[b] \in Waits /\ b \in b..Len(query) /\ (b = Len(query) \/ query[b + 1] = "&")
        BY <1>1, <1>2, <1>3, <1>5
    <2> QED
        BY <2>1 DEF Asked
<1>6. ASSUME end # 0, Asked(query, end + 1) PROVE Asked(query, b)
    <2>1. end \in b..Len(query) /\ query[end] = "&"
        BY <1>1, <1>6
    <2>2. PICK i \in (end + 1)..Len(query) :
              /\ query[i] \in Waits /\ (i = Len(query) \/ query[i + 1] = "&")
              /\ i = end + 1 \/ query[i - 1] = "&"
        BY <1>6 DEF Asked
    <2>3. i \in b..Len(query) /\ query[i - 1] = "&"
        BY <1>3, <2>1, <2>2
    <2> QED
        BY <2>2, <2>3 DEF Asked
<1>7. Asked(query, b) => Item(query, b, end) \in WaitItems \/ (end # 0 /\ Asked(query, end + 1))
    BY <1>4 DEF Asked
<1> QED
    BY <1>1, <1>5, <1>6, <1>7

\* What the scan computes from each position on.
Scans(f, query) ==
    f = [b \in 1..(Len(query) + 1) |->
            LET end == Find(query, "&", b)
            IN  Item(query, b, end) \in WaitItems \/ (end # 0 /\ f[end + 1])]

\* The function of the positions from which an item asks is such a scan.
LEMMA ScanExists ==
    ASSUME NEW S, NEW query \in Seq(S)
    PROVE  Scans([b \in 1..(Len(query) + 1) |-> Asked(query, b)], query)
<1> DEFINE Positions == 1..(Len(query) + 1)
           asked == [b \in Positions |-> Asked(query, b)]
<1>1. ASSUME NEW b \in Positions, NEW end, end = Find(query, "&", b)
      PROVE  Asked(query, b) = (Item(query, b, end) \in WaitItems \/ (end # 0 /\ asked[end + 1]))
    <2>1. end # 0 => end + 1 \in Positions
        BY <1>1, AskedStep
    <2>2. end # 0 => asked[end + 1] = Asked(query, end + 1)
        BY <2>1
    <2>3. Asked(query, b) \in BOOLEAN
        BY DEF Asked
    <2> HIDE DEF asked
    <2> QED
        BY <1>1, <2>2, <2>3, AskedStep
<1> QED
    BY <1>1 DEF Scans

\* There is no other.
LEMMA ScanUnique ==
    ASSUME NEW S, NEW query \in Seq(S), NEW f, Scans(f, query), NEW b \in 1..(Len(query) + 1)
    PROVE  f[b] = Asked(query, b)
<1> DEFINE Positions == 1..(Len(query) + 1)
           wrong == {k \in Nat : \E c \in Positions :
                                    k = Len(query) + 1 - c /\ f[c] # Asked(query, c)}
<1>1. SUFFICES ASSUME f[b] # Asked(query, b) PROVE FALSE
    OBVIOUS
<1>2. Len(query) \in Nat /\ Len(query) + 1 - b \in Nat
    OBVIOUS
<1>3. Len(query) + 1 - b \in wrong
    BY <1>1, <1>2
<1>4. PICK k \in wrong : \A m \in wrong : k <= m
    <2>1. wrong \subseteq Nat /\ wrong # {}
        BY <1>3
    <2> HIDE DEF wrong
    <2> QED
        BY <2>1, NatLeast
<1>5. PICK c \in Positions : k = Len(query) + 1 - c /\ f[c] # Asked(query, c)
    BY <1>4
<1>6. PICK end : end = Find(query, "&", c)
    OBVIOUS
<1>7. f[c] = (Item(query, c, end) \in WaitItems \/ (end # 0 /\ f[end + 1]))
    BY <1>6 DEF Scans
<1>8. ASSUME end # 0 PROVE f[end + 1] = Asked(query, end + 1)
    <2>1. end \in c..Len(query)
        BY <1>6, <1>8, AskedStep
    <2>2. end + 1 \in Positions /\ Len(query) + 1 - (end + 1) \in Nat
          /\ Len(query) + 1 - (end + 1) < k
        BY <1>2, <1>5, <2>1
    <2>3. \A d \in Positions : f[d] # Asked(query, d) /\ Len(query) + 1 - d \in Nat
                                => Len(query) + 1 - d \in wrong
        OBVIOUS
    <2>4. k \in Nat
        OBVIOUS
    <2> HIDE DEF wrong
    <2>5. Len(query) + 1 - (end + 1) \notin wrong
        BY <1>4, <2>2, <2>4
    <2> QED
        BY <2>2, <2>3, <2>5
<1>9. Asked(query, c) \in BOOLEAN
    BY DEF Asked
<1>10. Asked(query, c) <=> \/ Item(query, c, end) \in WaitItems
                           \/ end # 0 /\ Asked(query, end + 1)
    BY <1>6, AskedStep
<1> HIDE DEF wrong
<1> QED
    BY <1>5, <1>7, <1>8, <1>9, <1>10

\* The scan finds whether an item of the query asks to wait.
LEMMA ScanFinds ==
    ASSUME NEW S, NEW query \in Seq(S)
    PROVE  QueryHasWaitTrue(query) = Asked(query, 1)
<1> DEFINE scan == CHOOSE f : Scans(f, query)
<1>1. Scans(scan, query)
    BY ScanExists
<1>2. QueryHasWaitTrue(query) = scan[1]
    BY DEF QueryHasWaitTrue, Scans
<1>3. 1 \in 1..(Len(query) + 1)
    OBVIOUS
<1> HIDE DEF scan
<1> QED
    BY <1>1, <1>2, <1>3, ScanUnique

\* A target without a query asks for nothing.
LEMMA NoQuery ==
    ASSUME NEW S, NEW target \in Seq(S), Find(target, "?", 1) = 0
    PROVE  ~Asked(ExtractQuery(target), 1) /\ ~AsksToWait(target)
<1>1. \A i \in 1..Len(target) : target[i] # "?"
    BY FindFirst
<1>2. ExtractQuery(target) = <<>>
    BY DEF ExtractQuery
<1>3. ~Asked(<<>>, 1)
    BY DEF Asked
<1>4. ASSUME NEW i \in 2..Len(target)
      PROVE  target[i - 1] # "?" /\ \A j \in 1..(i - 2) : target[j] # "?"
    <2>1. Len(target) \in Nat /\ i \in Nat /\ i - 1 \in 1..Len(target)
        OBVIOUS
    <2>2. \A j \in 1..(i - 2) : j \in 1..Len(target)
        BY <2>1
    <2> QED
        BY <1>1, <2>1, <2>2
<1> QED
    BY <1>2, <1>3, <1>4 DEF AsksToWait

\* The query is what follows the first question mark.
LEMMA QueryOf ==
    ASSUME NEW S, NEW target \in Seq(S), NEW mark \in 1..Len(target), mark = Find(target, "?", 1)
    PROVE  /\ ExtractQuery(target) \in Seq(S)
           /\ Len(ExtractQuery(target)) = Len(target) - mark
           /\ \A i \in 1..(Len(target) - mark) : ExtractQuery(target)[i] = target[mark + i]
<1>1. Len(target) \in Nat /\ mark \in Nat /\ mark + 1 \in Nat /\ mark + 1 >= 1
      /\ mark + 1 <= Len(target) + 1 /\ Len(target) \in 0..Len(target)
    OBVIOUS
<1>2. ExtractQuery(target) = SubSeq(target, mark + 1, Len(target))
    BY DEF ExtractQuery
<1>3. /\ SubSeq(target, mark + 1, Len(target)) \in Seq(S)
      /\ Len(SubSeq(target, mark + 1, Len(target))) = Len(target) + 1 - (mark + 1)
      /\ \A i \in 1..(Len(target) + 1 - (mark + 1)) :
            SubSeq(target, mark + 1, Len(target))[i] = target[mark + 1 + i - 1]
    BY <1>1, PartOf
<1>4. Len(target) + 1 - (mark + 1) = Len(target) - mark
      /\ \A i \in 1..(Len(target) - mark) : mark + 1 + i - 1 = mark + i
    BY <1>1
<1> QED
    BY <1>2, <1>3, <1>4

\* A target with a query asks to wait if an item of its query does.
LEMMA QueryAsks ==
    ASSUME NEW S, NEW target \in Seq(S), NEW mark \in 1..Len(target), mark = Find(target, "?", 1)
    PROVE  Asked(ExtractQuery(target), 1) <=> AsksToWait(target)
<1> DEFINE query == ExtractQuery(target)
<1>1. /\ query \in Seq(S) /\ Len(query) = Len(target) - mark
      /\ \A i \in 1..(Len(target) - mark) : query[i] = target[mark + i]
    BY QueryOf
<1>2. /\ mark \in Nat /\ mark >= 1 /\ Len(target) \in Nat /\ mark <= Len(target)
      /\ target[mark] = "?" /\ \A i \in 1..(mark - 1) : target[i] # "?"
    <2>1. 1 \in Nat /\ 1 >= 1
        OBVIOUS
    <2> QED
        BY <2>1, FindFirst
<1> HIDE DEF query
<1>3. ASSUME NEW i \in 1..Len(query), query[i] \in Waits, i = Len(query) \/ query[i + 1] = "&",
             i = 1 \/ query[i - 1] = "&"
      PROVE  AsksToWait(target)
    <2>1. PICK k \in Nat : k = mark + i
        BY <1>1, <1>2
    <2>2. k \in 2..Len(target) /\ i \in Nat
        BY <1>1, <1>2, <2>1
    <2>3. target[k] \in Waits
        BY <1>1, <1>2, <1>3, <2>1
    <2>4. k = Len(target) \/ target[k + 1] = "&"
        <3>1. i = Len(query) => k = Len(target)
            BY <1>1, <1>2, <2>1
        <3>2. i # Len(query) => i + 1 \in 1..(Len(target) - mark) /\ mark + (i + 1) = k + 1
            BY <1>1, <1>2, <2>1
        <3> QED
            BY <1>1, <1>3, <3>1, <3>2
    <2>5. CASE i = 1
        <3>1. k - 1 = mark /\ k - 2 = mark - 1
            BY <1>2, <2>1, <2>5
        <3> QED
            BY <1>2, <2>2, <2>3, <2>4, <3>1 DEF AsksToWait, Waits
    <2>6. CASE i # 1
        <3>1. i - 1 \in 1..(Len(target) - mark) /\ mark + (i - 1) = k - 1 /\ mark \in 1..(k - 2)
            BY <1>1, <1>2, <2>1, <2>6
        <3>2. target[k - 1] = "&"
            BY <1>1, <1>3, <2>6, <3>1
        <3> QED
            BY <1>2, <2>2, <2>3, <2>4, <3>1, <3>2 DEF AsksToWait, Waits
    <2> QED
        BY <2>5, <2>6
<1>4. ASSUME NEW k \in 2..Len(target), target[k] \in Waits,
             k = Len(target) \/ target[k + 1] = "&",
             \/ target[k - 1] = "&" /\ \E j \in 1..(k - 2) : target[j] = "?"
             \/ target[k - 1] = "?" /\ \A j \in 1..(k - 2) : target[j] # "?"
      PROVE  Asked(query, 1)
    <2>1. k \in Nat /\ k >= 2 /\ k <= Len(target)
        OBVIOUS
    <2>2. \/ k - 1 = mark
          \/ mark <= k - 2 /\ target[k - 1] = "&"
        <3>1. CASE target[k - 1] = "&" /\ \E j \in 1..(k - 2) : target[j] = "?"
            <4>1. PICK j \in 1..(k - 2) : target[j] = "?"
                BY <3>1
            <4>2. ~(j \in 1..(mark - 1))
                BY <1>2, <4>1
            <4> QED
                BY <1>2, <2>1, <3>1, <4>2
        <3>2. CASE target[k - 1] = "?" /\ \A j \in 1..(k - 2) : target[j] # "?"
            <4>1. ~(mark \in 1..(k - 2)) /\ ~(k - 1 \in 1..(mark - 1))
                BY <1>2, <3>2
            <4> QED
                BY <1>2, <2>1, <4>1
        <3> QED
            BY <1>4, <3>1, <3>2
    <2>3. PICK i \in Nat : k = mark + i /\ i >= 1
        <3>1. k - mark \in Nat /\ k = mark + (k - mark) /\ k - mark >= 1
            BY <1>2, <2>1, <2>2
        <3> QED
            BY <3>1
    <2>4. i \in 1..Len(query) /\ query[i] \in Waits
        <3>1. i \in 1..(Len(target) - mark)
            BY <1>2, <2>1, <2>3
        <3> QED
            BY <1>1, <1>4, <2>3, <3>1
    <2>5. i = Len(query) \/ query[i + 1] = "&"
        <3>1. k = Len(target) => i = Len(query)
            BY <1>1, <1>2, <2>1, <2>3
        <3>2. k # Len(target) => i + 1 \in 1..(Len(target) - mark) /\ mark + (i + 1) = k + 1
            BY <1>2, <2>1, <2>3
        <3> QED
            BY <1>1, <1>4, <3>1, <3>2
    <2>6. i = 1 \/ query[i - 1] = "&"
        <3>1. k - 1 = mark => i = 1
            BY <1>2, <2>1, <2>3
        <3>2. mark <= k - 2 => i - 1 \in 1..(Len(target) - mark) /\ mark + (i - 1) = k - 1
            BY <1>2, <2>1, <2>3
        <3> QED
            BY <1>1, <2>2, <3>1, <3>2
    <2> QED
        BY <2>4, <2>5, <2>6 DEF Asked
<1>5. Asked(query, 1) => AsksToWait(target)
    BY <1>3 DEF Asked
<1>6. AsksToWait(target) => Asked(query, 1)
    BY <1>4 DEF AsksToWait, Waits
<1> QED
    BY <1>5, <1>6 DEF query

\* The scan of a target's query finds whether the target asks to wait.
LEMMA WaitIsAsked ==
    ASSUME NEW S, NEW target \in Seq(S)
    PROVE  QueryHasWaitTrue(ExtractQuery(target)) = AsksToWait(target)
<1>1. 1 \in Nat /\ 1 >= 1 /\ AsksToWait(target) \in BOOLEAN
    BY DEF AsksToWait
<1>2. CASE Find(target, "?", 1) = 0
    <2>1. ExtractQuery(target) \in Seq(S)
        BY <1>2 DEF ExtractQuery
    <2>2. QueryHasWaitTrue(ExtractQuery(target)) = Asked(ExtractQuery(target), 1)
        BY <2>1, ScanFinds
    <2>3. Asked(ExtractQuery(target), 1) \in BOOLEAN
        BY DEF Asked
    <2> QED
        BY <1>1, <1>2, <2>2, <2>3, NoQuery
<1>3. CASE Find(target, "?", 1) # 0
    <2>1. Find(target, "?", 1) \in 1..Len(target)
        BY <1>1, <1>3, FindFirst
    <2>2. ExtractQuery(target) \in Seq(S)
        BY <2>1, QueryOf
    <2>3. QueryHasWaitTrue(ExtractQuery(target)) = Asked(ExtractQuery(target), 1)
        BY <2>2, ScanFinds
    <2>4. Asked(ExtractQuery(target), 1) \in BOOLEAN
        BY DEF Asked
    <2> QED
        BY <1>1, <2>1, <2>3, <2>4, QueryAsks
<1> QED
    BY <1>2, <1>3

\* A request's target is a sequence, its body a record.
LEMMA RequestType ==
    ASSUME NEW r \in Requests
    PROVE  r.target \in Seq(Tokens) /\ r.body \in Bodies
<1>1. Targets \subseteq Seq(Tokens)
    BY DEF Targets, SeqOf
<1>2. <<"/api/v1/auth">> \in Seq(Tokens) /\ <<"o">> \in Seq(Tokens)
    <2>1. "/api/v1/auth" \in Tokens /\ "o" \in Tokens
        BY DEF Tokens
    <2> QED
        BY <2>1
<1>3. Empty \in Bodies
    BY DEF Empty, Bodies
<1> QED
    <2>1. \/ \E target \in Targets : r = Request(target, "POST", Empty)
          \/ \E target \in {<<"/api/v1/auth">>, <<"o">>}, method \in {"POST", "GET"},
                body \in Bodies : r = Request(target, method, body)
        BY DEF Requests
    <2>2. CASE \E target \in Targets : r = Request(target, "POST", Empty)
        BY <1>1, <1>3, <2>2 DEF Request
    <2>3. ASSUME NEW target \in {<<"/api/v1/auth">>, <<"o">>}, NEW method, NEW body \in Bodies,
                 r = Request(target, method, body)
          PROVE  r.target \in Seq(Tokens) /\ r.body \in Bodies
        <3>1. r.target = target /\ r.body = body
            BY <2>3 DEF Request
        <3> QED
            BY <1>2, <3>1
    <2> QED
        BY <2>1, <2>2, <2>3

vars == <<argVars, requestVars>>

\* A waiter is set up exactly for the requests whose query asks for it in an
\* item of its own (QueryHasWaitTrue and HandleRequest of HttpServer.cpp).
THEOREM WaitsIfAskedKept == Spec => []WaitsIfAsked
<1>1. Init => WaitsIfAsked
    BY DEF Init, RequestInit, WaitsIfAsked
<1>2. WaitsIfAsked /\ [Next]_vars => WaitsIfAsked'
    <2>1. SUFFICES ASSUME WaitsIfAsked, [Next]_vars PROVE WaitsIfAsked'
        OBVIOUS
    <2>2. CASE UNCHANGED requestVars
        BY <2>1, <2>2 DEF WaitsIfAsked, requestVars
    <2>3. CASE HandleRequest
        <3>1. PICK r \in Requests :
                  \/ NotFound(r) \/ MethodNotAllowed(r) \/ InvalidJson(r)
                  \/ InvalidSessionId(r) \/ Post(r)
            BY <2>3 DEF HandleRequest
        <3>2. CASE Post(r)
            <4>1. request' = r /\ wait' = QueryHasWaitTrue(ExtractQuery(r.target))
                BY <3>2 DEF Post, Answer
            <4>2. wait' = AsksToWait(r.target)
                BY <4>1, RequestType, WaitIsAsked
            <4> QED
                BY <4>1, <4>2 DEF WaitsIfAsked
        <3>3. CASE ~Post(r)
            <4>1. answer' \in {"404", "405", "400"}
                BY <3>1, <3>3
                   DEF NotFound, MethodNotAllowed, InvalidJson, InvalidSessionId, Refuse,
                       Answer
            <4> QED
                BY <4>1 DEF WaitsIfAsked
        <3> QED
            BY <3>2, <3>3
    <2> QED
        BY <2>1, <2>2, <2>3 DEF Next, vars
<1> QED
    BY <1>1, <1>2, PTL DEF Spec, vars
\* A number that fits an unsigned int survives the cast.
LEMMA CastKeeps ==
    ASSUME NEW n \in 0..UintMax
    PROVE  ToUint(n) = n
<1>1. UintMax \in Nat
    BY WidthAssumption
<1> QED
    BY <1>1 DEF ToUint

\* ReadSessionId accepts an integer if it is not 0 and fits an unsigned int.
LEMMA AcceptedFits ==
    ASSUME NEW body \in Bodies, body.kind = "integerId"
    PROVE  IdAccepted(body) <=> body.id \in 1..UintMax
<1>1. /\ UintMax \in Nat /\ Int64Max \in Nat /\ Uint64Max \in Nat
      /\ UintMax < Int64Max /\ Int64Max <= Uint64Max
    BY WidthAssumption
<1>2. body.id \in Integral
    BY DEF Bodies
<1>3. IdAccepted(body) <=> /\ \/ NumberKind(body.id) = "uint64"
                              \/ NumberKind(body.id) = "int64" /\ body.id > 0
                           /\ InRange(body.id)
    BY DEF IdAccepted
<1>4. body.id \in Int
    BY <1>1, <1>2 DEF Integral
<1> QED
    BY <1>1, <1>3, <1>4 DEF NumberKind, InRange

\* A flow's session id is the client's number, which is refused only if it is 0 or
\* does not fit, and otherwise a generated one that is not 0 (ReadSessionId and
\* GenerateSessionId of HttpServer.cpp).
THEOREM SessionIsTheClientsKept == Spec => []SessionIsTheClients
<1>1. Init => SessionIsTheClients
    BY DEF Init, RequestInit, SessionIsTheClients, Request, Empty
<1>2. SessionIsTheClients /\ [Next]_vars => SessionIsTheClients'
    <2>1. SUFFICES ASSUME SessionIsTheClients, [Next]_vars PROVE SessionIsTheClients'
        OBVIOUS
    <2>2. CASE UNCHANGED requestVars
        BY <2>1, <2>2 DEF SessionIsTheClients, requestVars, Routed, IsPost
    <2>3. CASE HandleRequest
        <3>1. PICK r \in Requests :
                  \/ NotFound(r) \/ MethodNotAllowed(r) \/ InvalidJson(r)
                  \/ InvalidSessionId(r) \/ Post(r)
            BY <2>3 DEF HandleRequest
        <3>2. request' = r
            BY <3>1
               DEF NotFound, MethodNotAllowed, InvalidJson, InvalidSessionId, Post, Refuse,
                   Answer
        <3>3. r.body \in Bodies
            BY RequestType
        <3>4. r.body.kind = "integerId" => IsObject(r)
            BY DEF IsObject
        <3>5. CASE Post(r)
            <4>1. answer' = "posted" /\ IdAccepted(r.body)
                  /\ session' = IF r.body.kind = "integerId" THEN ToUint(r.body.id) ELSE Generated
                BY <3>5 DEF Post, Answer
            <4>2. CASE r.body.kind = "integerId"
                <5>1. r.body.id \in 1..UintMax
                    BY <3>3, <4>1, <4>2, AcceptedFits
                <5>2. UintMax \in Nat /\ r.body.id \in 0..UintMax /\ r.body.id # 0
                    BY <5>1, WidthAssumption
                <5>3. session' = r.body.id
                    BY <4>1, <4>2, <5>2, CastKeeps
                <5> QED
                    BY <3>2, <4>1, <5>1, <5>2, <5>3 DEF SessionIsTheClients
            <4>3. CASE r.body.kind # "integerId"
                <5>1. session' # 0
                    BY <4>1, <4>3 DEF Generated
                <5> QED
                    BY <3>2, <4>3, <5>1 DEF SessionIsTheClients
            <4> QED
                BY <4>2, <4>3
        <3>6. CASE InvalidSessionId(r)
            <4>1. answer' = "400" /\ ~IdAccepted(r.body)
                BY <3>6 DEF InvalidSessionId, Refuse, Answer
            <4>2. r.body.kind = "integerId" => r.body.id \notin 1..UintMax
                BY <3>3, <4>1, AcceptedFits
            <4> QED
                BY <3>2, <4>1, <4>2 DEF SessionIsTheClients
        <3>7. CASE NotFound(r) \/ MethodNotAllowed(r) \/ InvalidJson(r)
            <4>1. answer' \in {"404", "405", "400"}
                BY <3>7 DEF NotFound, MethodNotAllowed, InvalidJson, Refuse, Answer
            <4>2. r.body.kind = "integerId" => ~(Routed(r) /\ IsPost(r))
                BY <3>4, <3>7 DEF NotFound, MethodNotAllowed, InvalidJson
            <4>3. (Routed(request) /\ IsPost(request))' => Routed(r) /\ IsPost(r)
                BY <3>2 DEF Routed, IsPost
            <4> QED
                BY <3>2, <4>1, <4>2, <4>3 DEF SessionIsTheClients
        <3> QED
            BY <3>1, <3>5, <3>6, <3>7
    <2> QED
        BY <2>1, <2>2, <2>3 DEF Next, vars
<1> QED
    BY <1>1, <1>2, PTL DEF Spec, vars
-----------------------------------------------------------------------------
(* The numbers of the command line.                                         *)

\* What Span counts from each position on.
Counts(f, text, chars) ==
    f = [i \in 0..Len(text) |->
            IF i < Len(text) /\ text[i + 1] \in chars THEN f[i + 1] ELSE i]

\* Span is at most the length of the text.
LEMMA SpanBound ==
    ASSUME NEW S, NEW text \in Seq(S), NEW chars
    PROVE  Span(text, chars) \in 0..Len(text)
<1> DEFINE Positions == 0..Len(text)
           stops(i) == {j \in i..Len(text) : j = Len(text) \/ text[j + 1] \notin chars}
           first(i) == CHOOSE j \in stops(i) : \A k \in stops(i) : j <= k
           count == CHOOSE f : Counts(f, text, chars)
<1>1. Len(text) \in Nat
    OBVIOUS
<1>2. ASSUME NEW i \in Positions
      PROVE  first(i) \in stops(i) /\ \A k \in stops(i) : first(i) <= k
    <2>1. stops(i) \subseteq Nat /\ Len(text) \in stops(i)
        BY <1>1
    <2>2. \E j \in stops(i) : \A k \in stops(i) : j <= k
        <3> HIDE DEF stops
        <3> QED
            BY <2>1, NatLeast
    <2> HIDE DEF stops
    <2> QED
        BY <2>2
<1>3. Counts([i \in Positions |-> first(i)], text, chars)
    <2>1. ASSUME NEW i \in Positions, i < Len(text), text[i + 1] \in chars
          PROVE  i + 1 \in Positions /\ first(i) = first(i + 1)
        <3>1. i + 1 \in Positions
            BY <1>1, <2>1
        <3>2. stops(i) = stops(i + 1)
            BY <1>1, <2>1
        <3> QED
            BY <3>1, <3>2
    <2>2. ASSUME NEW i \in Positions, ~(i < Len(text) /\ text[i + 1] \in chars)
          PROVE  first(i) = i
        <3>1. i \in stops(i) /\ \A k \in stops(i) : i <= k /\ k \in Nat
            BY <1>1, <2>2
        <3>2. first(i) \in Nat /\ first(i) <= i /\ i <= first(i)
            BY <1>2, <3>1
        <3> QED
            BY <3>2
    <2> HIDE DEF first
    <2> QED
        BY <2>1, <2>2 DEF Counts
<1>4. Counts(count, text, chars)
    BY <1>3
<1>5. Span(text, chars) = count[0]
    BY DEF Span, Counts
<1> HIDE DEF count
<1> DEFINE wrong == {k \in Nat : \E i \in Positions :
                                    k = Len(text) - i /\ count[i] \notin Positions}
<1>6. wrong = {}
    <2>1. SUFFICES ASSUME wrong # {} PROVE FALSE
        OBVIOUS
    <2>2. PICK k \in wrong : \A m \in wrong : k <= m
        <3>1. wrong \subseteq Nat
            OBVIOUS
        <3> HIDE DEF wrong
        <3> QED
            BY <2>1, <3>1, NatLeast
    <2>3. k \in Nat
        OBVIOUS
    <2>4. PICK i \in Positions : k = Len(text) - i /\ count[i] \notin Positions
        OBVIOUS
    <2>5. i < Len(text) /\ text[i + 1] \in chars /\ count[i] = count[i + 1]
        BY <1>4, <2>4 DEF Counts
    <2>6. i + 1 \in Positions /\ Len(text) - (i + 1) \in Nat /\ Len(text) - (i + 1) < k
        BY <1>1, <2>4, <2>5
    <2>7. \A j \in Positions : count[j] \notin Positions /\ Len(text) - j \in Nat
                                => Len(text) - j \in wrong
        OBVIOUS
    <2> HIDE DEF wrong
    <2>8. Len(text) - (i + 1) \notin wrong
        BY <2>2, <2>3, <2>6
    <2> QED
        BY <2>4, <2>5, <2>6, <2>7, <2>8
<1>7. 0 \in Positions /\ Len(text) - 0 \in Nat
    BY <1>1
<1> QED
    BY <1>5, <1>6, <1>7

\* What Value computes of each length of the digits.
Doubles(f, digits, n) ==
    f = [i \in 0..n |->
            IF i = 0 THEN 0 ELSE 2 * f[i - 1] + (IF digits[i] = "1" THEN 1 ELSE 0)]

\* The recursion of Value has a function, for every number of digits.
LEMMA DoublesExists ==
    ASSUME NEW digits, NEW n \in Nat
    PROVE  \E f : Doubles(f, digits, n)
<1> DEFINE T == {m \in Nat : \E f : Doubles(f, digits, m)}
<1>1. 0 \in T
    <2>1. Doubles([i \in 0..0 |-> 0], digits, 0)
        BY DEF Doubles
    <2> QED
        BY <2>1
<1>2. ASSUME NEW m \in Nat, m \in T PROVE m + 1 \in T
    <2>1. PICK f : Doubles(f, digits, m)
        BY <1>2
    <2> DEFINE last == 2 * f[m] + (IF digits[m + 1] = "1" THEN 1 ELSE 0)
               g == [i \in 0..(m + 1) |-> IF i = m + 1 THEN last ELSE f[i]]
    <2>2. ASSUME NEW i \in 0..(m + 1)
          PROVE  g[i] = IF i = 0 THEN 0 ELSE 2 * g[i - 1] + (IF digits[i] = "1" THEN 1 ELSE 0)
        <3>1. CASE i = m + 1
            <4>1. i # 0 /\ i - 1 = m /\ m \in 0..(m + 1) /\ m # m + 1
                BY <3>1
            <4>2. g[i] = last /\ g[m] = f[m]
                BY <3>1, <4>1
            <4> HIDE DEF g
            <4> QED
                BY <3>1, <4>1, <4>2
        <3>2. CASE i # m + 1
            <4>1. i \in 0..m /\ g[i] = f[i]
                BY <3>2
            <4>2. f[i] = IF i = 0 THEN 0 ELSE 2 * f[i - 1] + (IF digits[i] = "1" THEN 1 ELSE 0)
                BY <2>1, <4>1 DEF Doubles
            <4>3. i # 0 => g[i - 1] = f[i - 1]
                BY <4>1
            <4> HIDE DEF g
            <4> QED
                BY <4>1, <4>2, <4>3
        <3> QED
            BY <3>1, <3>2
    <2>3. g = [i \in 0..(m + 1) |-> g[i]]
        OBVIOUS
    <2> HIDE DEF g
    <2>4. Doubles(g, digits, m + 1)
        BY <2>2, <2>3 DEF Doubles
    <2> QED
        BY <2>4
<1> HIDE DEF T
<1>3. Nat \subseteq T
    BY <1>1, <1>2, SetInduction
<1> QED
    BY <1>3 DEF T

\* The value of a sequence of digits is a natural number.
LEMMA ValueNat ==
    ASSUME NEW S, NEW digits \in Seq(S)
    PROVE  Value(digits) \in Nat
<1> DEFINE n == Len(digits)
           value == CHOOSE f : Doubles(f, digits, n)
           T == {i \in Nat : i \in 0..n => value[i] \in Nat}
<1>1. n \in Nat
    OBVIOUS
<1>2. Doubles(value, digits, n)
    <2> HIDE DEF n
    <2> QED
        BY <1>1, DoublesExists
<1>3. Value(digits) = value[n]
    BY DEF Value, Doubles
<1> HIDE DEF value, n
<1>4. 0 \in T
    BY <1>1, <1>2 DEF Doubles
<1>5. ASSUME NEW i \in Nat, i \in T PROVE i + 1 \in T
    <2>1. SUFFICES ASSUME i + 1 \in 0..n PROVE value[i + 1] \in Nat
        OBVIOUS
    <2>2. i \in 0..n /\ i + 1 # 0 /\ i + 1 - 1 = i
        BY <1>1, <2>1
    <2>3. value[i + 1] = 2 * value[i] + (IF digits[i + 1] = "1" THEN 1 ELSE 0)
        BY <1>2, <2>1, <2>2 DEF Doubles
    <2>4. value[i] \in Nat
        BY <1>5, <2>2
    <2> QED
        BY <2>3, <2>4
<1> HIDE DEF T
<1>6. n \in T
    BY <1>1, <1>4, <1>5, SetInduction
<1> QED
    BY <1>1, <1>3, <1>6 DEF T

\* The value of the digits of a text is a natural number.
LEMMA WrittenNat ==
    ASSUME NEW S, NEW text \in Seq(S)
    PROVE  Value(Written(text)) \in Nat
<1>1. ASSUME NEW t \in Seq(S), NEW k \in 0..Len(t) PROVE Drop(t, k) \in Seq(S)
    <2>1. k + 1 \in Nat /\ k + 1 >= 1 /\ Len(t) \in 0..Len(t) /\ k + 1 <= Len(t) + 1
        OBVIOUS
    <2> QED
        BY <2>1, PartOf DEF Drop
<1>2. Unblanked(text) \in Seq(S)
    BY <1>1, SpanBound DEF Unblanked
<1>3. Unsigned(text) \in Seq(S)
    <2>1. CASE IsSigned(text)
        <3>1. 1 \in 0..Len(Unblanked(text))
            BY <1>2, <2>1 DEF IsSigned
        <3> QED
            BY <1>1, <1>2, <2>1, <3>1 DEF Unsigned
    <2>2. CASE ~IsSigned(text)
        BY <1>2, <2>2 DEF Unsigned
    <2> QED
        BY <2>1, <2>2
<1>4. Written(text) \in Seq(S)
    <2>1. PICK k \in 0..Len(Unsigned(text)) : k = Span(Unsigned(text), Digits)
        BY <1>3, SpanBound
    <2>2. 1 \in Nat /\ 1 >= 1 /\ 1 <= k + 1
        OBVIOUS
    <2>3. SubSeq(Unsigned(text), 1, k) \in Seq(S)
        BY <1>3, <2>2, PartOf
    <2> QED
        BY <2>1, <2>3 DEF Written
<1> QED
    BY <1>4, ValueNat

\* What ParseUnsignedInt accepts and is not 0 is what strtoul reads in the text.
LEMMA ParsedIsRead ==
    ASSUME NEW text \in Numbers, Parsed(text), ParseUnsignedInt(text) # 0
    PROVE  /\ ParseUnsignedInt(text) \in 1..UintMax
           /\ IsReadIn(ParseUnsignedInt(text), text)
<1> DEFINE value == Value(Written(text))
<1>1. value \in Nat
    <2>1. text \in Seq(STRING)
        BY ArgsAssumption
    <2> QED
        BY <2>1, WrittenNat
<1>2. UintMax \in Nat /\ ULongMax \in Nat /\ UintMax <= ULongMax
    BY WidthAssumption
<1>3. strtoul(text) = IF value > ULongMax THEN ULongMax
                      ELSE IF IsNegative(text) THEN (ULongMax + 1 - value) % (ULongMax + 1)
                      ELSE value
    BY DEF strtoul
<1>4. Meaning(text) = IF IsNegative(text) THEN -value ELSE value
    BY DEF Meaning
<1>5. strtoul(text) <= UintMax /\ ReadToTheEnd(text)
    BY DEF Parsed
<1> USE DEF value
<1>6. IsReadIn(ParseUnsignedInt(text), text)
          <=> \/ ParseUnsignedInt(text) = Meaning(text)
              \/ /\ Meaning(text) < UintMax - ULongMax
                 /\ ParseUnsignedInt(text) = Meaning(text) + ULongMax + 1
              \/ value > ULongMax /\ ULongMax = UintMax /\ ParseUnsignedInt(text) = UintMax
    BY <1>5 DEF IsReadIn
<1> HIDE DEF value
<1>7. strtoul(text) \in 0..UintMax => ParseUnsignedInt(text) = strtoul(text)
    BY CastKeeps DEF ParseUnsignedInt
<1>8. CASE value > ULongMax
    <2>1. strtoul(text) = ULongMax /\ ULongMax = UintMax
        BY <1>2, <1>3, <1>5, <1>8
    <2>2. ParseUnsignedInt(text) = UintMax
        BY <1>2, <1>7, <2>1
    <2>3. UintMax \in 1..UintMax
        BY <1>2, <2>2
    <2> QED
        BY <1>6, <1>8, <2>1, <2>2, <2>3
<1>9. CASE value <= ULongMax /\ IsNegative(text)
    <2>1. strtoul(text) = (ULongMax + 1 - value) % (ULongMax + 1)
        BY <1>1, <1>2, <1>3, <1>9
    <2>2. strtoul(text) = IF value = 0 THEN 0 ELSE ULongMax + 1 - value
        BY <1>1, <1>2, <1>9, <2>1
    <2>3. strtoul(text) \in 0..UintMax
        BY <1>1, <1>2, <1>5, <1>9, <2>2
    <2>4. strtoul(text) = ULongMax + 1 - value /\ value # 0
        BY <1>7, <2>2, <2>3
    <2>5. Meaning(text) = -value /\ Meaning(text) < UintMax - ULongMax
          /\ strtoul(text) = Meaning(text) + ULongMax + 1
        BY <1>1, <1>2, <1>4, <1>5, <1>9, <2>4
    <2>6. strtoul(text) \in 1..UintMax
        BY <1>2, <1>7, <2>3
    <2> QED
        BY <1>6, <1>7, <2>3, <2>5, <2>6
<1>10. CASE value <= ULongMax /\ ~IsNegative(text)
    <2>1. strtoul(text) = value /\ Meaning(text) = value
        BY <1>1, <1>2, <1>3, <1>4, <1>10
    <2>2. strtoul(text) \in 0..UintMax
        BY <1>1, <1>2, <1>5, <2>1
    <2>3. strtoul(text) \in 1..UintMax
        BY <1>2, <1>7, <2>2
    <2> QED
        BY <1>6, <1>7, <2>1, <2>2, <2>3
<1> QED
    BY <1>1, <1>2, <1>8, <1>9, <1>10

\* The text of an option is its last one: the new argument's if it is of the option.
LEMMA LastOfAppend ==
    ASSUME args \in Seq(Args), NEW arg \in Args, args' = Append(args, arg), NEW CONSTANT option
    PROVE  /\ arg.option = option => LastText(option)' = arg.text
           /\ arg.option # option => /\ Given(option)' = Given(option)
                                     /\ Given(option) => LastText(option)' = LastText(option)
<1> DEFINE given == {i \in 1..Len(args) : args[i].option = option}
           later == {i \in 1..Len(args') : args'[i].option = option}
<1>1. /\ Len(args) \in Nat /\ Len(args') = Len(args) + 1
      /\ args'[Len(args) + 1] = arg /\ \A i \in 1..Len(args) : args'[i] = args[i]
    OBVIOUS
<1>2. /\ LastText(option) = args[CHOOSE i \in given : \A j \in given : j <= i].text
      /\ LastText(option)' = args'[CHOOSE i \in later : \A j \in later : j <= i].text
    BY DEF LastText
<1>3. CASE arg.option = option
    <2>1. Len(args) + 1 \in later /\ \A j \in later : j <= Len(args) + 1 /\ j \in Nat
        BY <1>1, <1>3
    <2> HIDE DEF later
    <2>2. (CHOOSE i \in later : \A j \in later : j <= i) = Len(args) + 1
        <3>1. \E i \in later : \A j \in later : j <= i
            BY <2>1
        <3>2. PICK c : c = (CHOOSE i \in later : \A j \in later : j <= i)
            OBVIOUS
        <3>3. c \in later /\ \A j \in later : j <= c
            BY <3>1, <3>2
        <3>4. c \in Nat /\ c <= Len(args) + 1 /\ Len(args) + 1 <= c
            BY <2>1, <3>3
        <3> QED
            BY <1>1, <3>2, <3>4
    <2> QED
        BY <1>1, <1>2, <1>3, <2>2
<1>4. CASE arg.option # option
    <2>1. later = given
        BY <1>1, <1>4
    <2>2. Given(option)' = Given(option)
        <3>1. Given(option) = (given # {}) /\ Given(option)' = (later # {})
            BY DEF Given
        <3> QED
            BY <2>1, <3>1
    <2>3. ASSUME Given(option) PROVE LastText(option)' = LastText(option)
        <3>1. PICK c : c = (CHOOSE i \in given : \A j \in given : j <= i)
            OBVIOUS
        <3>2. \E i \in given : \A j \in given : j <= i
            <4> DEFINE behind == {n \in Nat : \E i \in given : n = Len(args) - i}
            <4>1. \A i \in given : Len(args) - i \in behind
                BY <1>1
            <4>2. behind \subseteq Nat /\ behind # {}
                BY <2>3, <4>1 DEF Given
            <4>3. PICK n \in behind : \A m \in behind : n <= m
                <5> HIDE DEF behind
                <5> QED
                    BY <4>2, NatLeast
            <4>4. PICK i \in given : n = Len(args) - i
                OBVIOUS
            <4>5. ASSUME NEW j \in given PROVE j <= i
                <5>1. n <= Len(args) - j
                    BY <4>1, <4>3
                <5> QED
                    BY <1>1, <4>4, <5>1
            <4> QED
                BY <4>5
        <3>3. c \in given
            <4> HIDE DEF given
            <4> QED
                BY <3>1, <3>2
        <3>4. args'[c] = args[c]
            BY <1>1, <3>3
        <3> QED
            BY <1>2, <2>1, <3>1, <3>4
    <2> QED
        BY <1>4, <2>2, <2>3
<1> QED
    BY <1>3, <1>4

\* The options are usable, and those that were given are what is read in what was given last.
Options ==
    [host : {<<"0.0.0.0">>, <<"any">>}, port : 1..PortMax, level : Levels, timeout : 1..UintMax]

UsedAsRead ==
    /\ Given("--port=") => IsReadIn(options.port, LastText("--port="))
    /\ Given("--sync-timeout-ms=") => IsReadIn(options.timeout, LastText("--sync-timeout-ms="))

ArgsInv ==
    /\ args \in Seq(Args) /\ options \in Options
    /\ outcome # "usage" => UsedAsRead

\* Reading an argument keeps the invariant, if the option it sets is set to what it says.
LEMMA ReadKeeps ==
    ASSUME ArgsInv, outcome = "reading", NEW arg \in Args, args' = Append(args, arg),
           \/ options' = options
           \/ \E field \in {"host", "level", "port", "timeout"} : \E value :
                 /\ options' = [options EXCEPT ![field] = value]
                 /\ options' \in Options
                 /\ field = "port" => arg.option = "--port="
                 /\ field = "timeout" => arg.option = "--sync-timeout-ms=",
           outcome' # "usage" =>
              /\ arg.option = "--port=" => IsReadIn(options'.port, arg.text)
              /\ arg.option = "--sync-timeout-ms=" => IsReadIn(options'.timeout, arg.text)
    PROVE  ArgsInv'
<1>1. args \in Seq(Args) /\ options \in Options /\ UsedAsRead
    BY DEF ArgsInv
<1>2. args' \in Seq(Args) /\ options' \in Options
    BY <1>1
<1>3. /\ arg.option # "--port=" => options'.port = options.port
      /\ arg.option # "--sync-timeout-ms=" => options'.timeout = options.timeout
    BY <1>1 DEF Options
<1>4. ASSUME outcome' # "usage", Given("--port=")'
      PROVE  IsReadIn(options'.port, LastText("--port=")')
    BY <1>1, <1>3, <1>4, LastOfAppend DEF UsedAsRead
<1>5. ASSUME outcome' # "usage", Given("--sync-timeout-ms=")'
      PROVE  IsReadIn(options'.timeout, LastText("--sync-timeout-ms=")')
    BY <1>1, <1>3, <1>5, LastOfAppend DEF UsedAsRead
<1>6. outcome' # "usage" => UsedAsRead'
    BY <1>4, <1>5 DEF UsedAsRead, IsReadIn
<1> QED
    BY <1>2, <1>6 DEF ArgsInv

\* Each option keeps the invariant.
LEMMA ParseKeeps ==
    ASSUME ArgsInv, ParseArgs
    PROVE  ArgsInv'
<1>1. PortMax \in Nat /\ UintMax \in Nat /\ options \in Options
    BY WidthAssumption DEF ArgsInv
<1>2. CASE SetHost
    <2> DEFINE arg == [option |-> "--host=", text |-> <<"any">>]
    <2>1. /\ outcome = "reading" /\ args' = Append(args, arg)
          /\ options' = [options EXCEPT !["host"] = <<"any">>]
        BY <1>2 DEF SetHost, Read, Set
    <2>2. arg \in Args /\ options' \in Options
        BY <1>1, <2>1 DEF Args, Options
    <2> QED
        BY <2>1, <2>2, ReadKeeps
<1>3. CASE RefuseOption
    <2>1. PICK option \in {"--help", "other"} : Read(option, <<"any">>) /\ Usage
        BY <1>3 DEF RefuseOption
    <2> DEFINE arg == [option |-> option, text |-> <<"any">>]
    <2>2. /\ outcome = "reading" /\ args' = Append(args, arg)
          /\ options' = options /\ outcome' = "usage"
        BY <2>1 DEF Read, Usage
    <2>3. arg \in Args
        BY DEF Args
    <2> QED
        BY <2>2, <2>3, ReadKeeps
<1>4. CASE ArgsEnd
    <2>1. /\ args' = args /\ options' = options /\ outcome' # "usage" /\ outcome # "usage"
        BY <1>4 DEF ArgsEnd
    <2> QED
        BY <2>1 DEF ArgsInv, UsedAsRead, Given, LastText, IsReadIn
<1>5. ASSUME NEW text \in Numbers, SetPort(text) PROVE ArgsInv'
    <2> DEFINE arg == [option |-> "--port=", text |-> text]
               value == ParseUnsignedInt(text)
    <2>1. outcome = "reading" /\ args' = Append(args, arg)
        BY <1>5 DEF SetPort, Read
    <2>2. arg \in Args
        BY DEF Args
    <2>3. CASE PortAccepted(text)
        <3>1. options' = [options EXCEPT !["port"] = value]
            BY <1>5, <2>3 DEF SetPort, Set
        <3>2. value \in 1..UintMax /\ value <= PortMax /\ IsReadIn(value, text)
            BY <2>3, ParsedIsRead DEF PortAccepted
        <3>3. value \in 1..PortMax
            BY <1>1, <3>2
        <3> HIDE DEF value
        <3>4. options' \in Options /\ options'.port = value
            BY <1>1, <3>1, <3>3 DEF Options
        <3>5. arg.option = "--port=" /\ arg.text = text
            OBVIOUS
        <3> HIDE DEF arg
        <3> QED
            BY <2>1, <2>2, <3>1, <3>2, <3>4, <3>5, ReadKeeps
    <2>4. CASE ~PortAccepted(text)
        <3>1. options' = options /\ outcome' = "usage"
            BY <1>5, <2>4 DEF SetPort, Usage
        <3> HIDE DEF arg
        <3> QED
            BY <2>1, <2>2, <3>1, ReadKeeps
    <2> QED
        BY <2>3, <2>4
<1>6. ASSUME NEW text \in Numbers, SetTimeout(text) PROVE ArgsInv'
    <2> DEFINE arg == [option |-> "--sync-timeout-ms=", text |-> text]
               value == ParseUnsignedInt(text)
    <2>1. outcome = "reading" /\ args' = Append(args, arg)
        BY <1>6 DEF SetTimeout, Read
    <2>2. arg \in Args
        BY DEF Args
    <2>3. CASE TimeoutAccepted(text)
        <3>1. options' = [options EXCEPT !["timeout"] = value]
            BY <1>6, <2>3 DEF SetTimeout, Set
        <3>2. value \in 1..UintMax /\ IsReadIn(value, text)
            BY <2>3, ParsedIsRead DEF TimeoutAccepted
        <3> HIDE DEF value
        <3>3. options' \in Options /\ options'.timeout = value
            BY <1>1, <3>1, <3>2 DEF Options
        <3>4. arg.option = "--sync-timeout-ms=" /\ arg.text = text
            OBVIOUS
        <3> HIDE DEF arg
        <3> QED
            BY <2>1, <2>2, <3>1, <3>2, <3>3, <3>4, ReadKeeps
    <2>4. CASE ~TimeoutAccepted(text)
        <3>1. options' = options /\ outcome' = "usage"
            BY <1>6, <2>4 DEF SetTimeout, Usage
        <3> HIDE DEF arg
        <3> QED
            BY <2>1, <2>2, <3>1, ReadKeeps
    <2> QED
        BY <2>3, <2>4
<1>7. ASSUME NEW level \in Levels \cup {"loud"}, SetLogLevel(level) PROVE ArgsInv'
    <2> DEFINE arg == [option |-> "--log-level=", text |-> <<level>>]
    <2>1. outcome = "reading" /\ args' = Append(args, arg) /\ arg.option = "--log-level="
        BY <1>7 DEF SetLogLevel, Read
    <2>2. arg \in Args
        BY DEF Args
    <2>3. CASE level \in Levels
        <3>1. options' = [options EXCEPT !["level"] = level]
            BY <1>7, <2>3 DEF SetLogLevel, Set
        <3>2. options' \in Options
            BY <1>1, <2>3, <3>1 DEF Options
        <3> HIDE DEF arg
        <3> QED
            BY <2>1, <2>2, <3>1, <3>2, ReadKeeps
    <2>4. CASE level \notin Levels
        <3>1. options' = options /\ outcome' = "usage"
            BY <1>7, <2>4 DEF SetLogLevel, Usage
        <3> HIDE DEF arg
        <3> QED
            BY <2>1, <2>2, <3>1, ReadKeeps
    <2> QED
        BY <2>3, <2>4
<1> QED
    BY <1>2, <1>3, <1>4, <1>5, <1>6, <1>7 DEF ParseArgs

\* The service runs with the port and the timeout that strtoul reads in what was
\* given last, or the defaults, both usable (ParseArgs and ParseUnsignedInt of
\* main.cpp), for every width of unsigned long.  IsReadIn says when that is not the
\* number that was written: strtoul wraps one that is far below 0, and where an
\* unsigned long is no wider than an unsigned int it cuts one that is too large.
THEOREM RunsWithWhatWasReadKept ==
    Spec => []RunsWithWhatWasRead
<1>1. Init => ArgsInv
    <2>1. SUFFICES ASSUME Init PROVE ArgsInv
        OBVIOUS
    <2>2. args = <<>> /\ options = Defaults
        BY <2>1 DEF Init, ArgsInit
    <2>3. PortMax \in Nat /\ PortMax >= 1 /\ UintMax \in Nat /\ UintMax >= 1
        BY WidthAssumption
    <2>4. options \in Options
        BY <2>2, <2>3 DEF Defaults, Options, Levels
    <2>5. args \in Seq(Args) /\ ~Given("--port=") /\ ~Given("--sync-timeout-ms=")
        BY <2>2 DEF Given
    <2> QED
        BY <2>4, <2>5 DEF ArgsInv, UsedAsRead
<1>2. ArgsInv /\ [Next]_vars => ArgsInv'
    <2>1. ASSUME ArgsInv, UNCHANGED argVars PROVE ArgsInv'
        BY <2>1 DEF ArgsInv, argVars, UsedAsRead, Given, LastText, IsReadIn
    <2> QED
        BY <2>1, ParseKeeps DEF Next, vars
<1>3. ArgsInv => RunsWithWhatWasRead
    <2>1. SUFFICES ASSUME ArgsInv, outcome = "run" PROVE RunsWithWhatWasRead
        BY DEF RunsWithWhatWasRead
    <2>2. options.port \in 1..PortMax /\ options.timeout \in 1..UintMax
        BY <2>1 DEF ArgsInv, Options
    <2> QED
        BY <2>1, <2>2 DEF ArgsInv, UsedAsRead, RunsWithWhatWasRead
<1> QED
    BY <1>1, <1>2, <1>3, PTL DEF Spec, vars
=============================================================================
