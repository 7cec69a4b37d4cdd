----------------------------- MODULE BlockProof -----------------------------
(***************************************************************************)
(* Proofs about Lz4Block: whatever the picture, the hash table and the     *)
(* matches the two encoders choose, a block stays within the buffer it is  *)
(* given and decodes to the picture.  What is written is at every moment a *)
(* list of sequences that stand for the picture up to anchor; the matches  *)
(* an encoder has found and not written yet repeat bytes that stand there. *)
(***************************************************************************)
EXTENDS Lz4Block, CodecProof

-----------------------------------------------------------------------------
(* Bytes and matches.                                                      *)

\* n bytes from p on are those from q on.
Agree(in, p, q, n) == \A i \in 1 .. n : in[p + i] = in[q + i]

\* A sequence of bytes.
IsPicture(in) == in \in Seq(0 .. TopByte)

\* A match the encoder may write for the bytes at p.
MatchAt(in, p, m) ==
  /\ m = [len |-> m.len, off |-> m.off, back |-> m.back]
  /\ m.len \in Nat /\ m.off \in 1 .. DistanceMax /\ m.back \in Nat
  /\ m.off <= p
  /\ m.len >= MinMatch /\ p <= Len(in) - MFLimit /\ p + m.len <= Len(in) - LastLiterals
  /\ Agree(in, p, p - m.off, m.len)

-----------------------------------------------------------------------------
(* Greatest and least.                                                     *)

\* A set of integers that is not empty and has a bound has a greatest element.
LEMMA MaxIn ==
  ASSUME NEW S, S \subseteq Int, S # {}, NEW b \in Int, \A x \in S : x <= b
  PROVE  Max(S) \in S /\ \A x \in S : x <= Max(S)
<1> DEFINE T == {b - x : x \in S}
<1>1. T \subseteq Nat /\ T # {}
  <2>1. \A x \in S : b - x \in Nat
    OBVIOUS
  <2> QED
    BY <2>1
<1>2. PICK t \in T : \A y \in T : t <= y
  <2> HIDE DEF T
  <2> QED
    BY <1>1, LeastNatural
<1>3. PICK x \in S : t = b - x
  OBVIOUS
<1>4. \A y \in S : x >= y
  <2> TAKE y \in S
  <2>1. b - y \in T
    OBVIOUS
  <2>2. t <= b - y
    BY <2>1, <1>2
  <2> QED
    BY <2>2, <1>3
<1>5. \E z \in S : \A y \in S : z >= y
  BY <1>4
<1>6. Max(S) \in S /\ \A y \in S : Max(S) >= y
  BY <1>5 DEF Max
<1> QED
  BY <1>6

\* A set of integers that is not empty and has a bound has a least element.
LEMMA MinIn ==
  ASSUME NEW S, S \subseteq Int, S # {}, NEW b \in Int, \A x \in S : b <= x
  PROVE  Min(S) \in S /\ \A x \in S : Min(S) <= x
<1> DEFINE T == {x - b : x \in S}
<1>1. T \subseteq Nat /\ T # {}
  <2>1. \A x \in S : x - b \in Nat
    OBVIOUS
  <2> QED
    BY <2>1
<1>2. PICK t \in T : \A y \in T : t <= y
  <2> HIDE DEF T
  <2> QED
    BY <1>1, LeastNatural
<1>3. PICK x \in S : t = x - b
  OBVIOUS
<1>4. \A y \in S : x <= y
  <2> TAKE y \in S
  <2>1. y - b \in T
    OBVIOUS
  <2>2. t <= y - b
    BY <2>1, <1>2
  <2> QED
    BY <2>2, <1>3
<1>5. \E z \in S : \A y \in S : z <= y
  BY <1>4
<1>6. Min(S) \in S /\ \A y \in S : Min(S) <= y
  BY <1>5 DEF Min
<1> QED
  BY <1>6

\* What the parameters are.
LEMMA Parameters ==
  /\ MinMatch \in Nat /\ MinMatch \in 3 .. 4
  /\ LastLiterals \in Nat /\ LastLiterals >= 2
  /\ MFLimit \in Nat \ {0} /\ MinMatch + LastLiterals <= MFLimit
  /\ WildCopy \in Nat \ {0} /\ WildCopy <= 3 + LastLiterals
  /\ RunMask \in Nat \ {0} /\ RunMask <= TopByte
  /\ TopByte \in Nat \ {0} /\ Bases = TopByte + 1 /\ Bases \in Nat \ {0, 1}
  /\ SkipTrigger \in Nat \ {0} /\ Buckets \in Nat \ {0} /\ MaxAttempts \in Nat \ {0}
  /\ DistanceMax \in Nat \ {0} /\ DistanceMax <= Bases * Bases - 1
  /\ AdaptiveSize \in Nat
BY BlockAssumption DEF TopByte

\* The length of the picture, and the last places a match may end and start at.
LEMMA EndIs ==
  ASSUME IsPicture(input)
  PROVE  /\ End \in Nat /\ MatchLimit \in Int /\ LastStart \in Int
         /\ MatchLimit = End - LastLiterals /\ LastStart = End - MFLimit
         /\ \A i \in 1 .. End : input[i] \in 0 .. TopByte
BY Parameters DEF IsPicture, End, MatchLimit, LastStart

\* The first bytes at p and q are the same.
LEMMA SameBytes ==
  ASSUME IsPicture(input), NEW p \in Nat, NEW q \in Nat, p + MinMatch <= End,
         q + MinMatch <= End, SameStart(p, q)
  PROVE  Agree(input, p, q, MinMatch)
<1>1. Bytes(p, MinMatch) = Bytes(q, MinMatch)
  BY DEF SameStart
<1> SUFFICES ASSUME NEW i \in 1 .. MinMatch PROVE input[p + i] = input[q + i]
  BY DEF Agree
<1>2. /\ Len(input) \in Nat /\ MinMatch \in Nat
      /\ p + MinMatch <= Len(input) /\ q + MinMatch <= Len(input)
  BY Parameters DEF End, IsPicture
<1>3. Bytes(p, MinMatch)[i] = input[p + i]
  <2>1. SubSeq(input, p + 1, p + MinMatch)[i] = input[p + 1 + i - 1]
    BY <1>2 DEF IsPicture
  <2> QED
    BY <2>1, <1>2 DEF Bytes
<1>4. Bytes(q, MinMatch)[i] = input[q + i]
  <2>1. SubSeq(input, q + 1, q + MinMatch)[i] = input[q + 1 + i - 1]
    BY <1>2 DEF IsPicture
  <2> QED
    BY <2>1, <1>2 DEF Bytes
<1> QED
  BY <1>1, <1>3, <1>4

\* LZ4_count: the bytes it counts are the same, and no more of them are.
LEMMA Counts ==
  ASSUME IsPicture(input), NEW p \in Nat, NEW q \in Nat, NEW limit \in Nat, p <= limit
  PROVE  /\ Count(p, q, limit) \in 0 .. limit - p
         /\ Agree(input, p, q, Count(p, q, limit))
         /\ \A n \in 0 .. limit - p : Agree(input, p, q, n) => n <= Count(p, q, limit)
<1> DEFINE S == {n \in 0 .. limit - p : \A i \in 1 .. n : input[p + i] = input[q + i]}
<1>1. 0 \in S /\ S \subseteq Int /\ \A x \in S : x <= limit - p
  OBVIOUS
<1>2. limit - p \in Int
  OBVIOUS
<1>3. Max(S) \in S /\ \A x \in S : x <= Max(S)
  <2> HIDE DEF S
  <2> QED
    BY <1>1, <1>2, MaxIn
<1>4. Count(p, q, limit) = Max(S)
  BY DEF Count
<1> QED
  BY <1>3, <1>4 DEF Agree

\* LZ4HC_countBack: the bytes it counts are the same, and it stays within the picture.
LEMMA CountsBack ==
  ASSUME IsPicture(input), NEW p \in Nat, NEW q \in Nat, NEW low \in Nat, low <= p
  PROVE  /\ CountBack(p, q, low) \in 0 .. p - low
         /\ CountBack(p, q, low) <= q
         /\ \A i \in 0 .. CountBack(p, q, low) - 1 : input[p - i] = input[q - i]
<1> DEFINE least == Min({p - low, q})
           S == {n \in 0 .. least : \A i \in 0 .. n - 1 : input[p - i] = input[q - i]}
<1>1. least \in {p - low, q} /\ least <= p - low /\ least <= q
  <2>1. {p - low, q} \subseteq Int /\ {p - low, q} # {} /\ 0 \in Int
        /\ \A x \in {p - low, q} : 0 <= x
    OBVIOUS
  <2> DEFINE E == {p - low, q}
  <2>2. Min(E) \in E /\ \A x \in E : Min(E) <= x
    <3> HIDE DEF E
    <3> QED
      BY <2>1, MinIn DEF E
  <2> QED
    BY <2>2
<1>2. least \in Nat /\ least \in Int
  BY <1>1
<1> HIDE DEF least
<1>3. 0 \in S /\ S \subseteq Int /\ \A x \in S : x <= least
  BY <1>2
<1>4. Max(S) \in S /\ \A x \in S : x <= Max(S)
  <2> HIDE DEF S
  <2> QED
    BY <1>2, <1>3, MaxIn
<1>5. CountBack(p, q, low) = Max(S)
  BY DEF CountBack, least
<1> DEFINE back == CountBack(p, q, low)
<1>6. back \in S
  BY <1>4, <1>5
<1>7. back \in 0 .. least /\ \A i \in 0 .. back - 1 : input[p - i] = input[q - i]
  <2> HIDE DEF back
  <2> QED
    BY <1>6
<1>8. back \in 0 .. p - low /\ back <= q
  <2> HIDE DEF back
  <2> QED
    BY <1>1, <1>2, <1>7
<1> QED
  BY <1>7, <1>8

-----------------------------------------------------------------------------
(* What a search finds.                                                    *)

\* A chain leads backwards.
LEMMA BeforeIs ==
  ASSUME NEW p \in Nat
  PROVE  Before(p) \in Int /\ Before(p) < p
<1> DEFINE S == {q \in 0 .. p - 1 : Hash(q) = Hash(p)} \cup {NoPlace}
<1>1. S \subseteq Int /\ S # {} /\ \A x \in S : x <= p - 1
  BY DEF NoPlace
<1>2. p - 1 \in Int
  OBVIOUS
<1>3. Max(S) \in S
  <2> HIDE DEF S
  <2> QED
    BY <1>1, <1>2, MaxIn
<1>4. Before(p) = Max(S)
  BY DEF Before
<1>5. Max(S) \in Int /\ Max(S) <= p - 1
  <2> HIDE DEF S
  <2> QED
    BY <1>1, <1>3
<1> HIDE DEF S
<1> QED
  BY <1>4, <1>5

\* The bytes around p that are its byte.
LEMMA RunsFrom ==
  ASSUME IsPicture(input), NEW p \in Nat, p < MatchLimit
  PROVE  /\ RunFrom(p) \in 1 .. MatchLimit - p
         /\ \A i \in 1 .. RunFrom(p) : input[p + i] = input[p + 1]
<1> DEFINE S == {n \in 1 .. MatchLimit - p : \A i \in 1 .. n : input[p + i] = input[p + 1]}
<1>0. MatchLimit \in Int
  BY EndIs
<1>1. 1 \in S
  BY <1>0
<1>2. S \subseteq Int /\ \A x \in S : x <= MatchLimit - p
  BY <1>0
<1>3. MatchLimit - p \in Int
  BY <1>0
<1>4. Max(S) \in S
  <2> HIDE DEF S
  <2> QED
    BY <1>1, <1>2, <1>3, MaxIn
<1>5. RunFrom(p) = Max(S)
  BY DEF RunFrom
<1> QED
  BY <1>4, <1>5

\* The run of a byte before a place.
LEMMA RunsBefore ==
  ASSUME NEW p \in Nat
  PROVE  /\ RunBefore(p) \in 0 .. p
         /\ \A i \in 0 .. RunBefore(p) - 1 : input[p - i] = input[p + 1]
<1> DEFINE S == {n \in 0 .. p : \A i \in 0 .. n - 1 : input[p - i] = input[p + 1]}
<1>1. 0 \in S
  OBVIOUS
<1>2. S \subseteq Int /\ \A x \in S : x <= p
  OBVIOUS
<1>3. p \in Int
  OBVIOUS
<1>4. Max(S) \in S
  <2> HIDE DEF S
  <2> QED
    BY <1>1, <1>2, <1>3, MaxIn
<1>5. RunBefore(p) = Max(S)
  BY DEF RunBefore
<1> QED
  BY <1>4, <1>5

\* LowestMatch is a place of the picture that an offset reaches.
LEMMA LowestIs ==
  ASSUME NEW p \in Nat
  PROVE  LowestMatch(p) \in Nat /\ p - LowestMatch(p) <= DistanceMax
<1>1. DistanceMax \in Nat
  BY Parameters
<1> QED
  BY <1>1 DEF LowestMatch, Highest

\* A place that may be looked at: what follows p and q is the same, and near enough.
LEMMA WholeMatches ==
  ASSUME IsPicture(input), NEW p \in Nat, NEW q \in Nat, NEW low \in Nat, low <= p,
         p <= LastStart, q < p, LowestMatch(p) <= q, SameStart(p, q)
  PROVE  LET m == WholeMatch(p, q, low)
         IN  m.back \in 0 .. p - low /\ MatchAt(input, p - m.back, m)
<1> DEFINE back == CountBack(p, q, low)
           more == Count(p + MinMatch, q + MinMatch, MatchLimit)
           len == back + MinMatch + more
<1>1. back \in 0 .. p - low /\ back <= q
      /\ \A i \in 0 .. back - 1 : input[p - i] = input[q - i]
  BY CountsBack
<1>2. /\ p \in Nat /\ q \in Nat /\ MinMatch \in Nat /\ p + MinMatch <= MatchLimit
      /\ MatchLimit \in Nat /\ p + MinMatch <= End /\ q + MinMatch <= End
      /\ p + MinMatch \in Nat /\ q + MinMatch \in Nat
  BY Parameters, EndIs
<1>3. more \in 0 .. MatchLimit - (p + MinMatch)
      /\ Agree(input, p + MinMatch, q + MinMatch, more)
  BY <1>2, Counts
<1>4. Agree(input, p, q, MinMatch)
  BY <1>2, SameBytes
<1> HIDE DEF back, more
<1>5. Agree(input, p - back, q - back, len)
  <2> SUFFICES ASSUME NEW i \in 1 .. len
               PROVE  input[(p - back) + i] = input[(q - back) + i]
    BY DEF Agree
  <2>0. back \in Nat /\ more \in Nat
    BY <1>1, <1>2, <1>3
  <2>1. CASE i <= back
    <3>1. back - i \in 0 .. back - 1
      BY <2>0, <2>1, <1>2
    <3>2. input[p - (back - i)] = input[q - (back - i)]
      BY <3>1, <1>1
    <3>3. p - (back - i) = (p - back) + i /\ q - (back - i) = (q - back) + i
      BY <2>0, <1>2
    <3> QED
      BY <3>2, <3>3
  <2>2. CASE i > back /\ i <= back + MinMatch
    <3>1. i - back \in 1 .. MinMatch
      BY <2>0, <2>2, <1>2
    <3>2. input[p + (i - back)] = input[q + (i - back)]
      BY <3>1, <1>4 DEF Agree
    <3>3. p + (i - back) = (p - back) + i /\ q + (i - back) = (q - back) + i
      BY <2>0, <1>2
    <3> QED
      BY <3>2, <3>3
  <2>3. CASE i > back + MinMatch
    <3>1. i - back - MinMatch \in 1 .. more
      BY <2>0, <2>3, <1>2
    <3>2. input[(p + MinMatch) + (i - back - MinMatch)]
            = input[(q + MinMatch) + (i - back - MinMatch)]
      BY <3>1, <1>3 DEF Agree
    <3>3. /\ (p + MinMatch) + (i - back - MinMatch) = (p - back) + i
          /\ (q + MinMatch) + (i - back - MinMatch) = (q - back) + i
      BY <2>0, <1>2
    <3> QED
      BY <3>2, <3>3
  <2> QED
    BY <2>0, <2>1, <2>2, <2>3, <1>2
<1> DEFINE m == WholeMatch(p, q, low)
<1>6. m = [len |-> len, off |-> p - q, back |-> back]
  BY DEF WholeMatch, back, more
<1> HIDE DEF len, m
<1>6a. m.len = len /\ m.off = p - q /\ m.back = back
       /\ m = [len |-> m.len, off |-> m.off, back |-> m.back]
  BY <1>6
<1>7. p - q \in 1 .. DistanceMax
  <2>1. LowestMatch(p) \in Nat /\ p - LowestMatch(p) <= DistanceMax /\ DistanceMax \in Nat
    BY LowestIs, Parameters
  <2> QED
    BY <2>1
<1>8. len \in Nat /\ len >= MinMatch /\ (p - back) + len <= MatchLimit
  BY <1>1, <1>2, <1>3 DEF len
<1>9. p - back <= Len(input) - MFLimit /\ (p - back) + len <= Len(input) - LastLiterals
  BY <1>1, <1>8, <1>2, Parameters, EndIs DEF LastStart, MatchLimit, End
<1>10. (p - back) - (p - q) = q - back /\ p - q <= p - back /\ back \in Nat
  BY <1>1
<1>11. MatchAt(input, p - back, m)
  BY <1>5, <1>6a, <1>7, <1>8, <1>9, <1>10 DEF MatchAt
<1> QED
  BY <1>11, <1>6a, <1>1 DEF m

\* The best a search has found so far for the bytes at p.
Found(p, low, longest, best) ==
  /\ best = [len |-> best.len, off |-> best.off, back |-> best.back]
  /\ best.len \in Nat /\ best.off \in Nat /\ best.back \in Nat
  /\ best.len >= longest
  /\ \/ best.off = 0
     \/ /\ best.len > longest /\ best.back \in 0 .. p - low
        /\ MatchAt(input, p - best.back, best)

\* A better match of the place q replaces the best found so far.
LEMMA ImprovedIsFound ==
  ASSUME IsPicture(input), NEW p \in Nat, NEW q \in Nat, NEW low \in Nat, low <= p,
         p <= LastStart, q < p, LowestMatch(p) <= q, NEW longest \in Nat, NEW best,
         Found(p, low, longest, best)
  PROVE  Found(p, low, longest, Improved(p, q, low, best))
<1>1. CASE SameStart(p, q) /\ WholeMatch(p, q, low).len > best.len
  <2> DEFINE m == WholeMatch(p, q, low)
  <2>1. m.back \in 0 .. p - low /\ MatchAt(input, p - m.back, m)
    BY <1>1, WholeMatches
  <2>2. Improved(p, q, low, best) = m /\ m.len > best.len
    BY <1>1 DEF Improved
  <2> HIDE DEF m
  <2>3. m.len \in Nat /\ m.off \in Nat /\ m.back \in Nat
        /\ m = [len |-> m.len, off |-> m.off, back |-> m.back]
    <3>1. /\ m = [len |-> m.len, off |-> m.off, back |-> m.back]
          /\ m.len \in Nat /\ m.off \in 1 .. DistanceMax /\ m.back \in Nat
      BY <2>1 DEF MatchAt
    <3> QED
      BY <3>1, Parameters
  <2>4. m.len > longest
    BY <2>2, <2>3 DEF Found
  <2> QED
    BY <2>1, <2>2, <2>3, <2>4 DEF Found
<1>2. CASE ~(SameStart(p, q) /\ WholeMatch(p, q, low).len > best.len)
  BY <1>2 DEF Improved
<1> QED
  BY <1>1, <1>2

\* Places in the run of a byte are passed over.
LEMMA SkipsRun ==
  ASSUME IsPicture(input), NEW p \in Nat, NEW q \in Nat, NEW low \in Nat, low <= p,
         p <= LastStart, q < p, LowestMatch(p) <= q, NEW longest \in Nat, NEW best,
         MinMatch - 1 <= longest,
         Found(p, low, longest, best), InRun(p, q)
  PROVE  LET next == SkipRun(p, q, low, best)
         IN  /\ next.at \in Int /\ next.at < p
             /\ Found(p, low, longest, next.best)
<1> DEFINE ahead == RunFrom(q - 1)
           behind == RunBefore(q - 1)
           back == Min({behind, q - 1 - LowestMatch(p)})
           first == q - 1 - back
           run == RunFrom(p)
           length == Min({back + ahead, run})
           found == [len |-> length, off |-> p - first, back |-> 0]
           next == SkipRun(p, q, low, best)
<1>0. /\ p < MatchLimit /\ MatchLimit \in Int /\ MinMatch \in Nat /\ MinMatch >= 3
      /\ LowestMatch(p) \in Nat /\ p - LowestMatch(p) <= DistanceMax
      /\ q - 1 >= LowestMatch(p) /\ q - 1 \in Nat /\ q - 1 < MatchLimit
      /\ q - 1 + 1 = q
  BY Parameters, EndIs, LowestIs DEF InRun
<1>1. ahead \in 1 .. MatchLimit - (q - 1)
      /\ \A i \in 1 .. ahead : input[q - 1 + i] = input[q]
  BY <1>0, RunsFrom
<1>2. behind \in 0 .. q - 1 /\ \A i \in 0 .. behind - 1 : input[q - 1 - i] = input[q]
  BY <1>0, RunsBefore
<1>3. run \in 1 .. MatchLimit - p /\ \A i \in 1 .. run : input[p + i] = input[p + 1]
  BY <1>0, RunsFrom
<1>4. back \in Nat /\ back <= behind /\ back <= q - 1 - LowestMatch(p)
  <2> DEFINE E == {behind, q - 1 - LowestMatch(p)}
  <2>1. E \subseteq Int /\ E # {} /\ 0 \in Int /\ \A x \in E : 0 <= x
    BY <1>0, <1>2
  <2>2. Min(E) \in E /\ \A x \in E : Min(E) <= x
    <3> HIDE DEF E
    <3> QED
      BY <2>1, MinIn
  <2> QED
    BY <2>1, <2>2
<1>5. length \in {back + ahead, run} /\ length <= back + ahead /\ length <= run
  <2> DEFINE E == {back + ahead, run}
  <2>1. E \subseteq Int /\ E # {} /\ 0 \in Int /\ \A x \in E : 0 <= x
    <3> HIDE DEF back, ahead, run
    <3> QED
      BY <1>0, <1>1, <1>3, <1>4
  <2>2. Min(E) \in E /\ \A x \in E : Min(E) <= x
    <3> HIDE DEF E
    <3> QED
      BY <2>1, MinIn
  <2> QED
    BY <2>1, <2>2
<1>6. next = IF back + ahead >= run /\ ahead <= run
             THEN [at |-> q - 1 + ahead - run, best |-> best]
             ELSE IF low < p THEN [at |-> first, best |-> best]
             ELSE [at |-> Before(first), best |-> IF length > best.len THEN found ELSE best]
  BY DEF SkipRun
<1> HIDE DEF ahead, behind, back, run, length, next
<1>7. first \in Nat /\ LowestMatch(p) <= first /\ first < p /\ first < q
  BY <1>0, <1>4
<1>8. Before(first) \in Int /\ Before(first) < first
  BY <1>7, BeforeIs
<1>9. Agree(input, p, first, length)
  <2> SUFFICES ASSUME NEW i \in 1 .. length
               PROVE  input[p + i] = input[first + i]
    BY DEF Agree
  <2>0. length \in Nat /\ i \in Nat /\ i >= 1 /\ i <= back + ahead /\ i <= run
        /\ back \in Nat /\ ahead \in Nat /\ run \in Nat
    BY <1>1, <1>3, <1>4, <1>5
  <2>1. input[p + i] = input[p + 1]
    BY <2>0, <1>3
  <2>2. input[first + i] = input[q]
    <3>1. CASE i <= back
      <4>1. back - i \in 0 .. behind - 1 /\ q - 1 - (back - i) = first + i
        BY <3>1, <2>0, <1>0, <1>2, <1>4
      <4>2. input[q - 1 - (back - i)] = input[q]
        BY <4>1, <1>2
      <4> QED
        BY <4>1, <4>2
    <3>2. CASE i > back
      <4>1. i - back \in 1 .. ahead /\ q - 1 + (i - back) = first + i
        BY <3>2, <2>0, <1>0
      <4>2. input[q - 1 + (i - back)] = input[q]
        BY <4>1, <1>1
      <4> QED
        BY <4>1, <4>2
    <3> QED
      BY <3>1, <3>2, <2>0
  <2>3. input[p + 1] = input[q]
    <3>1. SameStart(p, q - 1)
      BY DEF InRun
    <3>2. p + MinMatch <= End /\ q - 1 + MinMatch <= End
      BY <1>0, Parameters, EndIs
    <3>3. Agree(input, p, q - 1, MinMatch)
      BY <3>1, <3>2, <1>0, SameBytes
    <3>4. 1 \in 1 .. MinMatch
      BY <1>0
    <3>5. input[p + 1] = input[(q - 1) + 1]
      BY <3>3, <3>4 DEF Agree
    <3> QED
      BY <3>5, <1>0
  <2> QED
    BY <2>1, <2>2, <2>3
<1> HIDE DEF first
<1>10. ASSUME length > best.len, low = p
       PROVE  Found(p, low, longest, found)
  <2>1. found.len = length /\ found.off = p - first /\ found.back = 0
    OBVIOUS
  <2>2. best.len \in Nat /\ best.len >= longest
    BY DEF Found
  <2>3. length \in Nat /\ length > longest /\ length >= MinMatch
    BY <2>2, <1>10, <1>5, <1>0, <1>1, <1>3, <1>4
  <2>4. /\ p - first \in 1 .. DistanceMax /\ p - first \in Nat /\ p - first <= p
        /\ p - (p - first) = first
    BY <1>7, <1>0, Parameters
  <2>5. p <= Len(input) - MFLimit
    BY DEF LastStart, End
  <2>6. p + length <= Len(input) - LastLiterals
    <3>1. p + length <= MatchLimit
      BY <2>3, <1>0, <1>3, <1>5
    <3> QED
      BY <3>1 DEF MatchLimit, End
  <2> DEFINE f == found
  <2>7. MatchAt(input, p, f)
    <3>1. /\ f = [len |-> f.len, off |-> f.off, back |-> f.back]
          /\ f.len = length /\ f.off = p - first /\ f.back = 0
      OBVIOUS
    <3> HIDE DEF f
    <3> QED
      BY <3>1, <2>3, <2>4, <2>5, <2>6, <1>9 DEF MatchAt
  <2>8. p - f.back = p
    OBVIOUS
  <2>9. 0 \in 0 .. p - low
    BY <1>10
  <2>10. /\ f = [len |-> f.len, off |-> f.off, back |-> f.back]
         /\ f.len \in Nat /\ f.off \in Nat /\ f.back \in 0 .. p - low
         /\ f.len > longest /\ f.back \in Nat
    BY <2>1, <2>3, <2>4, <2>9
  <2> HIDE DEF f
  <2>11. Found(p, low, longest, f)
    BY <2>7, <2>8, <2>10 DEF Found
  <2> QED
    BY <2>11 DEF f
<1>11. CASE back + ahead >= run /\ ahead <= run
  <2>1. next.at = q - 1 + ahead - run /\ next.best = best
    BY <1>6, <1>11
  <2>2. q - 1 + ahead - run \in Int /\ q - 1 + ahead - run < p
    BY <1>0, <1>1, <1>3, <1>11
  <2> QED
    BY <2>1, <2>2 DEF next
<1>12. CASE ~(back + ahead >= run /\ ahead <= run) /\ low < p
  <2>1. next.at = first /\ next.best = best
    BY <1>6, <1>12
  <2> QED
    BY <2>1, <1>7 DEF next
<1>13. CASE ~(back + ahead >= run /\ ahead <= run) /\ ~(low < p)
  <2>1. next.at = Before(first) /\ next.best = IF length > best.len THEN found ELSE best
    BY <1>6, <1>13
  <2>2. low = p
    BY <1>13
  <2>3. Found(p, low, longest, next.best)
    <3> HIDE DEF found
    <3>1. CASE length > best.len
      BY <3>1, <2>1, <2>2, <1>10
    <3>2. CASE ~(length > best.len)
      BY <3>2, <2>1
    <3> QED
      BY <3>1, <3>2
  <2> QED
    BY <2>1, <2>3, <1>7, <1>8 DEF next
<1> QED
  BY <1>11, <1>12, <1>13

\* One place of the chain.
LEMMA LooksOnce ==
  ASSUME IsPicture(input), NEW p \in Nat, NEW low \in Nat, low <= p,
         p <= LastStart, NEW longest \in Nat, MinMatch - 1 <= longest,
         NEW seen, seen.at \in Int, seen.at < p, seen.at >= LowestMatch(p),
         Found(p, low, longest, seen.best)
  PROVE  /\ Looked(p, low, seen).at \in Int /\ Looked(p, low, seen).at < p
         /\ Found(p, low, longest, Looked(p, low, seen).best)
<1> DEFINE q == seen.at
           better == Improved(p, q, low, seen.best)
<1>1. q \in Nat /\ q < p /\ LowestMatch(p) <= q
  BY LowestIs
<1>2. Found(p, low, longest, better)
  <2> DEFINE best == seen.best
  <2>1. Found(p, low, longest, best)
    OBVIOUS
  <2> HIDE DEF q, best
  <2>2. Found(p, low, longest, Improved(p, q, low, best))
    BY <1>1, <2>1, ImprovedIsFound
  <2> QED
    BY <2>2 DEF best
<1>3. CASE InRun(p, q)
  <2>1. Looked(p, low, seen) = SkipRun(p, q, low, better)
    BY <1>3 DEF Looked
  <2> HIDE DEF q, better
  <2> DEFINE next == SkipRun(p, q, low, better)
  <2>2. next.at \in Int /\ next.at < p /\ Found(p, low, longest, next.best)
    BY <1>1, <1>2, <1>3, SkipsRun
  <2> QED
    BY <2>1, <2>2
<1>4. CASE ~InRun(p, q)
  <2>1. Looked(p, low, seen) = [at |-> Before(q), best |-> better]
    BY <1>4 DEF Looked
  <2>2. Before(q) \in Int /\ Before(q) < q
    <3> HIDE DEF q
    <3> QED
      BY <1>1, BeforeIs
  <2> QED
    BY <2>1, <2>2, <1>1, <1>2
<1> QED
  BY <1>3, <1>4

\* A search finds nothing, or a match that is longer than what it was given.
LEMMA SearchFinds ==
  ASSUME IsPicture(input), NEW p \in Nat, NEW low \in Nat, low <= p,
         p <= LastStart, NEW longest \in Nat, MinMatch - 1 <= longest,
         Search(p, low, longest) # NoMatch
  PROVE  LET m == Search(p, low, longest)
         IN  m.len > longest /\ m.back \in 0 .. p - low /\ MatchAt(input, p - m.back, m)
<1> DEFINE start == [at |-> Before(p), best |-> [NoMatch EXCEPT !.len = longest]]
           Then(s) == IF s.at < LowestMatch(p) THEN s ELSE Looked(p, low, s)
           Walk(f) == [k \in 0 .. MaxAttempts |-> IF k = 0 THEN start ELSE Then(f[k - 1])]
           walk == CHOOSE f : f = Walk(f)
           States == [at : Int, best : [len : Nat, off : Nat, back : Nat]]
           Good == {s \in States : s.at < p /\ Found(p, low, longest, s.best)}
           D == [k \in 0 .. MaxAttempts |-> Good]
           step == [k \in 1 .. MaxAttempts |-> [s \in Good |-> Then(s)]]
<1>0. MaxAttempts \in Nat
  BY Parameters
<1>1. Follow(p, low, longest) = walk[MaxAttempts].best
  BY DEF Follow
<1>2. start \in Good
  <2>1. Before(p) \in Int /\ Before(p) < p
    BY BeforeIs
  <2> DEFINE best == [NoMatch EXCEPT !.len = longest]
  <2>2. best = [len |-> longest, off |-> 0, back |-> 0]
    BY DEF NoMatch
  <2>3. Found(p, low, longest, best)
    BY <2>2 DEF Found
  <2>4. best \in [len : Nat, off : Nat, back : Nat]
    BY <2>2
  <2> HIDE DEF best
  <2> QED
    BY <2>1, <2>3, <2>4 DEF best
<1>3. ASSUME NEW s \in Good PROVE Then(s) \in Good
  <2>1. CASE s.at < LowestMatch(p)
    BY <2>1
  <2>2. CASE ~(s.at < LowestMatch(p))
    <3> DEFINE t == Looked(p, low, s)
    <3>1. s.at >= LowestMatch(p) /\ s.at \in Int /\ s.at < p
          /\ Found(p, low, longest, s.best)
      BY <2>2, LowestIs
    <3>2. t.at \in Int /\ t.at < p /\ Found(p, low, longest, t.best)
      BY <3>1, LooksOnce
    <3>3. t = [at |-> t.at, best |-> t.best]
      BY DEF Looked, SkipRun
    <3>4. Then(s) = t
      BY <2>2
    <3> HIDE DEF t
    <3>5. t.best \in [len : Nat, off : Nat, back : Nat]
      <4> DEFINE best == t.best
      <4>1. best = [len |-> best.len, off |-> best.off, back |-> best.back]
            /\ best.len \in Nat /\ best.off \in Nat /\ best.back \in Nat
        BY <3>2 DEF Found
      <4> HIDE DEF best
      <4>2. best \in [len : Nat, off : Nat, back : Nat]
        BY <4>1
      <4> QED
        BY <4>2 DEF best
    <3>6. t \in States
      BY <3>2, <3>3, <3>5
    <3> QED
      BY <3>2, <3>4, <3>6
  <2> QED
    BY <2>1, <2>2
<1> HIDE DEF Good, start, Then
<1>4. \E f : f = Walk(f)
  <2>1. start \in D[0]
    BY <1>2, <1>0
  <2>2. DOMAIN step = 1 .. MaxAttempts
    OBVIOUS
  <2>3. \A k \in 1 .. MaxAttempts : \A s \in D[k - 1] : step[k][s] \in D[k]
    <3> TAKE k \in 1 .. MaxAttempts
    <3> TAKE s \in D[k - 1]
    <3>1. k - 1 \in 0 .. MaxAttempts /\ k \in 0 .. MaxAttempts
      BY <1>0
    <3>2. s \in Good
      BY <3>1
    <3>3. step[k][s] = Then(s)
      BY <3>2
    <3> QED
      BY <3>1, <3>2, <3>3, <1>3
  <2>4. PICK f : /\ f = [x \in 0 .. MaxAttempts |-> f[x]]
                 /\ f[0] = start
                 /\ \A x \in 1 .. MaxAttempts : f[x] = step[x][f[x - 1]]
                 /\ \A x \in 0 .. MaxAttempts : f[x] \in D[x]
    <3> DEFINE n == MaxAttempts
    <3>1. n \in Nat /\ start \in D[0] /\ DOMAIN step = 1 .. n
          /\ \A x \in 1 .. n : \A s \in D[x - 1] : step[x][s] \in D[x]
      BY <1>0, <2>1, <2>2, <2>3
    <3> HIDE DEF D, step, n
    <3>2. \E f : /\ f = [x \in 0 .. n |-> f[x]]
                 /\ f[0] = start
                 /\ \A x \in 1 .. n : f[x] = step[x][f[x - 1]]
                 /\ \A x \in 0 .. n : f[x] \in D[x]
      BY <3>1, Recursion
    <3> QED
      BY <3>2 DEF n
  <2>5. \A x \in 1 .. MaxAttempts : step[x][f[x - 1]] = Then(f[x - 1])
    <3> TAKE x \in 1 .. MaxAttempts
    <3>1. x - 1 \in 0 .. MaxAttempts
      BY <1>0
    <3>2. f[x - 1] \in Good
      BY <3>1, <2>4
    <3> QED
      BY <3>2
  <2> HIDE DEF step
  <2>6. \A x \in 0 .. MaxAttempts : f[x] = IF x = 0 THEN start ELSE Then(f[x - 1])
    <3> TAKE x \in 0 .. MaxAttempts
    <3>1. x # 0 => x \in 1 .. MaxAttempts
      BY <1>0
    <3> QED
      BY <2>4, <2>5, <3>1
  <2>7. f = Walk(f)
    <3>1. f = [x \in 0 .. MaxAttempts |-> f[x]]
      BY <2>4
    <3> QED
      BY <2>6, <3>1
  <2> QED
    BY <2>7
<1>5. walk = Walk(walk)
  BY <1>4
<1> HIDE DEF walk
<1>6. walk[0] = start
  BY <1>5, <1>0
<1>7. \A k \in 1 .. MaxAttempts : walk[k] = Then(walk[k - 1])
  <2> TAKE k \in 1 .. MaxAttempts
  <2>1. k \in 0 .. MaxAttempts /\ k # 0
    BY <1>0
  <2> QED
    BY <2>1, <1>5
<1>8. walk[MaxAttempts] \in Good
  <2> DEFINE T == {k \in 0 .. MaxAttempts : walk[k] \in Good}
  <2>1. 0 \in T
    BY <1>0, <1>6, <1>2
  <2>2. \A k \in 1 .. MaxAttempts : k - 1 \in T => k \in T
    <3> SUFFICES ASSUME NEW k \in 1 .. MaxAttempts, k - 1 \in T PROVE k \in T
      OBVIOUS
    <3>1. walk[k] = Then(walk[k - 1])
      BY <1>7
    <3>2. walk[k - 1] \in Good
      OBVIOUS
    <3>3. walk[k] \in Good
      BY <3>1, <3>2, <1>3
    <3>4. k \in 0 .. MaxAttempts
      BY <1>0
    <3> QED
      BY <3>3, <3>4
  <2> HIDE DEF T
  <2>3. \A k \in 0 .. MaxAttempts : k \in T
    BY <1>0, <2>1, <2>2, UpTo
  <2>4. MaxAttempts \in 0 .. MaxAttempts
    BY <1>0
  <2> QED
    BY <2>3, <2>4 DEF T
<1> DEFINE best == Follow(p, low, longest)
<1>9. Found(p, low, longest, best)
  BY <1>1, <1>8 DEF Good
<1> HIDE DEF best
<1>10. best.off # 0 /\ Search(p, low, longest) = best
  BY DEF Search, best
<1> QED
  BY <1>9, <1>10 DEF Found

-----------------------------------------------------------------------------
(* What a block says.                                                      *)

\* The bytes behind place at are those of w.
Spells(bytes, at, w) == \A i \in 1 .. Len(w) : bytes[at + i] = w[i]

\* At place a: a token, the rest of the number n of literals, and those from p on.
HeadAt(in, bytes, a, p, n, nibble) ==
  /\ bytes[a + 1] = Token(Nibble(n), nibble)
  /\ Spells(bytes, a + 1, Extension(n))
  /\ \A i \in 1 .. n : bytes[a + 1 + Len(Extension(n)) + i] = in[p + i]

\* Where the literals end.
HeadEnd(a, n) == a + 1 + Len(Extension(n)) + n

\* An offset, and the rest of the length of a match.
TailAt(bytes, a, off, code) ==
  /\ bytes[a + 1] = off % Bases /\ bytes[a + 2] = (off \div Bases) % Bases
  /\ Spells(bytes, a + 2, Extension(code))

\* From place a to place b of the block: literals from p on and a match up to q.
SequenceOf(in, bytes, a, p, b, q, n, code, off) ==
  /\ HeadAt(in, bytes, a, p, n, Nibble(code))
  /\ TailAt(bytes, HeadEnd(a, n), off, code)
  /\ b = HeadEnd(a, n) + 2 + Len(Extension(code)) /\ q = p + n + MinMatch + code
  /\ off <= p + n /\ p + n <= Len(in) - MFLimit /\ q <= Len(in) - LastLiterals
  /\ Agree(in, p + n, p + n - off, MinMatch + code)

\* Some literals and some match.
SequenceAt(in, bytes, a, p, b, q) ==
  \E n \in Nat, code \in Nat, off \in 1 .. DistanceMax :
    SequenceOf(in, bytes, a, p, b, q, n, code, off)

\* The first size bytes are sequences that stand for the input up to pos.
Parsed(in, bytes, size, pos) ==
  \E M \in SUBSET (Nat \X Nat) :
    /\ <<0, 0>> \in M
    /\ \A a \in Nat, p \in Nat : <<a, p>> \in M =>
         \/ a = size /\ p = pos
         \/ \E b \in 0 .. size, q \in 0 .. pos :
              <<b, q>> \in M /\ SequenceAt(in, bytes, a, p, b, q)

\* The literals at the end.
LastAt(in, bytes, a, p) ==
  /\ p <= Len(in)
  /\ HeadAt(in, bytes, a, p, Len(in) - p, 0)
  /\ Len(bytes) = HeadEnd(a, Len(in) - p)

\* A place in a block that is followed by the literals at the end, or by a sequence and
\* another such place.
Readable(in, bytes, M) ==
  \A a \in Nat, p \in Nat : <<a, p>> \in M =>
    \/ LastAt(in, bytes, a, p)
    \/ \E b \in Nat, q \in Nat :
         /\ <<b, q>> \in M /\ SequenceAt(in, bytes, a, p, b, q)
         /\ b + 1 + LastLiterals <= Len(bytes)

\* The last token of a block still waits for its match, which starts at p; there is room
\* for the offset.
Opened(in, b, from, p) ==
  /\ b.token \in 1 .. Len(b.bytes)
  /\ Parsed(in, b.bytes, b.token - 1, from)
  /\ from \in Nat /\ p \in Nat /\ from <= p
  /\ HeadAt(in, b.bytes, b.token - 1, from, p - from, 0)
  /\ Len(b.bytes) = HeadEnd(b.token - 1, p - from)
  /\ Len(b.bytes) + 2 <= Len(in)

\* A block that was not written past the end of its buffer.
IsBlock(b, end) ==
  /\ b = [bytes |-> b.bytes, token |-> b.token, touched |-> b.touched, full |-> b.full]
  /\ b.bytes \in Seq(Nat) /\ b.token \in Nat /\ b.touched \in 0 .. end /\ b.full \in BOOLEAN

\* One sequence after another.
LEMMA TwoParts ==
  ASSUME NEW T, NEW s \in Seq(T), NEW t \in Seq(T)
  PROVE  /\ s \o t \in Seq(T) /\ Len(s \o t) = Len(s) + Len(t)
         /\ \A i \in 1 .. Len(s) : (s \o t)[i] = s[i]
         /\ \A i \in 1 .. Len(t) : (s \o t)[Len(s) + i] = t[i]
<1>1. s \o t \in Seq(T) /\ Len(s \o t) = Len(s) + Len(t)
  OBVIOUS
<1>2. \A i \in 1 .. Len(s) : (s \o t)[i] = s[i]
  OBVIOUS
<1>3. \A i \in 1 .. Len(t) : (s \o t)[Len(s) + i] = t[i]
  OBVIOUS
<1> QED
  BY <1>1, <1>2, <1>3

\* The last of the facts above, for one place.
LEMMA SecondPart ==
  ASSUME NEW T, NEW s \in Seq(T), NEW t \in Seq(T), NEW i \in 1 .. Len(t)
  PROVE  (s \o t)[Len(s) + i] = t[i]
OBVIOUS

\* How a length is written.
LEMMA ExtensionIs ==
  ASSUME NEW n \in Nat
  PROVE  /\ Extension(n) \in Seq(0 .. TopByte) /\ Len(Extension(n)) \in Nat
         /\ n < RunMask => Len(Extension(n)) = 0
         /\ n >= RunMask =>
              LET f == (n - RunMask) \div TopByte
              IN  /\ f \in Nat /\ Len(Extension(n)) = f + 1
                  /\ \A i \in 1 .. f : Extension(n)[i] = TopByte
                  /\ Extension(n)[f + 1] = (n - RunMask) % TopByte
                  /\ (n - RunMask) % TopByte \in 0 .. TopByte - 1
                  /\ n - RunMask = TopByte * f + ((n - RunMask) % TopByte)
<1>1. CASE n < RunMask
  <2>1. Extension(n) = <<>>
    BY <1>1 DEF Extension
  <2>2. ~(n >= RunMask)
    BY <1>1, Parameters
  <2> QED
    BY <2>1, <2>2
<1>2. CASE ~(n < RunMask)
  <2> DEFINE over == n - RunMask
             f == over \div TopByte
             r == over % TopByte
             full == [i \in 1 .. f |-> TopByte]
             last == <<r>>
  <2>1. over \in Nat /\ TopByte \in Nat \ {0} /\ n >= RunMask
    BY <1>2, Parameters
  <2>2. f \in Nat /\ r \in 0 .. TopByte - 1 /\ over = TopByte * f + r
    <3> HIDE DEF over
    <3>1. /\ over \div TopByte \in Nat /\ over % TopByte \in 0 .. TopByte - 1
          /\ over = TopByte * (over \div TopByte) + (over % TopByte)
      BY <2>1, Divided
    <3> QED
      BY <3>1
  <2>3. Extension(n) = full \o last
    BY <1>2 DEF Extension
  <2> HIDE DEF f, r
  <2>4. full \in Seq(0 .. TopByte) /\ Len(full) = f
    BY <2>1, <2>2
  <2>5. last \in Seq(0 .. TopByte) /\ Len(last) = 1 /\ last[1] = r
    BY <2>1, <2>2
  <2> HIDE DEF full, last
  <2>6. /\ Extension(n) \in Seq(0 .. TopByte) /\ Len(Extension(n)) = f + 1
        /\ \A i \in 1 .. f : Extension(n)[i] = full[i]
        /\ \A i \in 1 .. 1 : Extension(n)[f + i] = last[i]
    <3> DEFINE B == 0 .. TopByte
    <3>1. full \in Seq(B) /\ last \in Seq(B)
      BY <2>4, <2>5
    <3> HIDE DEF B
    <3>2. full \o last \in Seq(B)
      BY <3>1, TwoParts
    <3>3. Len(full \o last) = Len(full) + Len(last)
      BY <3>1, TwoParts
    <3>4. \A i \in 1 .. Len(full) : (full \o last)[i] = full[i]
      BY <3>1, TwoParts
    <3>5. \A i \in 1 .. Len(last) : (full \o last)[Len(full) + i] = last[i]
      BY <3>1, TwoParts
    <3> QED
      BY <2>3, <2>4, <2>5, <3>2, <3>3, <3>4, <3>5 DEF B
  <2>7. \A i \in 1 .. f : Extension(n)[i] = TopByte
    BY <2>6, <2>2 DEF full
  <2>8. Extension(n)[f + 1] = r
    BY <2>6, <2>5
  <2> HIDE DEF over
  <2>9. /\ f \in Nat /\ Len(Extension(n)) = f + 1
        /\ \A i \in 1 .. f : Extension(n)[i] = TopByte
        /\ Extension(n)[f + 1] = over % TopByte
        /\ over % TopByte \in 0 .. TopByte - 1
        /\ over = TopByte * f + (over % TopByte)
    BY <2>2, <2>6, <2>7, <2>8 DEF r
  <2>10. ~(n < RunMask) /\ Len(Extension(n)) \in Nat
    BY <1>2, <2>6
  <2> QED
    BY <2>6, <2>9, <2>10 DEF f, over
<1> QED
  BY <1>1, <1>2

\* ... and how much room that takes.
LEMMA ExtensionFits ==
  ASSUME NEW n \in Nat
  PROVE  /\ Len(Extension(n)) <= n \div TopByte + 1
         /\ n \div TopByte \in Nat
         /\ (n + TopByte - RunMask) \div TopByte \in Nat
         /\ Len(Extension(n)) <= (n + TopByte - RunMask) \div TopByte
<1> DEFINE T == TopByte
           e == Len(Extension(n))
           over == n - RunMask
           a == n \div T
           b == (n + T - RunMask) \div T
           c == over \div T
<1>1. T \in Nat \ {0} /\ RunMask \in Nat /\ RunMask <= T /\ RunMask # 0
  BY Parameters
<1>2. a \in Nat /\ n % T \in 0 .. T - 1 /\ n = T * a + (n % T)
  BY <1>1, Divided
<1>3. b \in Nat
  <2> DEFINE m == n + T - RunMask
  <2>1. m \in Nat
    BY <1>1
  <2> HIDE DEF m
  <2>2. m \div T \in Nat
    BY <2>1, <1>1, Divided
  <2> QED
    BY <2>2 DEF m
<1>4. CASE n < RunMask
  <2>1. e = 0
    BY <1>4, ExtensionIs
  <2> HIDE DEF a, b, e
  <2> QED
    BY <2>1, <1>2, <1>3 DEF a, b, e
<1>5. CASE ~(n < RunMask)
  <2>1. over \in Nat /\ n >= RunMask
    BY <1>1, <1>5
  <2>2. c \in Nat /\ e = c + 1
    BY <2>1, ExtensionIs
  <2>3. over % T \in 0 .. T - 1 /\ over = T * c + (over % T)
    <3> HIDE DEF over
    <3> QED
      BY <2>1, <1>1, Divided
  <2>4. b = c + 1
    <3> DEFINE m == n + T - RunMask
               r == over % T
    <3> HIDE DEF r, c
    <3>1. m \in Nat /\ r \in 0 .. T - 1
      BY <1>1, <2>3 DEF r
    <3>2. T * (c + 1) = T * c + T
      BY <1>1, <2>2
    <3>3. T * c \in Nat
      BY <1>1, <2>2
    <3>4. over = T * c + r
      BY <2>3 DEF r
    <3>5. m = T * (c + 1) + r
      BY <3>1, <3>2, <3>3, <3>4, <1>1
    <3> HIDE DEF m, T
    <3>6. m \div T = c + 1
      BY <3>1, <3>5, <1>1, <2>2, OneQuotient
    <3> QED
      BY <3>6 DEF m, T
  <2>5. c <= a
    <3> DEFINE r == over % T
               s == n % T
    <3> HIDE DEF r, s, c, a
    <3>1. T * c + r + RunMask = T * a + s /\ r \in Nat /\ s \in 0 .. T - 1
      BY <1>1, <1>2, <2>1, <2>3 DEF r, s
    <3> SUFFICES ASSUME c >= a + 1 PROVE FALSE
      BY <1>2, <2>2
    <3>2. T * c >= T * (a + 1)
      BY <1>1, <1>2, <2>2
    <3>3. T * (a + 1) = T * a + T
      BY <1>1, <1>2
    <3>4. T * a \in Nat /\ T * c \in Nat
      BY <1>1, <1>2, <2>2
    <3> QED
      BY <3>1, <3>2, <3>3, <3>4, <1>1
  <2> HIDE DEF a, b, c, e
  <2> QED
    BY <1>2, <1>3, <2>2, <2>4, <2>5 DEF a, b, e
<1> QED
  BY <1>4, <1>5

\* A part of the input.
LEMMA BytesAre ==
  ASSUME IsPicture(input), NEW p \in Nat, NEW n \in Nat, p + n <= End
  PROVE  /\ Bytes(p, n) \in Seq(0 .. TopByte) /\ Len(Bytes(p, n)) = n
         /\ \A i \in 1 .. n : Bytes(p, n)[i] = input[p + i]
<1>1. p + n <= Len(input) /\ p + 1 \in Nat /\ p + n \in Nat /\ Len(input) \in Nat
  BY DEF End, IsPicture
<1>2. Len(Bytes(p, n)) = n
  BY <1>1 DEF Bytes, IsPicture
<1>3. \A i \in 1 .. n : Bytes(p, n)[i] = input[p + i]
  BY <1>1 DEF Bytes, IsPicture
<1>4. Bytes(p, n) \in Seq(0 .. TopByte)
  <2> DEFINE B == 0 .. TopByte
  <2>1. input \in Seq(B)
    BY DEF IsPicture
  <2> HIDE DEF B
  <2>2. \A i \in p + 1 .. p + n : input[i] \in B
    BY <2>1, <1>1
  <2>3. Bytes(p, n) \in Seq(B)
    BY <2>1, <2>2, <1>1 DEF Bytes
  <2> QED
    BY <2>3 DEF B
<1> QED
  BY <1>2, <1>3, <1>4

\* A sequence of a block depends on its own bytes only.
LEMMA SequenceStays ==
  ASSUME NEW in, NEW bytes, NEW new, NEW a \in Nat, NEW p \in Nat, NEW b \in Nat, NEW q,
         SequenceAt(in, bytes, a, p, b, q), \A i \in 1 .. b : new[i] = bytes[i]
  PROVE  SequenceAt(in, new, a, p, b, q)
<1>1. PICK n \in Nat, code \in Nat, off \in 1 .. DistanceMax :
             SequenceOf(in, bytes, a, p, b, q, n, code, off)
  BY DEF SequenceAt
<1> DEFINE e == Len(Extension(n))
           f == Len(Extension(code))
           h == HeadEnd(a, n)
<1>2. e \in Nat /\ f \in Nat
  BY ExtensionIs
<1>3. h = a + 1 + e + n /\ b = h + 2 + f
  BY <1>1 DEF HeadEnd, SequenceOf
<1>4. h \in Nat
  BY <1>2, <1>3
<1>5. HeadAt(in, new, a, p, n, Nibble(code))
  <2>1. HeadAt(in, bytes, a, p, n, Nibble(code))
    BY <1>1 DEF SequenceOf
  <2>2. new[a + 1] = Token(Nibble(n), Nibble(code))
    <3>1. a + 1 \in 1 .. b
      BY <1>2, <1>3
    <3> QED
      BY <2>1, <3>1 DEF HeadAt
  <2>3. Spells(new, a + 1, Extension(n))
    <3> SUFFICES ASSUME NEW i \in 1 .. e PROVE new[(a + 1) + i] = Extension(n)[i]
      BY DEF Spells
    <3>1. (a + 1) + i \in 1 .. b
      BY <1>2, <1>3
    <3> QED
      BY <2>1, <3>1 DEF HeadAt, Spells
  <2>4. \A i \in 1 .. n : new[a + 1 + e + i] = in[p + i]
    <3> TAKE i \in 1 .. n
    <3>1. a + 1 + e + i \in 1 .. b
      BY <1>2, <1>3
    <3> QED
      BY <2>1, <3>1 DEF HeadAt
  <2> QED
    BY <2>2, <2>3, <2>4 DEF HeadAt
<1>6. TailAt(new, h, off, code)
  <2>1. TailAt(bytes, h, off, code)
    BY <1>1 DEF SequenceOf
  <2> HIDE DEF h
  <2>2. h + 1 \in 1 .. b /\ h + 2 \in 1 .. b
    BY <1>2, <1>3, <1>4
  <2>3. Spells(new, h + 2, Extension(code))
    <3> SUFFICES ASSUME NEW i \in 1 .. f PROVE new[(h + 2) + i] = Extension(code)[i]
      BY DEF Spells
    <3>1. (h + 2) + i \in 1 .. b
      BY <1>2, <1>3, <1>4
    <3> QED
      BY <2>1, <3>1 DEF TailAt, Spells
  <2> QED
    BY <2>1, <2>2, <2>3 DEF TailAt
<1>7. SequenceOf(in, new, a, p, b, q, n, code, off)
  BY <1>1, <1>5, <1>6 DEF SequenceOf
<1> QED
  BY <1>7 DEF SequenceAt

\* A sequence is longer than nothing.
LEMMA SequenceLength ==
  ASSUME NEW in, NEW bytes, NEW a \in Nat, NEW p \in Nat, NEW b, NEW q,
         SequenceAt(in, bytes, a, p, b, q)
  PROVE  b \in Nat /\ q \in Nat /\ a < b /\ p < q /\ q <= Len(in) - LastLiterals
<1>1. PICK n \in Nat, code \in Nat, off \in 1 .. DistanceMax :
             SequenceOf(in, bytes, a, p, b, q, n, code, off)
  BY DEF SequenceAt
<1>2. Len(Extension(n)) \in Nat /\ Len(Extension(code)) \in Nat
  BY ExtensionIs
<1>3. MinMatch \in Nat /\ MinMatch >= 3
  BY Parameters
<1> QED
  BY <1>1, <1>2, <1>3 DEF SequenceOf, HeadEnd

\* A block grows by a sequence.
LEMMA ParsedGrows ==
  ASSUME NEW in, NEW bytes, NEW new, NEW a \in Nat, NEW p \in Nat, NEW b, NEW q,
         Parsed(in, bytes, a, p), \A i \in 1 .. a : new[i] = bytes[i],
         SequenceAt(in, new, a, p, b, q)
  PROVE  Parsed(in, new, b, q)
<1>1. PICK M \in SUBSET (Nat \X Nat) :
         /\ <<0, 0>> \in M
         /\ \A x \in Nat, y \in Nat : <<x, y>> \in M =>
              \/ x = a /\ y = p
              \/ \E u \in 0 .. a, v \in 0 .. p :
                   <<u, v>> \in M /\ SequenceAt(in, bytes, x, y, u, v)
  BY DEF Parsed
<1>2. b \in Nat /\ q \in Nat /\ a < b /\ p < q
  BY SequenceLength
<1> DEFINE N == M \cup {<<b, q>>}
<1>3. N \in SUBSET (Nat \X Nat) /\ <<0, 0>> \in N
  BY <1>1, <1>2
<1>4. ASSUME NEW x \in Nat, NEW y \in Nat, <<x, y>> \in N
      PROVE  \/ x = b /\ y = q
             \/ \E u \in 0 .. b, v \in 0 .. q :
                  <<u, v>> \in N /\ SequenceAt(in, new, x, y, u, v)
  <2>1. CASE <<x, y>> = <<b, q>>
    BY <2>1
  <2>2. CASE x = a /\ y = p
    <3>1. b \in 0 .. b /\ q \in 0 .. q /\ <<b, q>> \in N
      BY <1>2
    <3> QED
      BY <2>2, <3>1
  <2>3. CASE <<x, y>> # <<b, q>> /\ ~(x = a /\ y = p)
    <3>1. PICK u \in 0 .. a, v \in 0 .. p :
                 <<u, v>> \in M /\ SequenceAt(in, bytes, x, y, u, v)
      BY <1>1, <1>4, <2>3
    <3>2. u \in Nat /\ u \in 0 .. b /\ v \in 0 .. q /\ \A i \in 1 .. u : new[i] = bytes[i]
      BY <1>2
    <3>3. SequenceAt(in, new, x, y, u, v)
      BY <3>1, <3>2, SequenceStays
    <3> QED
      BY <3>1, <3>2, <3>3
  <2> QED
    BY <2>1, <2>2, <2>3
<1> HIDE DEF N
<1> QED
  BY <1>3, <1>4 DEF Parsed

\* What follows the sequences of a block does not change them.
LEMMA ParsedStays ==
  ASSUME NEW in, NEW bytes, NEW new, NEW a \in Nat, NEW p \in Nat,
         Parsed(in, bytes, a, p), \A i \in 1 .. a : new[i] = bytes[i]
  PROVE  Parsed(in, new, a, p)
<1>1. PICK M \in SUBSET (Nat \X Nat) :
         /\ <<0, 0>> \in M
         /\ \A x \in Nat, y \in Nat : <<x, y>> \in M =>
              \/ x = a /\ y = p
              \/ \E u \in 0 .. a, v \in 0 .. p :
                   <<u, v>> \in M /\ SequenceAt(in, bytes, x, y, u, v)
  BY DEF Parsed
<1>2. ASSUME NEW x \in Nat, NEW y \in Nat, <<x, y>> \in M, ~(x = a /\ y = p)
      PROVE  \E u \in 0 .. a, v \in 0 .. p :
                   <<u, v>> \in M /\ SequenceAt(in, new, x, y, u, v)
  <2>1. PICK u \in 0 .. a, v \in 0 .. p :
               <<u, v>> \in M /\ SequenceAt(in, bytes, x, y, u, v)
    BY <1>1, <1>2
  <2>2. u \in Nat /\ \A i \in 1 .. u : new[i] = bytes[i]
    OBVIOUS
  <2>3. SequenceAt(in, new, x, y, u, v)
    BY <2>1, <2>2, SequenceStays
  <2> QED
    BY <2>1, <2>3
<1> QED
  BY <1>1, <1>2 DEF Parsed

-----------------------------------------------------------------------------
(* The writers.                                                            *)

\* Bytes are numbers.
LEMMA BytesAreNumbers ==
  ASSUME NEW s \in Seq(0 .. TopByte)
  PROVE  s \in Seq(Nat)
<1>1. 0 .. TopByte \subseteq Nat
  BY Parameters
<1> QED
  BY <1>1, SeqMonotonic

\* What a token can hold of a length.
LEMMA NibbleIs ==
  ASSUME NEW n \in Nat
  PROVE  /\ Nibble(n) \in 0 .. RunMask /\ Nibble(n) \in Nat
         /\ Nibble(n) = RunMask <=> n >= RunMask
         /\ n < RunMask => Nibble(n) = n
BY Parameters DEF Nibble

\* A token and its literals are added to a block.
LEMMA HeadWritten ==
  ASSUME IsPicture(input), NEW bytes \in Seq(Nat), NEW n \in Nat, NEW from \in Nat,
         from + n <= End
  PROVE  LET new == bytes \o <<Token(Nibble(n), 0)>> \o Extension(n) \o Bytes(from, n)
         IN  /\ new \in Seq(Nat) /\ Len(new) = HeadEnd(Len(bytes), n)
             /\ \A i \in 1 .. Len(bytes) : new[i] = bytes[i]
             /\ HeadAt(input, new, Len(bytes), from, n, 0)
<1> DEFINE tok == Token(Nibble(n), 0)
           t == <<tok>>
           x == Extension(n)
           y == Bytes(from, n)
           s1 == bytes \o t
           s2 == s1 \o x
           s3 == s2 \o y
<1>1. tok \in Nat
  BY NibbleIs, Parameters DEF Token
<1> HIDE DEF tok
<1>2. t \in Seq(Nat) /\ Len(t) = 1 /\ t[1] = tok
  BY <1>1
<1>3. x \in Seq(Nat) /\ Len(x) \in Nat
  <2>1. x \in Seq(0 .. TopByte)
    BY ExtensionIs
  <2>2. x \in Seq(Nat)
    BY <2>1, BytesAreNumbers
  <2> QED
    BY <2>2, ExtensionIs
<1>4. y \in Seq(Nat) /\ Len(y) = n /\ \A i \in 1 .. n : y[i] = input[from + i]
  <2>1. y \in Seq(0 .. TopByte)
    BY BytesAre
  <2>2. y \in Seq(Nat)
    BY <2>1, BytesAreNumbers
  <2> QED
    BY <2>2, BytesAre
<1> HIDE DEF t, x, y
<1>5. /\ s1 \in Seq(Nat) /\ Len(s1) = Len(bytes) + 1
      /\ \A i \in 1 .. Len(bytes) : s1[i] = bytes[i]
      /\ s1[Len(bytes) + 1] = tok
  <2>1. s1 \in Seq(Nat)
    BY <1>2, TwoParts
  <2>2. Len(s1) = Len(bytes) + Len(t)
    BY <1>2, TwoParts
  <2>3. \A i \in 1 .. Len(bytes) : s1[i] = bytes[i]
    BY <1>2, TwoParts
  <2>4. \A i \in 1 .. Len(t) : s1[Len(bytes) + i] = t[i]
    BY <1>2, SecondPart
  <2> HIDE DEF s1
  <2> QED
    BY <1>2, <2>1, <2>2, <2>3, <2>4
<1> HIDE DEF s1
<1>6. /\ s2 \in Seq(Nat) /\ Len(s2) = Len(s1) + Len(x)
      /\ \A i \in 1 .. Len(s1) : s2[i] = s1[i]
      /\ \A i \in 1 .. Len(x) : s2[Len(s1) + i] = x[i]
  <2>1. s2 \in Seq(Nat)
    BY <1>3, <1>5, TwoParts
  <2>2. Len(s2) = Len(s1) + Len(x)
    BY <1>3, <1>5, TwoParts
  <2>3. \A i \in 1 .. Len(s1) : s2[i] = s1[i]
    BY <1>3, <1>5, TwoParts
  <2>4. \A i \in 1 .. Len(x) : s2[Len(s1) + i] = x[i]
    BY <1>3, <1>5, SecondPart
  <2> HIDE DEF s2
  <2> QED
    BY <2>1, <2>2, <2>3, <2>4
<1> HIDE DEF s2
<1>7. /\ s3 \in Seq(Nat) /\ Len(s3) = Len(s2) + Len(y)
      /\ \A i \in 1 .. Len(s2) : s3[i] = s2[i]
      /\ \A i \in 1 .. Len(y) : s3[Len(s2) + i] = y[i]
  <2>1. s3 \in Seq(Nat)
    BY <1>4, <1>6, TwoParts
  <2>2. Len(s3) = Len(s2) + Len(y)
    BY <1>4, <1>6, TwoParts
  <2>3. \A i \in 1 .. Len(s2) : s3[i] = s2[i]
    BY <1>4, <1>6, TwoParts
  <2>4. \A i \in 1 .. Len(y) : s3[Len(s2) + i] = y[i]
    <3> TAKE i \in 1 .. Len(y)
    <3>1. s2 \in Seq(Nat) /\ y \in Seq(Nat)
      BY <1>4, <1>6
    <3> QED
      BY <3>1, SecondPart
  <2> HIDE DEF s3
  <2> QED
    BY <2>1, <2>2, <2>3, <2>4
<1> HIDE DEF s3
<1>8. Len(bytes) \in Nat
  OBVIOUS
<1>9. Len(s3) = HeadEnd(Len(bytes), n)
  BY <1>3, <1>4, <1>5, <1>6, <1>7, <1>8 DEF HeadEnd, x
<1>10. \A i \in 1 .. Len(bytes) : s3[i] = bytes[i]
  <2> TAKE i \in 1 .. Len(bytes)
  <2>1. i \in 1 .. Len(s1) /\ i \in 1 .. Len(s2)
    BY <1>3, <1>5, <1>6, <1>8
  <2> QED
    BY <2>1, <1>5, <1>6, <1>7
<1>11. s3[Len(bytes) + 1] = tok
  <2>1. Len(bytes) + 1 \in 1 .. Len(s1) /\ Len(bytes) + 1 \in 1 .. Len(s2)
    BY <1>3, <1>5, <1>6, <1>8
  <2> QED
    BY <2>1, <1>5, <1>6, <1>7
<1>12. Spells(s3, Len(bytes) + 1, x)
  <2> SUFFICES ASSUME NEW i \in 1 .. Len(x) PROVE s3[(Len(bytes) + 1) + i] = x[i]
    BY DEF Spells
  <2>1. Len(s1) + i \in 1 .. Len(s2) /\ Len(s1) + i = (Len(bytes) + 1) + i
    BY <1>3, <1>5, <1>6, <1>8
  <2> QED
    BY <2>1, <1>6, <1>7
<1>13. \A i \in 1 .. n : s3[Len(bytes) + 1 + Len(x) + i] = input[from + i]
  <2> TAKE i \in 1 .. n
  <2>1. Len(s2) + i = Len(bytes) + 1 + Len(x) + i /\ i \in 1 .. Len(y)
    BY <1>3, <1>4, <1>5, <1>6, <1>8
  <2> QED
    BY <2>1, <1>4, <1>7
<1>14. HeadAt(input, s3, Len(bytes), from, n, 0)
  BY <1>11, <1>12, <1>13 DEF HeadAt, tok, x
<1>15. s3 = bytes \o <<Token(Nibble(n), 0)>> \o Extension(n) \o Bytes(from, n)
  BY DEF s3, s2, s1, t, tok, x, y
<1> QED
  BY <1>7, <1>9, <1>10, <1>14, <1>15

\* The literals before a match are written, in a place that has room for them.
LEMMA WithLiteralsOpens ==
  ASSUME IsPicture(input), NEW b, IsBlock(b, End), NEW from \in Nat, NEW p \in Nat,
         from <= p, p <= End, Parsed(input, b.bytes, Len(b.bytes), from), ~b.full
  PROVE  LET w == WithLiterals(b, from, p)
         IN  IsBlock(w, End) /\ (~w.full => Opened(input, w, from, p))
<1> DEFINE n == p - from
           size == Len(b.bytes)
           e == Len(Extension(n))
           at == size + 1 + e
           strides == IF n = 0 THEN 1 ELSE (n + WildCopy - 1) \div WildCopy
           new == b.bytes \o <<Token(Nibble(n), 0)>> \o Extension(n) \o Bytes(from, n)
           touched == Highest(b.touched, at + strides * WildCopy)
           w == WithLiterals(b, from, p)
<1>0. n \in Nat /\ from + n <= End /\ size \in Nat /\ End \in Nat
      /\ b.bytes \in Seq(Nat) /\ b.token \in Nat /\ b.touched \in 0 .. End
  BY EndIs DEF IsBlock
<1>1. CASE ~RoomForLiterals(size, n)
  <2>1. w = [b EXCEPT !.full = TRUE]
    BY <1>1 DEF WithLiterals
  <2> HIDE DEF w
  <2>2. w.full = TRUE /\ w.bytes = b.bytes /\ w.token = b.token /\ w.touched = b.touched
        /\ w = [bytes |-> w.bytes, token |-> w.token, touched |-> w.touched, full |-> w.full]
    BY <2>1 DEF IsBlock
  <2> QED
    BY <2>2 DEF IsBlock, w
<1>2. CASE RoomForLiterals(size, n)
  <2>1. w = [bytes |-> new, token |-> size + 1, touched |-> touched, full |-> FALSE]
    BY <1>2 DEF WithLiterals
  <2>2. /\ new \in Seq(Nat) /\ Len(new) = HeadEnd(size, n)
        /\ \A i \in 1 .. size : new[i] = b.bytes[i]
        /\ HeadAt(input, new, size, from, n, 0)
    <3> DEFINE bytes == b.bytes
               m == n
    <3>1. bytes \in Seq(Nat) /\ m \in Nat /\ from + m <= End
      BY <1>0
    <3> HIDE DEF bytes, m
    <3>2. LET s == bytes \o <<Token(Nibble(m), 0)>> \o Extension(m) \o Bytes(from, m)
          IN  /\ s \in Seq(Nat) /\ Len(s) = HeadEnd(Len(bytes), m)
              /\ \A i \in 1 .. Len(bytes) : s[i] = bytes[i]
              /\ HeadAt(input, s, Len(bytes), from, m, 0)
      BY <3>1, HeadWritten
    <3> QED
      BY <3>2 DEF bytes, m
  <2> DEFINE d == n \div TopByte
             far == at + strides * WildCopy
  <2>3. far \in Nat /\ far <= End
    <3>1. e \in Nat /\ e <= d + 1 /\ d \in Nat
      BY <1>0, ExtensionIs, ExtensionFits
    <3>2. size + 1 + n + (2 + 1 + LastLiterals) + d <= End
      BY <1>2 DEF RoomForLiterals
    <3>3. n = 0 => e = 0
      BY <1>0, ExtensionIs, Parameters
    <3>4. CASE n = 0
      <4>1. strides * WildCopy = WildCopy
        BY <3>4, Parameters
      <4> DEFINE prod == strides * WildCopy
      <4>2. prod = WildCopy
        BY <4>1
      <4> HIDE DEF strides, e, d, n, size, prod
      <4>3. e = 0 /\ at + prod <= End /\ at + prod \in Nat
        BY <4>2, <3>1, <3>2, <3>3, <3>4, <1>0, Parameters
      <4> QED
        BY <4>3 DEF prod
    <3>5. CASE n # 0
      <4> DEFINE m == n + WildCopy - 1
                 k == m \div WildCopy
      <4>1. m \in Nat /\ WildCopy \in Nat \ {0}
        BY <1>0, Parameters
      <4> HIDE DEF m
      <4>2. k \in Nat /\ m % WildCopy \in 0 .. WildCopy - 1
            /\ m = WildCopy * k + (m % WildCopy)
        BY <4>1, Divided
      <4> DEFINE r == m % WildCopy
      <4> HIDE DEF k, r
      <4>3. WildCopy * k \in Nat /\ WildCopy * k <= m /\ k * WildCopy = WildCopy * k
        BY <4>1, <4>2 DEF r
      <4>4. strides = k
        BY <3>5 DEF k, m
      <4> DEFINE prod == strides * WildCopy
      <4>5. prod \in Nat /\ prod <= n + WildCopy - 1
        BY <4>3, <4>4 DEF m
      <4> HIDE DEF strides, e, d, n, size, prod
      <4>6. at + prod <= End /\ at + prod \in Nat
        BY <4>5, <3>1, <3>2, <1>0, Parameters
      <4> QED
        BY <4>6 DEF prod
    <3> QED
      BY <3>4, <3>5
  <2> HIDE DEF far
  <2>4. touched \in 0 .. End
    <3> DEFINE old == b.touched
    <3>0. touched = Highest(old, far)
      BY DEF far
    <3> HIDE DEF touched
    <3>1. far \in 0 .. End /\ old \in 0 .. End /\ touched = IF old > far THEN old ELSE far
      BY <2>3, <3>0, <1>0 DEF Highest
    <3> HIDE DEF old, touched
    <3> QED
      BY <3>1
  <2> HIDE DEF touched, new
  <2>5. IsBlock(w, End)
    <3> HIDE DEF n
    <3> QED
      BY <2>1, <2>2, <2>4, <1>0 DEF IsBlock
  <2>6. Opened(input, w, from, p)
    <3>1. w.bytes = new /\ w.token = size + 1
      BY <2>1
    <3>2. Len(new) = size + 1 + e + n /\ e \in Nat
      BY <2>2, <1>0, ExtensionIs DEF HeadEnd
    <3>3. w.token \in 1 .. Len(w.bytes) /\ w.token - 1 = size
      <4> HIDE DEF w, e, size, n
      <4> QED
        BY <3>1, <3>2, <1>0
    <3>4. Parsed(input, new, size, from)
      <4> DEFINE bytes == b.bytes
      <4>1. Parsed(input, bytes, size, from) /\ \A i \in 1 .. size : new[i] = bytes[i]
        BY <2>2
      <4> HIDE DEF bytes, size
      <4> QED
        BY <4>1, <1>0, ParsedStays
    <3>5. Len(new) + 2 <= Len(input)
      <4> DEFINE k == n \div TopByte
      <4>1. k \in Nat /\ e <= k + 1
        BY <1>0, ExtensionFits
      <4>2. size + 1 + n + (2 + 1 + LastLiterals) + k <= End
        BY <1>2 DEF RoomForLiterals
      <4> HIDE DEF k, e, size, n
      <4> QED
        BY <4>1, <4>2, <3>2, <1>0, Parameters DEF End
    <3> HIDE DEF w, size
    <3> QED
      BY <3>1, <3>3, <3>4, <3>5, <2>2 DEF Opened
  <2> QED
    BY <2>5, <2>6
<1> QED
  BY <1>1, <1>2

\* An offset and a length are written.
LEMMA TailWritten ==
  ASSUME NEW bytes \in Seq(Nat), NEW off \in Nat, NEW code \in Nat
  PROVE  LET new == bytes \o <<off % Bases, (off \div Bases) % Bases>> \o Extension(code)
         IN  /\ new \in Seq(Nat) /\ Len(new) = Len(bytes) + 2 + Len(Extension(code))
             /\ \A i \in 1 .. Len(bytes) : new[i] = bytes[i]
             /\ TailAt(new, Len(bytes), off, code)
<1> DEFINE u == off % Bases
           v == (off \div Bases) % Bases
           t == <<u, v>>
           x == Extension(code)
           s1 == bytes \o t
           s2 == s1 \o x
<1>1. u \in Nat /\ v \in Nat
  <2>1. Bases \in Nat \ {0}
    BY Parameters
  <2> DEFINE d == off \div Bases
  <2>2. d \in Nat /\ off % Bases \in 0 .. Bases - 1
    BY <2>1, Divided
  <2> HIDE DEF d
  <2>3. d % Bases \in 0 .. Bases - 1
    BY <2>1, <2>2, Divided
  <2> QED
    BY <2>1, <2>2, <2>3 DEF d
<1> HIDE DEF u, v
<1>2. t \in Seq(Nat) /\ Len(t) = 2 /\ t[1] = u /\ t[2] = v
  BY <1>1
<1>3. x \in Seq(Nat) /\ Len(x) \in Nat
  <2>1. x \in Seq(0 .. TopByte)
    BY ExtensionIs
  <2>2. x \in Seq(Nat)
    BY <2>1, BytesAreNumbers
  <2> QED
    BY <2>2, ExtensionIs
<1> HIDE DEF t, x
<1>4. /\ s1 \in Seq(Nat) /\ Len(s1) = Len(bytes) + 2
      /\ \A i \in 1 .. Len(bytes) : s1[i] = bytes[i]
      /\ s1[Len(bytes) + 1] = u /\ s1[Len(bytes) + 2] = v
  <2>1. s1 \in Seq(Nat)
    BY <1>2, TwoParts
  <2>2. Len(s1) = Len(bytes) + Len(t)
    BY <1>2, TwoParts
  <2>3. \A i \in 1 .. Len(bytes) : s1[i] = bytes[i]
    BY <1>2, TwoParts
  <2>4. \A i \in 1 .. Len(t) : s1[Len(bytes) + i] = t[i]
    <3> TAKE i \in 1 .. Len(t)
    <3>1. bytes \in Seq(Nat) /\ t \in Seq(Nat)
      BY <1>2
    <3> QED
      BY <3>1, SecondPart
  <2> HIDE DEF s1
  <2>5. 1 \in 1 .. Len(t) /\ 2 \in 1 .. Len(t)
    BY <1>2
  <2> QED
    BY <1>2, <2>1, <2>2, <2>3, <2>4, <2>5
<1> HIDE DEF s1
<1>5. /\ s2 \in Seq(Nat) /\ Len(s2) = Len(s1) + Len(x)
      /\ \A i \in 1 .. Len(s1) : s2[i] = s1[i]
      /\ \A i \in 1 .. Len(x) : s2[Len(s1) + i] = x[i]
  <2>1. s2 \in Seq(Nat)
    BY <1>3, <1>4, TwoParts
  <2>2. Len(s2) = Len(s1) + Len(x)
    BY <1>3, <1>4, TwoParts
  <2>3. \A i \in 1 .. Len(s1) : s2[i] = s1[i]
    BY <1>3, <1>4, TwoParts
  <2>4. \A i \in 1 .. Len(x) : s2[Len(s1) + i] = x[i]
    <3> TAKE i \in 1 .. Len(x)
    <3>1. s1 \in Seq(Nat) /\ x \in Seq(Nat)
      BY <1>3, <1>4
    <3> QED
      BY <3>1, SecondPart
  <2> HIDE DEF s2
  <2> QED
    BY <2>1, <2>2, <2>3, <2>4
<1> HIDE DEF s2
<1>6. Len(bytes) \in Nat
  OBVIOUS
<1>7. \A i \in 1 .. Len(bytes) : s2[i] = bytes[i]
  <2> TAKE i \in 1 .. Len(bytes)
  <2>1. i \in 1 .. Len(s1)
    BY <1>4, <1>6
  <2> QED
    BY <2>1, <1>4, <1>5
<1>8. s2[Len(bytes) + 1] = u /\ s2[Len(bytes) + 2] = v
  <2>1. Len(bytes) + 1 \in 1 .. Len(s1) /\ Len(bytes) + 2 \in 1 .. Len(s1)
    BY <1>4, <1>6
  <2> QED
    BY <2>1, <1>4, <1>5
<1>9. Spells(s2, Len(bytes) + 2, x)
  BY <1>4, <1>5 DEF Spells
<1>10. TailAt(s2, Len(bytes), off, code)
  BY <1>8, <1>9 DEF TailAt, u, v, x
<1>11. s2 = bytes \o <<off % Bases, (off \div Bases) % Bases>> \o Extension(code)
  BY DEF s2, s1, t, u, v, x
<1>12. Len(s2) = Len(bytes) + 2 + Len(Extension(code))
  BY <1>3, <1>4, <1>5, <1>6 DEF x
<1> QED
  BY <1>5, <1>7, <1>10, <1>11, <1>12

\* The match that a token waits for is written.
LEMMA WithMatchCloses ==
  ASSUME IsPicture(input), NEW b, IsBlock(b, End), NEW from, NEW p, NEW off \in 1 .. DistanceMax,
         NEW code \in Nat, NEW fast \in BOOLEAN,
         ~b.full => Opened(input, b, from, p) /\ off <= p,
         p <= LastStart, p + MinMatch + code <= MatchLimit,
         Agree(input, p, p - off, MinMatch + code)
  PROVE  LET w == WithMatch(fast, b, off, code)
         IN  /\ IsBlock(w, End)
             /\ ~w.full => /\ Parsed(input, w.bytes, Len(w.bytes), p + MinMatch + code)
                           /\ fast => Len(w.bytes) + 1 + LastLiterals <= End
<1> DEFINE size == Len(b.bytes) + 2
           e == Len(Extension(code))
           bytes == b.bytes \o <<off % Bases, (off \div Bases) % Bases>> \o Extension(code)
           wide == IF fast /\ code >= RunMask
                   THEN size + 4 * (1 + (code - RunMask) \div (4 * TopByte)) ELSE Len(bytes)
           new == [bytes EXCEPT ![b.token] = @ + Nibble(code)]
           touched == Highest(b.touched, Highest(wide, Len(bytes)))
           w == WithMatch(fast, b, off, code)
<1>0. /\ Len(b.bytes) \in Nat /\ End \in Nat /\ b.bytes \in Seq(Nat) /\ b.token \in Nat
      /\ b.touched \in 0 .. End /\ b.full \in BOOLEAN /\ size \in Nat
  BY EndIs DEF IsBlock
<1>1. CASE b.full
  BY <1>1 DEF WithMatch
<1>2. CASE ~b.full /\ ~RoomForMatch(fast, size, code)
  <2> DEFINE old == b.touched
             high == Highest(old, size)
  <2>1. w = [b EXCEPT !.full = TRUE, !.touched = high]
    BY <1>2 DEF WithMatch
  <2>2. size <= End
    BY <1>2 DEF Opened, End
  <2>3. high \in 0 .. End
    <3> HIDE DEF size, old
    <3>1. old \in 0 .. End
      BY <1>0 DEF old
    <3> QED
      BY <2>2, <3>1, <1>0 DEF Highest
  <2> HIDE DEF w, high
  <2>4. w.full = TRUE /\ w.bytes = b.bytes /\ w.token = b.token /\ w.touched = high
        /\ w = [bytes |-> w.bytes, token |-> w.token, touched |-> w.touched, full |-> w.full]
    BY <2>1 DEF IsBlock
  <2> QED
    BY <2>3, <2>4 DEF IsBlock, w
<1>3. CASE ~b.full /\ RoomForMatch(fast, size, code)
  <2>1. w = [b EXCEPT !.bytes = new, !.touched = touched]
    BY <1>3 DEF WithMatch
  <2>2. Opened(input, b, from, p) /\ off <= p
    BY <1>3
  <2>3. /\ bytes \in Seq(Nat) /\ Len(bytes) = size + e
        /\ \A i \in 1 .. Len(b.bytes) : bytes[i] = b.bytes[i]
        /\ TailAt(bytes, Len(b.bytes), off, code)
    <3> DEFINE s == b.bytes
    <3>1. s \in Seq(Nat) /\ off \in Nat
      BY <1>0, Parameters
    <3> HIDE DEF s
    <3>2. LET t == s \o <<off % Bases, (off \div Bases) % Bases>> \o Extension(code)
          IN  /\ t \in Seq(Nat) /\ Len(t) = Len(s) + 2 + Len(Extension(code))
              /\ \A i \in 1 .. Len(s) : t[i] = s[i]
              /\ TailAt(t, Len(s), off, code)
      BY <3>1, TailWritten
    <3> QED
      BY <3>2 DEF s
  <2>4. e \in Nat
    BY ExtensionIs
  <2> HIDE DEF bytes
  <2>5. wide \in Nat /\ wide <= End /\ size + e <= End
        /\ (fast => size + e + 1 + LastLiterals <= End)
    <3> DEFINE c1 == (code + TopByte - RunMask) \div TopByte
               c2 == code \div TopByte
    <3>1. c1 \in Nat /\ c2 \in Nat /\ e <= c1 /\ e <= c2 + 1
      BY ExtensionFits
    <3>2. size + (1 + LastLiterals) + (IF fast THEN c1 ELSE c2) <= End
      BY <1>3 DEF RoomForMatch
    <3> HIDE DEF c1, c2
    <3>3. size + e <= End /\ (fast => size + e + 1 + LastLiterals <= End)
      <4> HIDE DEF size, e
      <4> QED
        BY <3>1, <3>2, <2>4, <1>0, Parameters
    <3>4. CASE fast /\ code >= RunMask
      <4> DEFINE over == code - RunMask
                 q == over \div (4 * TopByte)
                 f == over \div TopByte
      <4>1. over \in Nat /\ TopByte \in Nat \ {0} /\ 4 * TopByte \in Nat \ {0}
        BY <3>4, Parameters
      <4>2. f \in Nat /\ e = f + 1
        BY <3>4, ExtensionIs
      <4> HIDE DEF over
      <4>3. over % TopByte \in 0 .. TopByte - 1 /\ over = TopByte * f + (over % TopByte)
        BY <4>1, Divided
      <4> DEFINE T4 == 4 * TopByte
      <4>4. q \in Nat /\ over % T4 \in 0 .. T4 - 1 /\ over = T4 * q + (over % T4)
        <5>1. T4 \in Nat \ {0} /\ q = over \div T4
          BY <4>1
        <5> HIDE DEF T4
        <5> QED
          BY <5>1, <4>1, Divided
      <4>5. 4 * q <= f
        <5> DEFINE r == over % TopByte
                   s == over % T4
        <5>1. T4 * q = TopByte * (4 * q)
          BY <4>1, <4>4
        <5> HIDE DEF r, s, q, f, T4
        <5>2. TopByte * f + r = TopByte * (4 * q) + s /\ r \in 0 .. TopByte - 1 /\ s \in Nat
          BY <4>3, <4>4, <5>1 DEF r, s
        <5> SUFFICES ASSUME 4 * q >= f + 1 PROVE FALSE
          BY <4>2, <4>4
        <5> DEFINE z == 4 * q
        <5>3. z \in Nat
          BY <4>4
        <5> HIDE DEF z
        <5>4. TopByte * z >= TopByte * (f + 1)
          BY <4>1, <4>2, <5>3 DEF z
        <5>5. TopByte * (f + 1) = TopByte * f + TopByte
          BY <4>1, <4>2
        <5>6. TopByte * f \in Nat /\ TopByte * z \in Nat
          BY <4>1, <4>2, <5>3
        <5>7. TopByte * f + r = TopByte * z + s
          BY <5>2 DEF z
        <5> QED
          BY <5>2, <5>4, <5>5, <5>6, <5>7, <4>1
      <4>6. wide = size + 4 * (1 + q)
        BY <3>4 DEF over
      <4> HIDE DEF wide, q, f, size, e
      <4> QED
        BY <4>2, <4>4, <4>5, <4>6, <3>3, <3>4, <1>0, Parameters
    <3>5. CASE ~(fast /\ code >= RunMask)
      <4>1. wide = Len(bytes)
        BY <3>5
      <4> HIDE DEF wide, size, e
      <4> QED
        BY <4>1, <3>3, <2>3, <2>4, <1>0
    <3> QED
      BY <3>4, <3>5
  <2>6. touched \in 0 .. End
    <3> DEFINE old == b.touched
               high == Highest(wide, Len(bytes))
    <3>1. touched = Highest(old, high)
      OBVIOUS
    <3>2. high \in 0 .. End
      <4> HIDE DEF wide
      <4>1. high = IF wide > Len(bytes) THEN wide ELSE Len(bytes)
        BY DEF Highest
      <4> HIDE DEF high, size, e
      <4> QED
        BY <4>1, <2>3, <2>4, <2>5, <1>0
    <3>3. old \in 0 .. End
      BY <1>0
    <3> HIDE DEF touched, high, old
    <3> QED
      BY <3>1, <3>2, <3>3 DEF Highest
  <2> HIDE DEF touched, wide
  <2>7. Nibble(code) \in Nat
    BY NibbleIs
  <2>8. b.token \in 1 .. Len(bytes) /\ b.token <= Len(b.bytes)
    <3>1. b.token \in 1 .. Len(b.bytes)
      BY <2>2 DEF Opened
    <3> HIDE DEF e
    <3> QED
      BY <3>1, <2>3, <2>4, <1>0
  <2>9. /\ new \in Seq(Nat) /\ Len(new) = Len(bytes)
        /\ \A i \in 1 .. Len(bytes) : i # b.token => new[i] = bytes[i]
        /\ new[b.token] = bytes[b.token] + Nibble(code)
    <3> DEFINE k == b.token
               x == bytes[k] + Nibble(code)
    <3>1. bytes \in Seq(Nat) /\ k \in 1 .. Len(bytes)
      BY <2>3, <2>8
    <3>2. bytes[k] \in Nat
      BY <3>1, ElementOfSeq
    <3>3. x \in Nat
      BY <3>2, <2>7
    <3>4. new = [bytes EXCEPT ![k] = x]
      OBVIOUS
    <3> HIDE DEF new, x, k
    <3>5. new \in Seq(Nat)
      BY <3>1, <3>3, <3>4, ExceptSeq
    <3>6. Len(new) = Len(bytes)
      BY <3>1, <3>3, <3>4, ExceptSeq
    <3>7. \A j \in 1 .. Len(bytes) : new[j] = IF j = k THEN x ELSE bytes[j]
      BY <3>1, <3>3, <3>4, ExceptSeq
    <3> QED
      BY <3>1, <3>5, <3>6, <3>7 DEF x, k
  <2>10. w = [bytes |-> new, token |-> b.token, touched |-> touched, full |-> FALSE]
    <3> HIDE DEF new
    <3> QED
      BY <2>1, <1>3 DEF IsBlock
  <2> HIDE DEF new, w
  <2>11. IsBlock(w, End)
    BY <2>10, <2>9, <2>6, <1>0 DEF IsBlock
  <2> DEFINE a == b.token - 1
             n == p - from
             size1 == Len(b.bytes)
             end == size + e
  <2>12. /\ from \in Nat /\ p \in Nat /\ n \in Nat /\ from + n = p /\ a \in Nat
         /\ size1 = a + 1 + Len(Extension(n)) + n /\ Len(Extension(n)) \in Nat
         /\ Parsed(input, b.bytes, a, from) /\ HeadAt(input, b.bytes, a, from, n, 0)
    <3>1. from \in Nat /\ p \in Nat /\ n \in Nat /\ from + n = p /\ a \in Nat
      BY <2>2, <1>0 DEF Opened
    <3>2. Len(Extension(n)) \in Nat
      BY <3>1, ExtensionIs
    <3> QED
      BY <3>1, <3>2, <2>2 DEF Opened, HeadEnd
  <2> HIDE DEF n
  <2>13. \A i \in 1 .. size1 : i # a + 1 => new[i] = b.bytes[i]
    <3> TAKE i \in 1 .. size1
    <3>1. i \in 1 .. Len(bytes) /\ a + 1 = b.token
      <4>1. a + 1 = b.token
        BY <1>0
      <4>2. Len(bytes) = size1 + 2 + e /\ size1 \in Nat /\ e \in Nat
        BY <2>3, <2>4, <1>0
      <4> HIDE DEF e, size1
      <4> QED
        BY <4>1, <4>2
    <3> QED
      BY <3>1, <2>3, <2>9
  <2>14. HeadAt(input, new, a, from, n, Nibble(code))
    <3>1. new[a + 1] = Token(Nibble(n), Nibble(code))
      <4>1. a + 1 = b.token /\ bytes[b.token] = b.bytes[b.token]
        <5>1. a + 1 = b.token /\ b.token \in 1 .. Len(b.bytes)
          BY <2>8, <1>0
        <5> QED
          BY <5>1, <2>3
      <4>2. b.bytes[a + 1] = Token(Nibble(n), 0)
        BY <2>12 DEF HeadAt
      <4>3. new[a + 1] = Token(Nibble(n), 0) + Nibble(code)
        BY <4>1, <4>2, <2>9
      <4>4. Nibble(n) \in Nat /\ RunMask \in Nat
        BY <2>12, NibbleIs, Parameters
      <4> DEFINE x == Nibble(n)
                 y == Nibble(code)
                 xr == x * (RunMask + 1)
      <4>5. xr \in Nat /\ y \in Nat
        BY <4>4, <2>7
      <4>6. Token(x, 0) = xr + 0 /\ Token(x, y) = xr + y
        BY DEF Token
      <4> HIDE DEF x, y, xr
      <4>7. Token(x, 0) + y = Token(x, y)
        BY <4>5, <4>6
      <4> QED
        BY <4>3, <4>7 DEF x, y
    <3> DEFINE f == Len(Extension(n))
    <3>2. Spells(new, a + 1, Extension(n))
      <4> SUFFICES ASSUME NEW i \in 1 .. f PROVE new[(a + 1) + i] = Extension(n)[i]
        BY DEF Spells
      <4>1. (a + 1) + i \in 1 .. size1 /\ (a + 1) + i # a + 1
        BY <2>12
      <4>2. b.bytes[(a + 1) + i] = Extension(n)[i]
        BY <2>12 DEF HeadAt, Spells
      <4> QED
        BY <4>1, <4>2, <2>13
    <3>3. \A i \in 1 .. n : new[a + 1 + f + i] = input[from + i]
      <4> TAKE i \in 1 .. n
      <4>1. a + 1 + f + i \in 1 .. size1 /\ a + 1 + f + i # a + 1
        <5>1. size1 = a + 1 + f + n /\ a \in Nat /\ f \in Nat /\ n \in Nat
          BY <2>12
        <5> HIDE DEF size1, a, f
        <5> QED
          BY <5>1
      <4>2. b.bytes[a + 1 + f + i] = input[from + i]
        BY <2>12 DEF HeadAt
      <4> QED
        BY <4>1, <4>2, <2>13
    <3> QED
      BY <3>1, <3>2, <3>3 DEF HeadAt
  <2>15. TailAt(new, size1, off, code)
    <3>1. TailAt(bytes, size1, off, code)
      BY <2>3
    <3>2. \A i \in size1 + 1 .. Len(bytes) : new[i] = bytes[i]
      <4> TAKE i \in size1 + 1 .. Len(bytes)
      <4>1. i \in 1 .. Len(bytes) /\ i # b.token
        <5>1. b.token \in Nat /\ b.token <= size1 /\ size1 \in Nat
          BY <2>8, <1>0
        <5> HIDE DEF size1
        <5> QED
          BY <5>1
      <4> QED
        BY <4>1, <2>9
    <3>3. size1 + 1 \in size1 + 1 .. Len(bytes) /\ size1 + 2 \in size1 + 1 .. Len(bytes)
      BY <2>3, <2>4, <1>0
    <3>4. Spells(new, size1 + 2, Extension(code))
      <4> SUFFICES ASSUME NEW i \in 1 .. e
                   PROVE  new[(size1 + 2) + i] = Extension(code)[i]
        BY DEF Spells
      <4>1. (size1 + 2) + i \in size1 + 1 .. Len(bytes)
        BY <2>3, <2>4, <1>0
      <4>2. bytes[(size1 + 2) + i] = Extension(code)[i]
        BY <3>1 DEF TailAt, Spells
      <4> QED
        BY <4>1, <4>2, <3>2
    <3> HIDE DEF size1
    <3> QED
      BY <3>1, <3>2, <3>3, <3>4 DEF TailAt
  <2>16. \A i \in 1 .. a : new[i] = b.bytes[i]
    <3> TAKE i \in 1 .. a
    <3>1. i \in 1 .. size1 /\ i # a + 1
      BY <2>12
    <3> QED
      BY <3>1, <2>13
  <2> DEFINE q == p + MinMatch + code
  <2>17. SequenceAt(input, new, a, from, end, q)
    <3>1. HeadEnd(a, n) = size1
      BY <2>12 DEF HeadEnd
    <3>2. end = size1 + 2 + e /\ q = from + n + MinMatch + code
      BY <2>12
    <3>3. off <= from + n /\ from + n <= Len(input) - MFLimit
          /\ q <= Len(input) - LastLiterals
      BY <2>12, <2>2 DEF LastStart, MatchLimit, End
    <3>4. Agree(input, from + n, from + n - off, MinMatch + code)
      BY <2>12
    <3>5. SequenceOf(input, new, a, from, end, q, n, code, off)
      <4> HIDE DEF end, q, a, size1
      <4> QED
        BY <3>1, <3>2, <3>3, <3>4, <2>14, <2>15 DEF SequenceOf
    <3> HIDE DEF end, q, a
    <3> QED
      BY <3>5, <2>12 DEF SequenceAt
  <2>18. Parsed(input, new, end, q)
    <3> DEFINE s == b.bytes
    <3>1. Parsed(input, s, a, from) /\ \A i \in 1 .. a : new[i] = s[i]
      BY <2>12, <2>16
    <3> HIDE DEF s, a, end, q
    <3> QED
      BY <3>1, <2>12, <2>17, ParsedGrows
  <2>19. Len(new) = end /\ w.bytes = new
    BY <2>9, <2>3, <2>10
  <2>20. fast => Len(new) + 1 + LastLiterals <= End
    <3> HIDE DEF size, e
    <3> QED
      BY <2>5, <2>9, <2>3
  <2> QED
    BY <2>11, <2>18, <2>19, <2>20 DEF w
<1> QED
  BY <1>0, <1>1, <1>2, <1>3

\* The place at, where the input is known up to pos, is one that a block can be read from.
Restorable(in, bytes, at, pos) ==
  \E M \in SUBSET (Nat \X Nat) : <<at, pos>> \in M /\ Readable(in, bytes, M)

\* Literals and a match are written.
LEMMA WithSequenceWrites ==
  ASSUME IsPicture(input), NEW b, IsBlock(b, End), NEW from \in Nat, NEW p \in Nat,
         from <= p, Parsed(input, b.bytes, Len(b.bytes), from), ~b.full, NEW m,
         MatchAt(input, p, m)
  PROVE  LET w == WithSequence(b, from, p, m)
         IN  /\ IsBlock(w, End)
             /\ ~w.full => Parsed(input, w.bytes, Len(w.bytes), p + m.len)
<1> DEFINE o == WithLiterals(b, from, p)
           code == m.len - MinMatch
           off == m.off
           w == WithMatch(FALSE, o, off, code)
<1>1. /\ m.len \in Nat /\ off \in 1 .. DistanceMax /\ off <= p /\ code \in Nat
      /\ p <= LastStart /\ p + m.len <= MatchLimit /\ p <= End
      /\ Agree(input, p, p - off, m.len) /\ MinMatch + code = m.len
      /\ p + MinMatch + code = p + m.len
  <2>1. /\ m.len \in Nat /\ off \in 1 .. DistanceMax /\ off <= p /\ m.len >= MinMatch
        /\ p <= LastStart /\ p + m.len <= MatchLimit /\ Agree(input, p, p - off, m.len)
    BY DEF MatchAt, LastStart, MatchLimit, End
  <2>2. code \in Nat /\ MinMatch + code = m.len /\ p + MinMatch + code = p + m.len
    <3> DEFINE len == m.len
    <3>1. len \in Nat /\ len >= MinMatch /\ MinMatch \in Nat /\ code = len - MinMatch
      BY <2>1, Parameters
    <3> HIDE DEF len, code
    <3>2. code \in Nat /\ MinMatch + code = len /\ p + MinMatch + code = p + len
      BY <3>1
    <3> QED
      BY <3>2 DEF len
  <2>3. p <= End
    BY <2>1, EndIs, Parameters
  <2> QED
    BY <2>1, <2>2, <2>3
<1>2. IsBlock(o, End) /\ (~o.full => Opened(input, o, from, p))
  BY <1>1, WithLiteralsOpens
<1>3. WithSequence(b, from, p, m) = w
  BY DEF WithSequence
<1>4. Agree(input, p, p - off, MinMatch + code) /\ p + MinMatch + code <= MatchLimit
  BY <1>1
<1>5. FALSE \in BOOLEAN
  OBVIOUS
<1> HIDE DEF o, off, code
<1>6. /\ IsBlock(w, End)
      /\ ~w.full => Parsed(input, w.bytes, Len(w.bytes), p + MinMatch + code)
  <2>1. LET v == WithMatch(FALSE, o, off, code)
        IN  /\ IsBlock(v, End)
            /\ ~v.full => /\ Parsed(input, v.bytes, Len(v.bytes), p + MinMatch + code)
                          /\ FALSE => Len(v.bytes) + 1 + LastLiterals <= End
    BY <1>1, <1>2, <1>4, <1>5, WithMatchCloses
  <2> QED
    BY <2>1
<1> QED
  BY <1>1, <1>3, <1>6

\* A token without literals is written.
LEMMA OpenedAtOnce ==
  ASSUME IsPicture(input), NEW b, IsBlock(b, End), NEW p \in Nat,
         Parsed(input, b.bytes, Len(b.bytes), p), Len(b.bytes) + 3 <= End
  PROVE  LET w == [b EXCEPT !.bytes = Append(@, Token(0, 0)), !.token = Len(b.bytes) + 1,
                            !.touched = Highest(@, Len(b.bytes) + 1)]
         IN  IsBlock(w, End) /\ Opened(input, w, p, p) /\ w.full = b.full
<1> DEFINE tok == Token(0, 0)
           size == Len(b.bytes)
           new == Append(b.bytes, tok)
           touched == Highest(b.touched, size + 1)
           w == [b EXCEPT !.bytes = Append(@, Token(0, 0)), !.token = Len(b.bytes) + 1,
                          !.touched = Highest(@, Len(b.bytes) + 1)]
<1>0. /\ size \in Nat /\ End \in Nat /\ b.bytes \in Seq(Nat) /\ b.touched \in 0 .. End
  BY EndIs DEF IsBlock
<1>1. tok = 0
  BY Parameters DEF Token
<1>2. /\ new \in Seq(Nat) /\ Len(new) = size + 1 /\ new[size + 1] = tok
      /\ \A i \in 1 .. size : new[i] = b.bytes[i]
  <2>1. tok \in Nat
    BY <1>1
  <2> HIDE DEF tok
  <2>2. new \in Seq(Nat) /\ Len(new) = size + 1
    BY <2>1, <1>0
  <2>3. new[size + 1] = tok
    BY <2>1, <1>0
  <2>4. \A i \in 1 .. size : new[i] = b.bytes[i]
    BY <2>1, <1>0
  <2> QED
    BY <2>2, <2>3, <2>4
<1>3. touched \in 0 .. End
  <2> DEFINE old == b.touched
             s == size + 1
  <2>1. old \in 0 .. End /\ s \in 0 .. End
    BY <1>0
  <2> HIDE DEF old, s
  <2>2. Highest(old, s) \in 0 .. End
    BY <2>1 DEF Highest
  <2> QED
    BY <2>2 DEF old, s
<1>4. w = [bytes |-> new, token |-> size + 1, touched |-> touched, full |-> b.full]
  <2>1. w = [b EXCEPT !.bytes = new, !.token = size + 1, !.touched = touched]
    OBVIOUS
  <2> HIDE DEF w, new, touched, size
  <2> QED
    BY <2>1 DEF IsBlock
<1> HIDE DEF new, touched, w
<1>5. IsBlock(w, End) /\ w.full = b.full
  BY <1>0, <1>2, <1>3, <1>4 DEF IsBlock
<1>6. Parsed(input, new, size, p)
  <2> DEFINE s == b.bytes
  <2>1. Parsed(input, s, size, p) /\ \A i \in 1 .. size : new[i] = s[i]
    BY <1>2
  <2> HIDE DEF s, size
  <2> QED
    BY <2>1, <1>0, ParsedStays
<1>7. Len(Extension(0)) = 0 /\ Nibble(0) = 0
  BY ExtensionIs, NibbleIs, Parameters
<1>8. HeadAt(input, new, size, p, 0, 0)
  <2>1. new[size + 1] = Token(Nibble(0), 0)
    BY <1>2, <1>7
  <2>2. Spells(new, size + 1, Extension(0))
    BY <1>7 DEF Spells
  <2>3. \A i \in 1 .. 0 : new[size + 1 + Len(Extension(0)) + i] = input[p + i]
    OBVIOUS
  <2> QED
    BY <2>1, <2>2, <2>3 DEF HeadAt
<1>9. HeadEnd(size, 0) = size + 1
  BY <1>7, <1>0 DEF HeadEnd
<1>10. p - p = 0 /\ size + 1 \in 1 .. Len(new)
       /\ w.bytes = new /\ w.token = size + 1
  BY <1>0, <1>2, <1>4
<1> HIDE DEF size
<1>11. Opened(input, w, p, p)
  <2> DEFINE none == p - p
             before == w.token - 1
             bytes == w.bytes
  <2> HIDE DEF size
  <2>0. none = 0 /\ before = size /\ bytes = new /\ w.token \in 1 .. Len(bytes)
    <3>1. size \in Nat
      BY <1>0
    <3> QED
      BY <3>1, <1>10
  <2> HIDE DEF none, before, bytes
  <2>1. HeadAt(input, bytes, before, p, none, 0)
    BY <1>8, <2>0
  <2>2. Len(bytes) = HeadEnd(before, none)
    BY <1>2, <1>9, <2>0
  <2>3. Parsed(input, bytes, before, p)
    BY <1>6, <2>0
  <2>4. Len(bytes) + 2 <= Len(input)
    BY <1>0, <1>2, <2>0 DEF End, size
  <2> QED
    BY <2>0, <2>1, <2>2, <2>3, <2>4 DEF Opened, none, before, bytes
<1> QED
  BY <1>5, <1>11 DEF w, size

\* The literals at the end are written.
LEMMA WithLastEnds ==
  ASSUME IsPicture(input), NEW b, IsBlock(b, End), NEW from \in Nat, from <= End, ~b.full,
         from = 0 \/ from <= MatchLimit, Parsed(input, b.bytes, Len(b.bytes), from)
  PROVE  LET w == WithLast(b, from)
         IN  IsBlock(w, End) /\ (~w.full => Restorable(input, w.bytes, 0, 0))
<1> DEFINE n == End - from
           size == Len(b.bytes)
           e == Len(Extension(n))
           new == b.bytes \o <<Token(Nibble(n), 0)>> \o Extension(n) \o Bytes(from, n)
           touched == Highest(b.touched, Len(new))
           w == WithLast(b, from)
<1>0. n \in Nat /\ from + n <= End /\ size \in Nat /\ End \in Nat /\ e \in Nat
      /\ b.bytes \in Seq(Nat) /\ b.token \in Nat /\ b.touched \in 0 .. End
      /\ LastLiterals \in Nat
  <2>1. End \in Nat /\ n \in Nat /\ from + n <= End
    BY EndIs
  <2>2. e \in Nat
    BY <2>1, ExtensionIs
  <2>3. b.bytes \in Seq(Nat) /\ b.token \in Nat /\ b.touched \in 0 .. End /\ size \in Nat
    BY DEF IsBlock
  <2> QED
    BY <2>1, <2>2, <2>3, Parameters
<1>1. CASE ~RoomForLast(size, n)
  <2>1. w = [b EXCEPT !.full = TRUE]
    BY <1>1 DEF WithLast
  <2> HIDE DEF w
  <2>2. w.full = TRUE /\ w.bytes = b.bytes /\ w.token = b.token /\ w.touched = b.touched
        /\ w = [bytes |-> w.bytes, token |-> w.token, touched |-> w.touched, full |-> w.full]
    BY <2>1 DEF IsBlock
  <2> QED
    BY <2>2 DEF IsBlock, w
<1>2. CASE RoomForLast(size, n)
  <2>1. w = [b EXCEPT !.bytes = new, !.touched = touched]
    BY <1>2 DEF WithLast
  <2>2. /\ new \in Seq(Nat) /\ Len(new) = HeadEnd(size, n)
        /\ \A i \in 1 .. size : new[i] = b.bytes[i]
        /\ HeadAt(input, new, size, from, n, 0)
    <3> DEFINE bytes == b.bytes
               m == n
    <3>1. bytes \in Seq(Nat) /\ m \in Nat /\ from + m <= End
      BY <1>0
    <3> HIDE DEF bytes, m
    <3>2. LET s == bytes \o <<Token(Nibble(m), 0)>> \o Extension(m) \o Bytes(from, m)
          IN  /\ s \in Seq(Nat) /\ Len(s) = HeadEnd(Len(bytes), m)
              /\ \A i \in 1 .. Len(bytes) : s[i] = bytes[i]
              /\ HeadAt(input, s, Len(bytes), from, m, 0)
      BY <3>1, HeadWritten
    <3> QED
      BY <3>2 DEF bytes, m
  <2> HIDE DEF new
  <2>3. Len(new) = size + 1 + e + n
    BY <2>2 DEF HeadEnd
  <2>4. Len(new) \in 0 .. End
    <3> DEFINE c == (n + TopByte - RunMask) \div TopByte
    <3>1. c \in Nat /\ e <= c
      BY <1>0, ExtensionFits
    <3>2. size + n + 1 + c <= End
      BY <1>2 DEF RoomForLast
    <3> HIDE DEF c, n, e, size
    <3> QED
      BY <3>1, <3>2, <2>3, <1>0
  <2>5. touched \in 0 .. End
    <3> DEFINE old == b.touched
               s == Len(new)
    <3>1. old \in 0 .. End /\ s \in 0 .. End
      BY <1>0, <2>4
    <3> HIDE DEF old, s
    <3>2. Highest(old, s) \in 0 .. End
      BY <3>1 DEF Highest
    <3> QED
      BY <3>2 DEF old, s
  <2> HIDE DEF touched
  <2>6. w = [bytes |-> new, token |-> b.token, touched |-> touched, full |-> b.full]
    BY <2>1 DEF IsBlock
  <2> HIDE DEF w
  <2>7. IsBlock(w, End)
    BY <2>2, <2>5, <2>6, <1>0 DEF IsBlock
  <2>8. PICK M \in SUBSET (Nat \X Nat) :
         /\ <<0, 0>> \in M
         /\ \A x \in Nat, y \in Nat : <<x, y>> \in M =>
              \/ x = size /\ y = from
              \/ \E u \in 0 .. size, v \in 0 .. from :
                   <<u, v>> \in M /\ SequenceAt(input, b.bytes, x, y, u, v)
    BY DEF Parsed
  <2>9. Readable(input, new, M)
    <3> SUFFICES ASSUME NEW x \in Nat, NEW y \in Nat, <<x, y>> \in M
                 PROVE  \/ LastAt(input, new, x, y)
                        \/ \E u \in Nat, v \in Nat :
                             /\ <<u, v>> \in M /\ SequenceAt(input, new, x, y, u, v)
                             /\ u + 1 + LastLiterals <= Len(new)
      BY DEF Readable
    <3>1. CASE x = size /\ y = from
      <4>1. LastAt(input, new, size, from)
        BY <2>2, <1>0 DEF LastAt, End
      <4> QED
        BY <4>1, <3>1
    <3>2. CASE ~(x = size /\ y = from)
      <4>1. PICK u \in 0 .. size, v \in 0 .. from :
                   <<u, v>> \in M /\ SequenceAt(input, b.bytes, x, y, u, v)
        BY <2>8, <3>2
      <4>2. u \in Nat /\ v \in Nat /\ u <= size /\ v <= from
        BY <1>0
      <4>3. \A i \in 1 .. u : new[i] = b.bytes[i]
        BY <2>2, <4>2, <1>0
      <4>4. SequenceAt(input, new, x, y, u, v)
        <5> DEFINE s == b.bytes
        <5>1. SequenceAt(input, s, x, y, u, v) /\ \A i \in 1 .. u : new[i] = s[i]
          BY <4>1, <4>3
        <5> HIDE DEF s
        <5> QED
          BY <5>1, <4>2, SequenceStays
      <4>5. y < v
        <5> DEFINE s == new
        <5>1. SequenceAt(input, s, x, y, u, v)
          BY <4>4
        <5> HIDE DEF s
        <5> QED
          BY <5>1, SequenceLength
      <4>6. from # 0
        BY <4>2, <4>5
      <4>7. n >= LastLiterals
        BY <4>6, <1>0, EndIs
      <4>8. u + 1 + LastLiterals <= Len(new)
        <5> HIDE DEF n, e, size
        <5> QED
          BY <4>2, <4>7, <2>3, <1>0
      <4> QED
        BY <4>1, <4>2, <4>4, <4>8
    <3> QED
      BY <3>1, <3>2
  <2>10. Restorable(input, new, 0, 0)
    BY <2>8, <2>9 DEF Restorable
  <2> QED
    BY <2>6, <2>7, <2>10 DEF w
<1> QED
  BY <1>1, <1>2

-----------------------------------------------------------------------------
(* The decoder.                                                            *)

\* A length is read as it was written.
LEMMA ReadsLength ==
  ASSUME NEW n \in Nat, NEW at \in Nat, NEW limit \in Int, NEW early \in BOOLEAN,
         Spells(block.bytes, at, Extension(n)), Size \in Nat,
         at + Len(Extension(n)) <= Size, at + Len(Extension(n)) <= limit \/ n < RunMask
  PROVE  ReadLength(Nibble(n), at, limit, early)
           = [ok |-> TRUE, length |-> n, at |-> at + Len(Extension(n))]
<1> DEFINE e == Len(Extension(n))
<1>1. CASE n < RunMask
  <2>1. e = 0 /\ Nibble(n) = n /\ n # RunMask
    BY <1>1, ExtensionIs, NibbleIs, Parameters
  <2>2. at + e = at
    BY <2>1
  <2> QED
    BY <2>1, <2>2 DEF ReadLength
<1>2. CASE ~(n < RunMask)
  <2> DEFINE T == TopByte
             over == n - RunMask
             f == over \div T
             r == over % T
             ends == {k \in at .. Size - 1 : Byte(k) # T}
  <2>1. /\ n >= RunMask /\ RunMask \in Nat /\ T \in Nat \ {0}
    BY <1>2, Parameters
  <2>2. /\ f \in Nat /\ e = f + 1
        /\ \A i \in 1 .. f : Extension(n)[i] = T
        /\ Extension(n)[f + 1] = r
        /\ r \in 0 .. T - 1 /\ over = T * f + r
    BY <2>1, ExtensionIs
  <2> HIDE DEF f, r, e
  <2>3. Byte(at + f) = r
    <3>1. f + 1 \in 1 .. Len(Extension(n))
      BY <2>2 DEF e
    <3>2. block.bytes[at + (f + 1)] = Extension(n)[f + 1]
      BY <3>1 DEF Spells
    <3>3. at + (f + 1) = (at + f) + 1
      BY <2>2
    <3> QED
      BY <3>2, <3>3, <2>2 DEF Byte
  <2>4. ASSUME NEW k \in at .. at + f - 1 PROVE Byte(k) = T
    <3> DEFINE i == k - at + 1
    <3>1. i \in 1 .. Len(Extension(n)) /\ i \in 1 .. f /\ at + i = k + 1
      BY <2>2 DEF e
    <3> HIDE DEF i
    <3>2. block.bytes[at + i] = Extension(n)[i]
      BY <3>1 DEF Spells
    <3> QED
      BY <3>1, <3>2, <2>2 DEF Byte
  <2>5. at + f \in ends
    <3>1. at + f \in at .. Size - 1 /\ r # T
      BY <2>1, <2>2 DEF e
    <3> QED
      BY <3>1, <2>3
  <2>6. Min(ends) = at + f
    <3>1. ends \subseteq Int /\ at \in Int /\ \A x \in ends : at <= x
      OBVIOUS
    <3>2. Min(ends) \in ends /\ \A x \in ends : Min(ends) <= x
      <4> HIDE DEF ends
      <4> QED
        BY <2>5, <3>1, MinIn
    <3>3. Min(ends) \in at .. Size - 1 /\ Byte(Min(ends)) # T
      BY <3>2
    <3>4. Min(ends) <= at + f
      BY <3>2, <2>5
    <3> DEFINE k == Min(ends)
    <3> HIDE DEF ends, k
    <3> SUFFICES ASSUME k # at + f PROVE FALSE
      BY DEF k
    <3>5. k \in at .. at + f - 1
      BY <3>3, <3>4, <2>2 DEF k
    <3> QED
      BY <3>5, <3>3, <2>4 DEF k
  <2>7. ~(early /\ at >= limit) /\ at + f + 1 <= limit
    BY <1>2, <2>1, <2>2 DEF e
  <2>8. Nibble(n) = RunMask
    BY <2>1, NibbleIs
  <2>9. ReadLength(Nibble(n), at, limit, early)
          = [ok |-> Min(ends) + 1 <= limit, at |-> Min(ends) + 1,
             length |-> RunMask + (Min(ends) - at) * T + Byte(Min(ends))]
    <3>1. ends # {}
      BY <2>5
    <3> QED
      BY <2>7, <2>8, <3>1 DEF ReadLength
  <2> HIDE DEF ends
  <2>10. RunMask + (at + f - at) * T + r = n
    <3>1. at + f - at = f
      BY <2>2
    <3>2. T * f \in Nat /\ f * T = T * f
      BY <2>1, <2>2
    <3> DEFINE tf == T * f
    <3> HIDE DEF tf
    <3>3. n - RunMask = tf + r
      BY <2>2 DEF tf
    <3>4. RunMask + tf + r = n
      <4> HIDE DEF T
      <4>1. tf \in Nat /\ r \in Nat
        BY <2>1, <2>2, <3>2 DEF tf
      <4> QED
        BY <4>1, <3>3, <2>1
    <3> QED
      BY <3>1, <3>2, <3>4 DEF tf
  <2>11. at + f + 1 = at + e
    BY <2>2
  <2> HIDE DEF T
  <2>12. /\ Min(ends) + 1 <= limit /\ Min(ends) + 1 = at + e
         /\ RunMask + (Min(ends) - at) * T + Byte(Min(ends)) = n
    <3>1. Min(ends) + 1 <= limit /\ Min(ends) + 1 = at + e
      BY <2>6, <2>7, <2>11
    <3>2. Byte(Min(ends)) = r /\ Min(ends) - at = at + f - at
      <4>1. at + f - at = f /\ Min(ends) - at = f
        BY <2>2, <2>6
      <4> QED
        BY <2>3, <2>6, <4>1
    <3> QED
      BY <3>1, <3>2, <2>10
  <2> QED
    BY <2>9, <2>12 DEF e
<1> QED
  BY <1>1, <1>2

\* What was restored is the beginning of the input.
PrefixOf(in, bytes) ==
  /\ bytes \in Seq(0 .. TopByte) /\ Len(bytes) <= Len(in)
  /\ \A i \in 1 .. Len(bytes) : bytes[i] = in[i]

\* A match that reaches into its own copy repeats the offset it has.
LEMMA CopiesOn ==
  ASSUME IsPicture(input), NEW bytes, PrefixOf(input, bytes), NEW off \in 1 .. Len(bytes),
         NEW len \in Nat, Len(bytes) + len <= Len(input),
         Agree(input, Len(bytes), Len(bytes) - off, len)
  PROVE  PrefixOf(input, Copied(bytes, off, len))
         /\ Len(Copied(bytes, off, len)) = Len(bytes) + len
<1> DEFINE q == Len(bytes)
           from == q - off
           more == [i \in 1 .. len |-> bytes[from + ((i - 1) % off) + 1]]
           new == bytes \o more
           B == 0 .. TopByte
<1>1. q \in Nat /\ off \in Nat /\ off >= 1 /\ from \in Nat /\ bytes \in Seq(B)
      /\ Len(input) \in Nat /\ off \in Nat \ {0}
  BY DEF PrefixOf, IsPicture
<1>2. ASSUME NEW i \in Nat
      PROVE  i % off \in 0 .. off - 1 /\ (i < off => i % off = i)
             /\ (i >= off => i % off = (i - off) % off)
  <2>1. /\ i \div off \in Nat /\ i % off \in 0 .. off - 1
        /\ i = off * (i \div off) + (i % off)
    BY <1>1, Divided
  <2>2. ASSUME i < off PROVE i % off = i
    <3> DEFINE none == 0
    <3>1. i \in 0 .. off - 1 /\ i = off * none + i /\ none \in Int
      BY <2>2, <1>1
    <3> HIDE DEF none
    <3> QED
      BY <3>1, <1>1, OneQuotient
  <2>3. ASSUME i >= off PROVE i % off = (i - off) % off
    <3> DEFINE c == i - off
               d == c \div off
               r == c % off
    <3>1. c \in Nat
      BY <2>3, <1>1
    <3> HIDE DEF c
    <3>2. d \in Nat /\ r \in 0 .. off - 1 /\ c = off * d + r
      BY <3>1, <1>1, Divided
    <3> HIDE DEF d, r
    <3>3. off * (d + 1) = off * d + off /\ off * d \in Nat
      BY <3>2, <1>1
    <3>4. i = c + off
      BY <1>1 DEF c
    <3>5. i = off * (d + 1) + r /\ d + 1 \in Int
      BY <3>2, <3>3, <3>4, <1>1
    <3>6. i % off = r
      BY <3>2, <3>5, <1>1, OneQuotient
    <3> QED
      BY <3>6 DEF r, c
  <2> QED
    BY <2>1, <2>2, <2>3
<1>3. \A i \in 0 .. len : \A j \in 1 .. i : input[q + j] = input[from + ((j - 1) % off) + 1]
  <2> DEFINE T == {i \in 0 .. len : \A j \in 1 .. i :
                     input[q + j] = input[from + ((j - 1) % off) + 1]}
  <2>1. 0 \in T
    OBVIOUS
  <2>2. \A i \in 1 .. len : i - 1 \in T => i \in T
    <3> SUFFICES ASSUME NEW i \in 1 .. len, i - 1 \in T PROVE i \in T
      OBVIOUS
    <3>1. input[q + i] = input[from + ((i - 1) % off) + 1]
      <4>1. input[q + i] = input[from + i]
        BY DEF Agree
      <4>2. CASE i <= off
        <5>1. (i - 1) % off = i - 1
          <6> DEFINE m == i - 1
          <6>1. m \in Nat /\ m < off
            BY <4>2, <1>1
          <6> HIDE DEF m
          <6>2. m % off = m
            BY <6>1, <1>2
          <6> QED
            BY <6>2 DEF m
        <5>2. from + (i - 1) + 1 = from + i
          BY <1>1
        <5> QED
          BY <4>1, <5>1, <5>2
      <4>3. CASE i > off
        <5> DEFINE j == i - off
        <5>1. j \in 1 .. i - 1 /\ from + i = q + j /\ j - 1 = (i - 1) - off
          BY <4>3, <1>1
        <5>2. input[q + j] = input[from + ((j - 1) % off) + 1]
          BY <5>1
        <5>3. i - 1 \in Nat /\ i - 1 >= off
          BY <4>3, <1>1
        <5>4. (i - 1) % off = ((i - 1) - off) % off
          BY <5>3, <1>2
        <5> HIDE DEF j
        <5>5. (i - 1) % off = (j - 1) % off
          BY <5>1, <5>4
        <5> QED
          BY <4>1, <5>1, <5>2, <5>5
      <4> QED
        BY <4>2, <4>3, <1>1
    <3>2. \A j \in 1 .. i : j # i => j \in 1 .. i - 1
      OBVIOUS
    <3>3. \A j \in 1 .. i : input[q + j] = input[from + ((j - 1) % off) + 1]
      BY <3>1, <3>2
    <3>4. i \in 0 .. len
      OBVIOUS
    <3> QED
      BY <3>3, <3>4
  <2> HIDE DEF T
  <2>3. \A i \in 0 .. len : i \in T
    BY <2>1, <2>2, UpTo
  <2> QED
    BY <2>3 DEF T
<1>4. \A i \in 1 .. len : more[i] = input[q + i]
  <2> TAKE i \in 1 .. len
  <2>1. input[q + i] = input[from + ((i - 1) % off) + 1]
    <3>1. len \in 0 .. len
      OBVIOUS
    <3> QED
      BY <3>1, <1>3
  <2> DEFINE k == from + ((i - 1) % off) + 1
  <2>2. k \in 1 .. q
    <3> DEFINE m == i - 1
    <3>1. m \in Nat
      OBVIOUS
    <3> HIDE DEF m
    <3>2. m % off \in 0 .. off - 1
      BY <3>1, <1>2
    <3> DEFINE r == m % off
    <3> HIDE DEF r
    <3>3. from + r + 1 \in 1 .. q
      BY <3>2, <1>1 DEF r
    <3> QED
      BY <3>3 DEF r, m
  <2>3. more[i] = bytes[k]
    OBVIOUS
  <2> HIDE DEF k, more
  <2>4. bytes[k] = input[k]
    BY <2>2 DEF PrefixOf
  <2> QED
    BY <2>1, <2>3, <2>4 DEF k
<1>5. \A i \in 1 .. len : input[q + i] \in B
  <2> TAKE i \in 1 .. len
  <2>1. q + i \in 1 .. Len(input) /\ input \in Seq(B)
    BY <1>1 DEF IsPicture
  <2> HIDE DEF B
  <2> QED
    BY <2>1
<1>6. more \in Seq(B) /\ Len(more) = len
  <2>1. more = [i \in 1 .. len |-> more[i]]
    OBVIOUS
  <2> HIDE DEF more, B
  <2>2. more \in [1 .. len -> B]
    BY <1>4, <1>5, <2>1
  <2> QED
    BY <2>2, PlainSequence
<1> HIDE DEF more, B
<1>7. new \in Seq(B) /\ Len(new) = q + len
  BY <1>1, <1>6, TwoParts
<1>8. \A i \in 1 .. q : new[i] = bytes[i]
  BY <1>1, <1>6, TwoParts
<1>9. \A i \in 1 .. len : new[q + i] = more[i]
  <2> TAKE i \in 1 .. len
  <2>1. i \in 1 .. Len(more)
    BY <1>6
  <2> QED
    BY <2>1, <1>1, <1>6, SecondPart
<1> HIDE DEF new
<1>10. \A i \in 1 .. Len(new) : new[i] = input[i]
  <2> TAKE i \in 1 .. Len(new)
  <2>1. CASE i <= q
    BY <2>1, <1>8, <1>1 DEF PrefixOf
  <2>2. CASE i > q
    <3>1. i - q \in 1 .. len /\ q + (i - q) = i
      BY <2>2, <1>1, <1>7
    <3>2. new[q + (i - q)] = input[q + (i - q)]
      BY <3>1, <1>4, <1>9
    <3> QED
      BY <3>1, <3>2
  <2> QED
    BY <2>1, <2>2, <1>1, <1>7
<1>11. Copied(bytes, off, len) = new
  BY DEF Copied, new, more
<1>12. PrefixOf(input, new)
  BY <1>1, <1>7, <1>10 DEF PrefixOf, B
<1> QED
  BY <1>7, <1>11, <1>12

\* A token, the number of literals and the literals are read as they were written.
LEMMA ReadsHead ==
  ASSUME IsPicture(input), block.bytes \in Seq(Nat), NEW at \in Nat, NEW n \in Nat,
         NEW c \in 0 .. RunMask, NEW done, PrefixOf(input, done),
         HeadAt(input, block.bytes, at, Len(done), n, c), HeadEnd(at, n) <= Size,
         Len(done) + n <= Len(input)
  PROVE  LET token == Byte(at)
             literals == ReadLength(token \div (RunMask + 1), at + 1, Size - RunMask, TRUE)
             behind == literals.at + literals.length
             bytes == done \o SubSeq(block.bytes, literals.at + 1, behind)
         IN  /\ token % (RunMask + 1) = c /\ literals.ok /\ literals.length = n
             /\ behind = HeadEnd(at, n)
             /\ PrefixOf(input, bytes) /\ Len(bytes) = Len(done) + n
<1> DEFINE p == Len(done)
           e == Len(Extension(n))
           token == Byte(at)
           base == RunMask + 1
           literals == ReadLength(token \div (RunMask + 1), at + 1, Size - RunMask, TRUE)
           behind == literals.at + literals.length
           B == 0 .. TopByte
<1>1. e \in Nat /\ RunMask \in Nat \ {0} /\ Size \in Nat /\ base \in Nat \ {0}
      /\ HeadEnd(at, n) = at + 1 + e + n
  <2>1. e \in Nat
    BY ExtensionIs
  <2>2. Size \in Nat
    BY DEF Size
  <2>3. RunMask \in Nat \ {0} /\ base \in Nat \ {0}
    BY Parameters
  <2> QED
    BY <2>1, <2>2, <2>3 DEF HeadEnd
<1>2. token = Nibble(n) * base + c /\ Nibble(n) \in Nat
  BY NibbleIs DEF HeadAt, Byte, Token
<1>3. token \div base = Nibble(n) /\ token % base = c
  <2> DEFINE x == Nibble(n)
  <2>1. x \in Nat /\ c \in Nat /\ c \in 0 .. base - 1 /\ x \in Int
    BY <1>1, <1>2
  <2>2. base * x \in Nat /\ x * base = base * x
    BY <1>1, <2>1
  <2> HIDE DEF token, base, x
  <2>3. token = base * x + c /\ token \in Nat
    BY <1>2, <2>1, <2>2 DEF x
  <2>4. token \div base = x /\ token % base = c
    BY <1>1, <2>1, <2>3, OneQuotient
  <2> QED
    BY <2>4 DEF x
<1>4. literals = [ok |-> TRUE, length |-> n, at |-> at + 1 + e]
  <2> DEFINE start == at + 1
             limit == Size - RunMask
             early == TRUE
  <2>1. start \in Nat /\ limit \in Int /\ early \in BOOLEAN
    BY <1>1
  <2>2. Spells(block.bytes, start, Extension(n))
    BY DEF HeadAt
  <2>3. start + e <= Size
    BY <1>1
  <2>4. start + e <= limit \/ n < RunMask
    BY <1>1
  <2> HIDE DEF start, limit, early
  <2>5. ReadLength(Nibble(n), start, limit, early)
          = [ok |-> TRUE, length |-> n, at |-> start + Len(Extension(n))]
    BY <2>1, <2>2, <2>3, <2>4, <1>1, ReadsLength
  <2>6. literals = ReadLength(Nibble(n), start, limit, early)
    BY <1>3 DEF base, start, limit, early
  <2> HIDE DEF literals
  <2> QED
    BY <2>5, <2>6 DEF start
<1> HIDE DEF literals, token
<1>5. literals.at = at + 1 + e /\ literals.length = n /\ literals.ok
      /\ behind = HeadEnd(at, n)
  <2>1. literals.at = at + 1 + e /\ literals.length = n /\ literals.ok
    BY <1>4
  <2> QED
    BY <2>1, <1>1
<1> DEFINE from == at + 1 + e
           more == SubSeq(block.bytes, literals.at + 1, behind)
           bytes == done \o more
<1>6. more = SubSeq(block.bytes, from + 1, from + n)
  BY <1>1, <1>5
<1> HIDE DEF more, behind
<1>7. \A i \in 1 .. n : block.bytes[from + i] = input[p + i]
  BY DEF HeadAt
<1>8. p \in Nat /\ Len(input) \in Nat /\ done \in Seq(B)
  BY DEF PrefixOf, IsPicture
<1>9. \A i \in 1 .. n : input[p + i] \in B
  <2> TAKE i \in 1 .. n
  <2>1. p + i \in 1 .. Len(input) /\ input \in Seq(B)
    BY <1>8 DEF IsPicture
  <2> HIDE DEF B, p
  <2> QED
    BY <2>1
<1>10. more \in Seq(B) /\ Len(more) = n /\ \A i \in 1 .. n : more[i] = input[p + i]
  <2> DEFINE s == block.bytes
             f1 == from + 1
             t1 == from + n
  <2>1. f1 \in Int /\ t1 \in Int /\ t1 - f1 + 1 = n /\ from \in Nat
    BY <1>1
  <2>2. \A i \in f1 .. t1 : s[i] \in B
    <3> TAKE i \in f1 .. t1
    <3>1. i - from \in 1 .. n /\ from + (i - from) = i
      BY <2>1
    <3>2. s[from + (i - from)] = input[p + (i - from)]
      BY <3>1, <1>7
    <3> QED
      BY <3>1, <3>2, <1>9
  <2>0. more = SubSeq(s, f1, t1)
    BY <1>6
  <2>3. \A i \in 1 .. n : f1 + i - 1 = from + i
    BY <2>1
  <2>4. IF f1 <= t1 THEN t1 - f1 + 1 = n ELSE n = 0
    BY <2>1
  <2> HIDE DEF s, f1, t1, B, from
  <2>5. SubSeq(s, f1, t1) \in Seq(B)
    BY <2>1, <2>2, SubSeqProperties
  <2>6. Len(SubSeq(s, f1, t1)) = IF f1 <= t1 THEN t1 - f1 + 1 ELSE 0
    BY <2>1, <2>2, SubSeqProperties
  <2>7. \A i \in 1 .. t1 - f1 + 1 : SubSeq(s, f1, t1)[i] = s[f1 + i - 1]
    BY <2>1, <2>2, SubSeqProperties
  <2>8. Len(more) = n
    BY <2>0, <2>4, <2>6
  <2>9. \A i \in 1 .. n : more[i] = input[p + i]
    <3> TAKE i \in 1 .. n
    <3>1. more[i] = s[from + i]
      <4>1. i \in 1 .. t1 - f1 + 1
        BY <2>1
      <4>2. more[i] = s[f1 + i - 1]
        BY <4>1, <2>7, <2>0
      <4> QED
        BY <4>2, <2>3
    <3> QED
      BY <3>1, <1>7 DEF s, from
  <2> QED
    BY <2>0, <2>5, <2>8, <2>9
<1>11. bytes \in Seq(B) /\ Len(bytes) = p + n
  <2> HIDE DEF B
  <2>1. bytes \in Seq(B)
    BY <1>8, <1>10, TwoParts
  <2>2. Len(bytes) = Len(done) + Len(more)
    BY <1>8, <1>10, TwoParts
  <2> QED
    BY <2>1, <2>2, <1>10
<1>12. \A i \in 1 .. p : bytes[i] = done[i]
  <2> HIDE DEF B
  <2> QED
    BY <1>8, <1>10, TwoParts
<1>13. \A i \in 1 .. n : bytes[p + i] = more[i]
  <2> HIDE DEF B
  <2> TAKE i \in 1 .. n
  <2>1. i \in 1 .. Len(more)
    BY <1>10
  <2> QED
    BY <2>1, <1>8, <1>10, SecondPart
<1>14. \A i \in 1 .. Len(bytes) : bytes[i] = input[i]
  <2> HIDE DEF bytes
  <2> TAKE i \in 1 .. Len(bytes)
  <2>1. CASE i <= p
    BY <2>1, <1>12, <1>8 DEF PrefixOf
  <2>2. CASE i > p
    <3>1. i - p \in 1 .. n /\ p + (i - p) = i
      BY <2>2, <1>8, <1>11
    <3>2. bytes[p + (i - p)] = input[p + (i - p)]
      BY <3>1, <1>10, <1>13
    <3> QED
      BY <3>1, <3>2
  <2> QED
    BY <2>1, <2>2, <1>8, <1>11
<1>15. PrefixOf(input, bytes)
  <2> HIDE DEF bytes
  <2> QED
    BY <1>11, <1>14 DEF PrefixOf
<1> QED
  BY <1>3, <1>5, <1>11, <1>15 DEF token, literals, behind, more

\* Where the decoder is.
Restores(in, code, r) ==
  /\ r = [bytes |-> r.bytes, at |-> r.at] /\ r.at \in Nat
  /\ PrefixOf(in, r.bytes)
  /\ Restorable(in, code, r.at, Len(r.bytes))

\* The offset is read as it was written.
LEMMA ReadsOffset ==
  ASSUME NEW off \in 1 .. DistanceMax
  PROVE  (off % Bases) + Bases * ((off \div Bases) % Bases) = off
<1> DEFINE d == off \div Bases
           r == off % Bases
<1>1. Bases \in Nat \ {0} /\ off \in Nat /\ off <= Bases * Bases - 1
  BY Parameters
<1>2. d \in Nat /\ r \in 0 .. Bases - 1 /\ off = Bases * d + r
  BY <1>1, Divided
<1> HIDE DEF d, r
<1>3. d < Bases
  <2> SUFFICES ASSUME d >= Bases PROVE FALSE
    BY <1>1, <1>2
  <2>1. Bases * d >= Bases * Bases
    BY <1>1, <1>2
  <2>2. Bases * d \in Nat /\ Bases * Bases \in Nat
    BY <1>1, <1>2
  <2> QED
    BY <2>1, <2>2, <1>1, <1>2
<1>4. d % Bases = d
  <2> DEFINE none == 0
  <2>1. d \in 0 .. Bases - 1 /\ d = Bases * none + d /\ none \in Int
    BY <1>1, <1>2, <1>3
  <2> HIDE DEF none
  <2> QED
    BY <2>1, <1>1, <1>2, OneQuotient
<1>5. r + Bases * d = off
  <2>1. Bases * d \in Nat
    BY <1>1, <1>2
  <2> QED
    BY <2>1, <1>1, <1>2
<1> QED
  BY <1>4, <1>5 DEF d, r

\* The decoder takes what follows, and knows more of the input or all of it.
LEMMA DecodeStep ==
  ASSUME IsPicture(input), block.bytes \in Seq(Nat),
         Restores(input, block.bytes, restored), DecodeSequence
  PROVE  \/ coder' = "decoded" /\ restored'.bytes = input
         \/ coder' = "decoding" /\ Restores(input, block.bytes, restored')
<1> DEFINE at == restored.at
           done == restored.bytes
           p == Len(done)
           token == Byte(at)
           literals == ReadLength(token \div (RunMask + 1), at + 1, Size - RunMask, TRUE)
           behind == literals.at + literals.length
           bytes == done \o SubSeq(block.bytes, literals.at + 1, behind)
           last == \/ p + literals.length > End - MFLimit
                   \/ behind > Size - (2 + 1 + LastLiterals)
           offset == Byte(behind) + Bases * Byte(behind + 1)
           length == ReadLength(token % (RunMask + 1), behind + 2, Size - LastLiterals + 1, FALSE)
           m == length.length + MinMatch
           good == IF last THEN literals.ok /\ behind = Size /\ Len(bytes) <= End
                   ELSE /\ literals.ok /\ length.ok
                        /\ offset \in 1 .. Len(bytes)
                        /\ Len(bytes) + m <= End - LastLiterals
<1>1. /\ coder' = IF ~good THEN "refused" ELSE IF last THEN "decoded" ELSE "decoding"
      /\ restored' = IF ~good THEN restored
                     ELSE IF last THEN [bytes |-> bytes, at |-> behind]
                     ELSE [bytes |-> Copied(bytes, offset, m), at |-> length.at]
  BY DEF DecodeSequence
<1>2. PICK M \in SUBSET (Nat \X Nat) : <<at, p>> \in M /\ Readable(input, block.bytes, M)
  BY DEF Restores, Restorable
<1>3. /\ at \in Nat /\ p \in Nat /\ PrefixOf(input, done) /\ p <= Len(input)
      /\ Len(input) = End /\ End \in Nat /\ Size \in Nat /\ Len(block.bytes) = Size
  <2>1. at \in Nat /\ PrefixOf(input, done)
    BY DEF Restores
  <2>2. p \in Nat /\ p <= Len(input)
    BY <2>1 DEF PrefixOf
  <2> QED
    BY <2>1, <2>2, EndIs DEF End, Size
<1> HIDE DEF good, last, offset, length, bytes, behind, literals, token, at, done, p
<1>4. CASE LastAt(input, block.bytes, at, p)
  <2> DEFINE n == End - p
  <2>1. n \in Nat /\ p + n = End /\ HeadAt(input, block.bytes, at, p, n, 0)
        /\ Size = HeadEnd(at, n)
    BY <1>3, <1>4 DEF LastAt
  <2>2. /\ literals.ok /\ literals.length = n /\ behind = HeadEnd(at, n)
        /\ PrefixOf(input, bytes) /\ Len(bytes) = p + n
    <3> DEFINE c == 0
    <3>1. c \in 0 .. RunMask /\ HeadAt(input, block.bytes, at, Len(done), n, c)
          /\ HeadEnd(at, n) <= Size /\ Len(done) + n <= Len(input)
      BY <2>1, <1>3, Parameters DEF p
    <3> HIDE DEF c, n
    <3> QED
      BY <3>1, <2>1, <1>3, ReadsHead DEF token, literals, behind, bytes, p
  <2> HIDE DEF n
  <2>3. last
    <3>1. p + literals.length = End
      BY <2>1, <2>2
    <3> QED
      BY <3>1, <1>3, Parameters DEF last
  <2>4. good
    BY <2>1, <2>2, <2>3, <1>3 DEF good
  <2>5. coder' = "decoded" /\ restored' = [bytes |-> bytes, at |-> behind]
    BY <1>1, <2>3, <2>4
  <2>6. bytes = input
    <3> DEFINE B == 0 .. TopByte
    <3>1. bytes \in Seq(B) /\ input \in Seq(B) /\ Len(bytes) = Len(input)
          /\ \A i \in 1 .. Len(bytes) : bytes[i] = input[i]
      BY <2>1, <2>2, <1>3 DEF PrefixOf, IsPicture
    <3> HIDE DEF B
    <3> QED
      BY <3>1, SeqEqual
  <2> QED
    BY <2>5, <2>6
<1>5. CASE ~LastAt(input, block.bytes, at, p)
  <2>1. PICK b \in Nat, q \in Nat :
               /\ <<b, q>> \in M /\ SequenceAt(input, block.bytes, at, p, b, q)
               /\ b + 1 + LastLiterals <= Size
    BY <1>2, <1>3, <1>5 DEF Readable
  <2>2. PICK n \in Nat, code \in Nat, off \in 1 .. DistanceMax :
               SequenceOf(input, block.bytes, at, p, b, q, n, code, off)
    BY <2>1 DEF SequenceAt
  <2> DEFINE h == HeadEnd(at, n)
             e == Len(Extension(code))
             f == Len(Extension(n))
  <2>3. /\ HeadAt(input, block.bytes, at, p, n, Nibble(code))
        /\ TailAt(block.bytes, h, off, code)
        /\ b = h + 2 + e /\ q = p + n + MinMatch + code
        /\ off <= p + n /\ p + n <= Len(input) - MFLimit
        /\ q <= Len(input) - LastLiterals
        /\ Agree(input, p + n, p + n - off, MinMatch + code)
    BY <2>2 DEF SequenceOf
  <2>4. e \in Nat /\ f \in Nat /\ h \in Nat /\ h = at + 1 + f + n
    <3>1. e \in Nat /\ f \in Nat
      BY ExtensionIs
    <3>2. h = at + 1 + f + n
      BY DEF HeadEnd
    <3> HIDE DEF e, f, h
    <3> QED
      BY <3>1, <3>2, <1>3
  <2> HIDE DEF h, e, f
  <2>5. /\ token % (RunMask + 1) = Nibble(code)
        /\ literals.ok /\ literals.length = n /\ behind = h
        /\ PrefixOf(input, bytes) /\ Len(bytes) = p + n
    <3> DEFINE c == Nibble(code)
    <3>1. c \in 0 .. RunMask /\ HeadAt(input, block.bytes, at, Len(done), n, c)
      BY <2>3, NibbleIs DEF p
    <3>2. HeadEnd(at, n) <= Size
      BY <2>1, <2>3, <2>4, <1>3, Parameters DEF h
    <3>3. Len(done) + n <= Len(input)
      BY <2>3, <1>3, Parameters DEF p
    <3> HIDE DEF c
    <3> QED
      <4> DEFINE t == Byte(at)
                 l == ReadLength(t \div (RunMask + 1), at + 1, Size - RunMask, TRUE)
                 u == l.at + l.length
                 v == done \o SubSeq(block.bytes, l.at + 1, u)
      <4>1. /\ t % (RunMask + 1) = c /\ l.ok /\ l.length = n
            /\ u = HeadEnd(at, n)
            /\ PrefixOf(input, v) /\ Len(v) = Len(done) + n
        <5>1. /\ at \in Nat /\ PrefixOf(input, done) /\ n \in Nat /\ c \in 0 .. RunMask
              /\ HeadAt(input, block.bytes, at, Len(done), n, c)
              /\ HeadEnd(at, n) <= Size /\ Len(done) + n <= Len(input)
          BY <3>1, <3>2, <3>3, <1>3
        <5> QED
          BY <5>1, ReadsHead
      <4>2. t = token /\ l = literals /\ u = behind /\ v = bytes
        BY DEF token, literals, behind, bytes
      <4> HIDE DEF t, l, u, v
      <4> QED
        BY <4>1, <4>2 DEF h, p, c
  <2>6. ~last
    <3>1. ~(p + literals.length > End - MFLimit)
      BY <2>3, <2>5, <1>3, Parameters
    <3>2. ~(behind > Size - (2 + 1 + LastLiterals))
      BY <2>1, <2>3, <2>4, <2>5, <1>3, Parameters
    <3> QED
      BY <3>1, <3>2 DEF last
  <2>7. offset = off
    <3>1. Byte(h) = off % Bases /\ Byte(h + 1) = (off \div Bases) % Bases
      <4>1. block.bytes[h + 1] = off % Bases /\ block.bytes[h + 2] = (off \div Bases) % Bases
        BY <2>3 DEF TailAt
      <4>2. h + 1 + 1 = h + 2
        BY <2>4
      <4> QED
        BY <4>1, <4>2 DEF Byte
    <3> QED
      BY <3>1, <2>5, ReadsOffset DEF offset
  <2>8. length = [ok |-> TRUE, length |-> code, at |-> b]
    <3> DEFINE start == h + 2
               limit == Size - LastLiterals + 1
               early == FALSE
    <3>1. start \in Nat /\ limit \in Int /\ early \in BOOLEAN
      BY <2>4, <1>3, Parameters
    <3>2. Spells(block.bytes, start, Extension(code))
      BY <2>3 DEF TailAt
    <3>3. start + e <= Size /\ start + e <= limit
      BY <2>1, <2>3, <2>4, <1>3, Parameters
    <3>4. length = ReadLength(Nibble(code), start, limit, early)
      BY <2>5 DEF length
    <3>6. start + e = b
      BY <2>3
    <3> HIDE DEF start, limit, early
    <3>5. ReadLength(Nibble(code), start, limit, early)
            = [ok |-> TRUE, length |-> code, at |-> start + Len(Extension(code))]
      BY <3>1, <3>2, <3>3, <1>3, ReadsLength DEF e
    <3> QED
      BY <3>4, <3>5, <3>6 DEF e
  <2> HIDE DEF m
  <2>9. m = code + MinMatch /\ length.ok /\ length.at = b
    BY <2>8 DEF m
  <2>10. /\ MinMatch \in Nat /\ m \in Nat /\ MinMatch + code = m /\ q = p + n + m
         /\ off \in 1 .. Len(bytes) /\ Len(bytes) + m <= End - LastLiterals
    <3>1. MinMatch \in Nat /\ off \in Nat /\ off >= 1
      BY Parameters
    <3>2. m \in Nat /\ MinMatch + code = m /\ q = p + n + m
      BY <3>1, <2>3, <2>9, <1>3
    <3>3. off \in 1 .. Len(bytes)
      BY <3>1, <2>3, <2>5, <1>3
    <3>4. Len(bytes) + m <= End - LastLiterals
      BY <3>2, <2>3, <2>5, <1>3
    <3> QED
      BY <3>1, <3>2, <3>3, <3>4
  <2>11. good
    BY <2>5, <2>6, <2>7, <2>9, <2>10 DEF good
  <2> DEFINE new == Copied(bytes, offset, m)
  <2>12. coder' = "decoding" /\ restored' = [bytes |-> new, at |-> b]
    BY <1>1, <2>6, <2>9, <2>11
  <2>13. PrefixOf(input, new) /\ Len(new) = q
    <3>1. Agree(input, Len(bytes), Len(bytes) - off, m)
      <4>1. p + n - off = Len(bytes) - off
        BY <2>5, <2>10, <1>3
      <4> QED
        BY <4>1, <2>3, <2>5, <2>10
    <3>2. Len(bytes) + m <= Len(input)
      BY <2>10, <2>5, <1>3, Parameters
    <3>3. PrefixOf(input, Copied(bytes, off, m))
      BY <3>1, <3>2, <2>5, <2>10, CopiesOn
    <3>4. Len(Copied(bytes, off, m)) = Len(bytes) + m
      BY <3>1, <3>2, <2>5, <2>10, CopiesOn
    <3> QED
      BY <3>3, <3>4, <2>5, <2>7, <2>10
  <2> HIDE DEF new
  <2> DEFINE r == [bytes |-> new, at |-> b]
  <2>14. Restores(input, block.bytes, r)
    <3>1. r.bytes = new /\ r.at = b
      OBVIOUS
    <3> HIDE DEF r
    <3>2. Restorable(input, block.bytes, b, q)
      BY <1>2, <2>1 DEF Restorable
    <3> QED
      BY <3>1, <3>2, <2>13 DEF Restores, r
  <2> QED
    BY <2>12, <2>14
<1> QED
  BY <1>4, <1>5

-----------------------------------------------------------------------------
(* The invariant.                                                          *)

\* The buckets of the hash table.
Indexes == 0 .. Buckets - 1

\* The hash table before a picture.
NoTable == [h \in Indexes |-> 0]

\* The place a probe is about, and what the table knows.
ProbeHolds(in, ahead, from, places) ==
  /\ ahead.at \in Nat /\ 1 <= ahead.at /\ ahead.at <= Len(in) - MFLimit + 1
  /\ from <= ahead.at
  /\ ahead.step \in Nat \ {0} /\ ahead.tries \in Nat /\ ahead.tries >= SkipTrigger
  /\ \A h \in Indexes : places[h] < ahead.at

\* The match that was found, at least the n bytes of it that were compared.
MatchHolds(in, p, q, from, places) ==
  /\ p <= Len(in) - MFLimit /\ q < p /\ p - q <= DistanceMax /\ from <= p
  /\ \E n \in Nat : /\ n >= MinMatch /\ p + n <= Len(in) - LastLiterals /\ Agree(in, p, q, n)
                    /\ \A h \in Indexes : places[h] < p + n

\* A match was written, and there is room for another token.
AgainHolds(in, p, from, places, bytes) ==
  /\ from = p /\ p <= Len(in) - MFLimit /\ MinMatch <= p
  /\ \A h \in Indexes : places[h] < p
  /\ Len(bytes) + 1 + LastLiterals <= Len(in)

\* The matches that are weighed: the first starts close to the one it may replace...
SecondHolds(in, p, from, l) ==
  /\ l.start0 \in Nat
  /\ from <= l.start0 /\ l.start0 <= p /\ p <= l.start0 + 2
  /\ MatchAt(in, l.start0, l.m0) /\ MatchAt(in, p, l.m1)
  /\ l.m0.len <= l.m1.len

\* ... and the second ends far enough behind the start of the first to leave room for both.
ThirdHolds(in, p, from, l) ==
  /\ from <= p /\ l.start2 \in Nat
  /\ MatchAt(in, p, l.m1) /\ MatchAt(in, l.start2, l.m2)
  /\ p <= l.start2 /\ l.start2 <= p + l.m1.len + 1
  /\ p + l.m1.len <= Len(in) - MFLimit
  /\ MinMatch + 1 <= l.m2.len
  /\ 2 * MinMatch <= l.start2 - p + l.m2.len

\* Where the encoders and the decoder can be; the decoder never refuses.
Coders == {"idle", "first", "probe", "match", "again", "last", "chain", "second", "third",
           "written", "failed", "decoding", "decoded"}

\* Between two sequences.
Between == {"first", "probe", "again", "last", "chain", "second", "third"}

\* The types the proof needs.
Types ==
  /\ coder \in Coders
  /\ lz4Frames \in 1 .. 6
  /\ input = <<>> \/ input \in Pictures
  /\ IsPicture(input)
  /\ ip \in 0 .. Len(input) /\ anchor \in 0 .. Len(input) /\ match \in 0 .. Len(input)
  /\ table \in [Indexes -> 0 .. Len(input)]
  /\ lazy = [start0 |-> lazy.start0, m0 |-> lazy.m0, m1 |-> lazy.m1,
             start2 |-> lazy.start2, m2 |-> lazy.m2]
  /\ forward = [at |-> forward.at, step |-> forward.step, tries |-> forward.tries]

\* Nothing is left of the picture before.
Resting ==
  /\ coder = "idle" => input = <<>>
  /\ coder \in {"idle", "first"} =>
       /\ ip = 0 /\ anchor = 0 /\ match = 0 /\ table = NoTable
       /\ block = NoBlock /\ restored = NotRestored

\* What is written stands for the input up to anchor, what is read is that input.
BlockSays ==
  /\ IsBlock(block, Len(input))
  /\ coder # "failed" => ~block.full
  /\ coder \in Between => Parsed(input, block.bytes, Len(block.bytes), anchor)
  /\ coder = "match" => Opened(input, block, anchor, ip)
  /\ coder = "written" => Restorable(input, block.bytes, 0, 0)
  /\ coder \in Between \cup {"match", "written"} => restored = NotRestored
  /\ coder = "decoding" => Restores(input, block.bytes, restored)
  /\ coder = "decoded" => restored.bytes = input

\* Where the encoders are, and what they have found.
Places ==
  /\ anchor = 0 \/ anchor <= Len(input) - LastLiterals
  /\ coder = "probe" => ProbeHolds(input, forward, anchor, table)
  /\ coder = "match" => MatchHolds(input, ip, match, anchor, table)
  /\ coder = "again" => AgainHolds(input, ip, anchor, table, block.bytes)
  /\ coder = "chain" => anchor <= ip
  /\ coder = "second" => SecondHolds(input, ip, anchor, lazy)
  /\ coder = "third" => ThirdHolds(input, ip, anchor, lazy)

BlockInv == Types /\ Resting /\ BlockSays /\ Places

-----------------------------------------------------------------------------
(* The steps.                                                              *)

\* A block without bytes stands for nothing.
LEMMA ParsedEmpty ==
  ASSUME NEW in, NEW bytes
  PROVE  Parsed(in, bytes, 0, 0)
<1> DEFINE M == {<<0, 0>>}
<1>1. M \in SUBSET (Nat \X Nat) /\ <<0, 0>> \in M
  OBVIOUS
<1>2. \A a \in Nat, p \in Nat : <<a, p>> \in M => a = 0 /\ p = 0
  OBVIOUS
<1> HIDE DEF M
<1> QED
  BY <1>1, <1>2 DEF Parsed

\* A hash is the index of a bucket.
LEMMA HashIs ==
  ASSUME IsPicture(input), NEW p \in Nat, p + MinMatch <= End
  PROVE  Hash(p) \in Indexes
<1> DEFINE Sum(f) == [i \in 0 .. MinMatch |-> IF i = 0 THEN 0 ELSE 2 * f[i - 1] + input[p + i]]
           sum == CHOOSE f : f = Sum(f)
           D == [x \in 0 .. MinMatch |-> Nat]
           step == [x \in 1 .. MinMatch |-> [s \in Nat |-> 2 * s + input[p + x]]]
<1>0. MinMatch \in Nat /\ Buckets \in Nat \ {0}
  BY Parameters
<1>1. \A x \in 1 .. MinMatch : input[p + x] \in Nat
  <2> TAKE x \in 1 .. MinMatch
  <2>1. p + x \in 1 .. End
    BY <1>0, EndIs
  <2>2. input[p + x] \in 0 .. TopByte
    BY <2>1, EndIs
  <2> QED
    BY <2>2
<1>2. \E f : f = Sum(f)
  <2>1. \A x \in 1 .. MinMatch : \A s \in D[x - 1] : step[x][s] \in D[x]
    <3> TAKE x \in 1 .. MinMatch
    <3> TAKE s \in D[x - 1]
    <3>1. x - 1 \in 0 .. MinMatch /\ x \in 0 .. MinMatch
      BY <1>0
    <3>2. s \in Nat
      BY <3>1
    <3>3. step[x][s] = 2 * s + input[p + x]
      BY <3>2
    <3>4. input[p + x] \in Nat
      BY <1>1
    <3> HIDE DEF step
    <3>5. step[x][s] \in Nat
      BY <3>2, <3>3, <3>4
    <3> QED
      BY <3>1, <3>5
  <2>2. 0 \in D[0]
    BY <1>0
  <2>3. DOMAIN step = 1 .. MinMatch
    OBVIOUS
  <2>4. PICK f : /\ f = [x \in 0 .. MinMatch |-> f[x]]
                 /\ f[0] = 0
                 /\ \A x \in 1 .. MinMatch : f[x] = step[x][f[x - 1]]
                 /\ \A x \in 0 .. MinMatch : f[x] \in D[x]
    <3> DEFINE n == MinMatch
               base == 0
    <3>1. n \in Nat /\ base \in D[0] /\ DOMAIN step = 1 .. n
          /\ \A x \in 1 .. n : \A s \in D[x - 1] : step[x][s] \in D[x]
      BY <1>0, <2>1, <2>2, <2>3
    <3> HIDE DEF D, step, n, base
    <3>2. \E f : /\ f = [x \in 0 .. n |-> f[x]]
                 /\ f[0] = base
                 /\ \A x \in 1 .. n : f[x] = step[x][f[x - 1]]
                 /\ \A x \in 0 .. n : f[x] \in D[x]
      BY <3>1, Recursion
    <3> QED
      BY <3>2 DEF n, base
  <2>5. \A x \in 1 .. MinMatch : step[x][f[x - 1]] = 2 * f[x - 1] + input[p + x]
    <3> TAKE x \in 1 .. MinMatch
    <3>1. x - 1 \in 0 .. MinMatch
      BY <1>0
    <3>2. f[x - 1] \in Nat
      BY <2>4, <3>1
    <3> QED
      BY <3>2
  <2> HIDE DEF step
  <2>6. \A x \in 0 .. MinMatch : f[x] = IF x = 0 THEN 0 ELSE 2 * f[x - 1] + input[p + x]
    <3> TAKE x \in 0 .. MinMatch
    <3>1. x # 0 => x \in 1 .. MinMatch
      BY <1>0
    <3> QED
      BY <2>4, <2>5, <3>1
  <2>7. f = Sum(f)
    <3>1. f = [x \in 0 .. MinMatch |-> f[x]]
      BY <2>4
    <3> QED
      BY <2>6, <3>1
  <2> QED
    BY <2>7
<1>3. sum = Sum(sum)
  BY <1>2
<1>4. Hash(p) = sum[MinMatch] % Buckets
  BY DEF Hash
<1> HIDE DEF sum
<1>5. sum[0] = 0
  BY <1>3, <1>0
<1>6. \A x \in 1 .. MinMatch : sum[x] = 2 * sum[x - 1] + input[p + x]
  <2> TAKE x \in 1 .. MinMatch
  <2>1. x \in 0 .. MinMatch /\ x # 0
    BY <1>0
  <2> QED
    BY <2>1, <1>3
<1>7. sum[MinMatch] \in Nat
  <2> DEFINE T == {x \in 0 .. MinMatch : sum[x] \in Nat}
  <2>1. 0 \in T
    BY <1>0, <1>5
  <2>2. \A x \in 1 .. MinMatch : x - 1 \in T => x \in T
    <3> SUFFICES ASSUME NEW x \in 1 .. MinMatch, x - 1 \in T PROVE x \in T
      OBVIOUS
    <3>1. sum[x - 1] \in Nat /\ input[p + x] \in Nat /\ x \in 0 .. MinMatch
      BY <1>0, <1>1
    <3>2. sum[x] \in Nat
      BY <3>1, <1>6
    <3> QED
      BY <3>1, <3>2
  <2> HIDE DEF T
  <2>3. \A x \in 0 .. MinMatch : x \in T
    BY <1>0, <2>1, <2>2, UpTo
  <2>4. MinMatch \in 0 .. MinMatch
    BY <1>0
  <2> QED
    BY <2>3, <2>4 DEF T
<1> DEFINE total == sum[MinMatch]
<1> HIDE DEF total
<1>8. total % Buckets \in 0 .. Buckets - 1
  <2>1. total \in Nat
    BY <1>7 DEF total
  <2> QED
    BY <2>1, <1>0, Divided
<1> QED
  BY <1>4, <1>8 DEF total, Indexes

\* What a table knows once it learned of a place.
LEMMA LearnedIs ==
  ASSUME IsPicture(input), NEW p \in Nat, p + MinMatch <= End,
         NEW places, places \in [Indexes -> 0 .. Len(input)]
  PROVE  /\ Learned(places, p) \in [Indexes -> 0 .. Len(input)]
         /\ \A h \in Indexes : Learned(places, p)[h] \in {p, places[h]}
<1>1. Hash(p) \in Indexes
  BY HashIs
<1>2. p \in 0 .. Len(input)
  BY Parameters, EndIs DEF End
<1>3. Learned(places, p) = [places EXCEPT ![Hash(p)] = p]
  BY DEF Learned
<1> DEFINE k == Hash(p)
           new == [places EXCEPT ![k] = p]
<1> HIDE DEF k
<1>4. new \in [Indexes -> 0 .. Len(input)]
  BY <1>1, <1>2 DEF k
<1>5. \A h \in Indexes : new[h] \in {p, places[h]}
  BY <1>1
<1> QED
  BY <1>3, <1>4, <1>5 DEF k

\* The invariant holds before the first picture.
LEMMA BlockStarts == BlockInit => BlockInv
<1> SUFFICES ASSUME BlockInit PROVE BlockInv
  OBVIOUS
<1>0. Codecs \subseteq 1 .. 6
  BY BlockAssumption
<1>1. Len(input) = 0 /\ input = <<>> /\ 0 \in 0 .. Len(input)
  BY DEF BlockInit
<1>2. Types
  <2>1. IsPicture(input)
    BY <1>1, EmptySeq DEF IsPicture
  <2>2. table \in [Indexes -> 0 .. Len(input)]
    BY <1>1 DEF BlockInit, Indexes
  <2> QED
    BY <1>0, <1>1, <2>1, <2>2 DEF Types, BlockInit, Coders, NoLazy, NoForward
<1>3. Resting
  BY <1>1 DEF Resting, BlockInit, NoTable, Indexes
<1>4. BlockSays
  <2>1. IsBlock(NoBlock, 0)
    BY EmptySeq DEF IsBlock, NoBlock
  <2> QED
    BY <1>1, <2>1 DEF BlockSays, BlockInit, NoBlock, Between
<1>5. Places
  BY DEF Places, BlockInit
<1> QED
  BY <1>2, <1>3, <1>4, <1>5 DEF BlockInv

\* CmdBlit hands a picture to an encoder, with nothing written of it.
LEMMA CompressBlockKeeps == BlockInv /\ CompressBlock => BlockInv'
<1> SUFFICES ASSUME BlockInv, CompressBlock PROVE BlockInv'
  OBVIOUS
<1>0. /\ coder = "idle" /\ ip = 0 /\ anchor = 0 /\ match = 0 /\ table = NoTable
      /\ block = NoBlock /\ restored = NotRestored
      /\ lz4Frames \in 1 .. 6
      /\ lazy = [start0 |-> lazy.start0, m0 |-> lazy.m0, m1 |-> lazy.m1,
                 start2 |-> lazy.start2, m2 |-> lazy.m2]
      /\ forward = [at |-> forward.at, step |-> forward.step, tries |-> forward.tries]
  BY DEF CompressBlock, BlockInv, Resting, Types
<1>1. /\ input' \in Pictures /\ coder' \in {"chain", "first"} /\ ip' = 0 /\ anchor' = 0
      /\ match' = 0 /\ table' = NoTable /\ block' = NoBlock /\ restored' = NotRestored
      /\ lz4Frames' = lz4Frames /\ lazy' = lazy /\ forward' = forward
  BY <1>0 DEF CompressBlock, StartStrong
<1>2. IsPicture(input')
  <2>1. Pictures \subseteq Seq(0 .. Bases - 1)
    BY BlockAssumption
  <2> QED
    BY <1>1, <2>1 DEF IsPicture, TopByte
<1>3. Len(input') \in Nat
  BY <1>2 DEF IsPicture
<1>4. Types'
  <2>1. NoTable \in [Indexes -> 0 .. Len(input')]
    BY <1>3 DEF NoTable
  <2>2. 0 \in 0 .. Len(input')
    BY <1>3
  <2> QED
    BY <1>0, <1>1, <1>2, <2>1, <2>2 DEF Types, Coders
<1>5. Resting'
  BY <1>1 DEF Resting
<1>6. BlockSays'
  <2>1. IsBlock(NoBlock, Len(input'))
    BY <1>3, EmptySeq DEF IsBlock, NoBlock
  <2>2. NoBlock.bytes = <<>> /\ NoBlock.full = FALSE /\ Len(<<>>) = 0
    BY DEF NoBlock
  <2>3. Parsed(input', NoBlock.bytes, Len(NoBlock.bytes), 0)
    BY <2>2, ParsedEmpty
  <2> QED
    BY <1>1, <2>1, <2>2, <2>3 DEF BlockSays, Between
<1>7. Places'
  BY <1>1 DEF Places
<1> QED
  BY <1>4, <1>5, <1>6, <1>7 DEF BlockInv

\* The strong encoder starts anew, and how far the buffer was written stays known.
LEMMA AdaptBlockKeeps == BlockInv /\ AdaptBlock => BlockInv'
<1> SUFFICES ASSUME BlockInv, AdaptBlock PROVE BlockInv'
  OBVIOUS
<1>1. /\ coder = "written" /\ lz4Frames \in {5, 6} /\ coder' = "chain" /\ ip' = 0 /\ anchor' = 0
      /\ lz4Frames' = lz4Frames - 2 /\ block' = [NoBlock EXCEPT !.touched = block.touched]
      /\ input' = input /\ table' = table /\ forward' = forward /\ match' = match
      /\ lazy' = lazy /\ restored' = restored
  BY DEF AdaptBlock, Adapts, StartStrong
<1>2. Types /\ Resting /\ BlockSays /\ Places
  BY DEF BlockInv
<1>3. Len(input) \in Nat
  BY <1>2 DEF Types, IsPicture
<1>4. Types'
  BY <1>1, <1>2, <1>3 DEF Types, Coders
<1>5. Resting'
  BY <1>1 DEF Resting
<1>6. BlockSays'
  <2>1. /\ block'.bytes = <<>> /\ block'.token = 0 /\ block'.full = FALSE
        /\ block'.touched = block.touched
        /\ block' = [bytes |-> block'.bytes, token |-> block'.token,
                     touched |-> block'.touched, full |-> block'.full]
    BY <1>1 DEF NoBlock
  <2>2. IsBlock(block', Len(input))
    <3>1. <<>> \in Seq(Nat)
      BY EmptySeq
    <3>2. block.touched \in 0 .. Len(input) /\ 0 \in Nat /\ FALSE \in BOOLEAN
      BY <1>2 DEF IsBlock, BlockSays
    <3> DEFINE new == block'
    <3>3. /\ new.bytes = <<>> /\ new.token = 0 /\ new.full = FALSE
          /\ new.touched \in 0 .. Len(input)
          /\ new = [bytes |-> new.bytes, token |-> new.token, touched |-> new.touched,
                    full |-> new.full]
      BY <2>1, <3>2
    <3> HIDE DEF new
    <3>4. IsBlock(new, Len(input))
      BY <3>1, <3>2, <3>3 DEF IsBlock
    <3> QED
      BY <3>4 DEF new
  <2>3. Parsed(input, block'.bytes, Len(block'.bytes), 0)
    <3>1. Len(<<>>) = 0
      OBVIOUS
    <3> QED
      BY <2>1, <3>1, ParsedEmpty
  <2>4. restored = NotRestored
    BY <1>1, <1>2 DEF BlockSays
  <2> QED
    BY <1>1, <2>1, <2>2, <2>3, <2>4 DEF BlockSays, Between
<1>7. Places'
  BY <1>1 DEF Places
<1> QED
  BY <1>4, <1>5, <1>6, <1>7 DEF BlockInv

\* The receiver starts at the first byte of a block that can be restored.
LEMMA SendBlockKeeps == BlockInv /\ SendBlock => BlockInv'
<1> SUFFICES ASSUME BlockInv, SendBlock PROVE BlockInv'
  OBVIOUS
<1>1. /\ coder = "written" /\ coder' = "decoding" /\ lz4Frames' = lz4Frames
      /\ input' = input /\ table' = table /\ forward' = forward /\ match' = match
      /\ lazy' = lazy /\ restored' = restored /\ ip' = ip /\ anchor' = anchor
      /\ block' = block
  BY DEF SendBlock, Steps
<1>2. Types /\ Resting /\ BlockSays /\ Places
  BY DEF BlockInv
<1>3. Types'
  BY <1>1, <1>2 DEF Types, Coders
<1>4. Resting'
  BY <1>1 DEF Resting
<1>5. BlockSays'
  <2>1. restored = NotRestored /\ Restorable(input, block.bytes, 0, 0)
    BY <1>1, <1>2 DEF BlockSays
  <2>2. PrefixOf(input, <<>>)
    BY <1>2, EmptySeq DEF Types, IsPicture, PrefixOf
  <2>3. Restores(input, block.bytes, NotRestored)
    <3>1. NotRestored.bytes = <<>> /\ NotRestored.at = 0 /\ Len(<<>>) = 0
          /\ NotRestored = [bytes |-> NotRestored.bytes, at |-> NotRestored.at]
      BY DEF NotRestored
    <3> QED
      BY <3>1, <2>1, <2>2 DEF Restores
  <2> QED
    BY <1>1, <1>2, <2>1, <2>3 DEF BlockSays, Between
<1>6. Places'
  BY <1>1, <1>2 DEF Places
<1> QED
  BY <1>3, <1>4, <1>5, <1>6 DEF BlockInv

\* The next picture finds nothing of the one before.
LEMMA NextBlockKeeps == BlockInv /\ NextBlock => BlockInv'
<1> SUFFICES ASSUME BlockInv, NextBlock PROVE BlockInv'
  OBVIOUS
<1>1. /\ coder' = "idle" /\ lz4Frames' = lz4Frames
      /\ input' = <<>> /\ table' = NoTable /\ forward' = NoForward /\ match' = 0
      /\ lazy' = NoLazy /\ restored' = NotRestored /\ ip' = 0 /\ anchor' = 0
      /\ block' = NoBlock
  BY DEF NextBlock, NoTable, Indexes
<1>2. lz4Frames \in 1 .. 6
  BY DEF BlockInv, Types
<1>3. Types'
  <2>1. IsPicture(<<>>) /\ Len(<<>>) = 0
    BY EmptySeq DEF IsPicture
  <2>2. NoTable \in [Indexes -> 0 .. 0] /\ 0 \in 0 .. 0
    BY DEF NoTable
  <2> QED
    BY <1>1, <1>2, <2>1, <2>2 DEF Types, Coders, NoLazy, NoForward
<1>4. Resting'
  BY <1>1 DEF Resting
<1>5. BlockSays'
  <2>1. IsBlock(NoBlock, 0) /\ NoBlock.full = FALSE /\ Len(<<>>) = 0
    BY EmptySeq DEF IsBlock, NoBlock
  <2> QED
    BY <1>1, <2>1 DEF BlockSays, Between
<1>6. Places'
  BY <1>1 DEF Places
<1> QED
  BY <1>3, <1>4, <1>5, <1>6 DEF BlockInv

\* A sequence is decoded, and the receiver has more of the picture or all of it.
LEMMA DecodeSequenceKeeps == BlockInv /\ DecodeSequence => BlockInv'
<1> SUFFICES ASSUME BlockInv, DecodeSequence PROVE BlockInv'
  OBVIOUS
<1>1. /\ coder = "decoding" /\ lz4Frames' = lz4Frames
      /\ input' = input /\ table' = table /\ forward' = forward /\ match' = match
      /\ lazy' = lazy /\ ip' = ip /\ anchor' = anchor /\ block' = block
  BY DEF DecodeSequence
<1>2. Types /\ Resting /\ BlockSays /\ Places
  BY DEF BlockInv
<1>3. \/ coder' = "decoded" /\ restored'.bytes = input
      \/ coder' = "decoding" /\ Restores(input, block.bytes, restored')
  <2>1. Restores(input, block.bytes, restored)
    BY <1>1, <1>2 DEF BlockSays
  <2>2. IsPicture(input) /\ block.bytes \in Seq(Nat)
    BY <1>2 DEF Types, BlockSays, IsBlock
  <2> QED
    BY <2>1, <2>2, DecodeStep
<1>4. Types'
  BY <1>1, <1>2, <1>3 DEF Types, Coders
<1>5. Resting'
  BY <1>3 DEF Resting
<1>6. BlockSays'
  <2>1. IsBlock(block, Len(input)) /\ ~block.full
    BY <1>1, <1>2 DEF BlockSays
  <2> QED
    BY <1>1, <1>3, <2>1 DEF BlockSays, Between
<1>7. Places'
  BY <1>1, <1>2, <1>3 DEF Places
<1> QED
  BY <1>4, <1>5, <1>6, <1>7 DEF BlockInv

\* Both encoders end with literals.
LEMMA WriteLastKeeps == BlockInv /\ WriteLast => BlockInv'
<1> SUFFICES ASSUME BlockInv, WriteLast PROVE BlockInv'
  OBVIOUS
<1> DEFINE w == WithLast(block, anchor)
<1>1. /\ coder = "last" /\ block' = w /\ lz4Frames' = lz4Frames
      /\ coder' = IF w.full THEN "failed" ELSE "written"
      /\ input' = input /\ table' = table /\ forward' = forward /\ match' = match
      /\ lazy' = lazy /\ ip' = ip /\ anchor' = anchor /\ restored' = restored
  BY DEF WriteLast, Write
<1>2. Types /\ Resting /\ BlockSays /\ Places
  BY DEF BlockInv
<1>3. IsBlock(w, End) /\ (~w.full => Restorable(input, w.bytes, 0, 0))
  <2>1. /\ IsPicture(input) /\ IsBlock(block, End) /\ anchor \in Nat /\ anchor <= End
        /\ ~block.full /\ Parsed(input, block.bytes, Len(block.bytes), anchor)
    BY <1>1, <1>2 DEF Types, BlockSays, Between, End, IsPicture
  <2>2. anchor = 0 \/ anchor <= MatchLimit
    BY <1>2 DEF Places, MatchLimit, End
  <2> QED
    BY <2>1, <2>2, WithLastEnds
<1> HIDE DEF w
<1>4. Types'
  BY <1>1, <1>2 DEF Types, Coders
<1>5. Resting'
  BY <1>1 DEF Resting
<1>6. BlockSays'
  <2>1. restored = NotRestored
    BY <1>1, <1>2 DEF BlockSays, Between
  <2> QED
    BY <1>1, <1>3, <2>1 DEF BlockSays, Between, End
<1>7. Places'
  BY <1>1, <1>2 DEF Places
<1> QED
  BY <1>4, <1>5, <1>6, <1>7 DEF BlockInv

\* The first byte is put into the table, or the picture is too short for a match.
LEMMA FirstByteKeeps == BlockInv /\ FirstByte => BlockInv'
<1> SUFFICES ASSUME BlockInv, FirstByte PROVE BlockInv'
  OBVIOUS
<1>1. /\ coder = "first" /\ lz4Frames' = lz4Frames /\ input' = input /\ match' = match
      /\ lazy' = lazy /\ anchor' = anchor /\ block' = block /\ restored' = restored
      /\ \/ coder' = "last" /\ ip' = ip /\ table' = table /\ forward' = forward
         \/ /\ coder' = "probe" /\ End >= MFLimit + 1
            /\ table' = Learned(table, 0) /\ ip' = 1
            /\ forward' = [NoForward EXCEPT !.at = 1]
  <2>1. /\ coder = "first" /\ lz4Frames' = lz4Frames /\ input' = input /\ match' = match
        /\ lazy' = lazy /\ anchor' = anchor /\ block' = block /\ restored' = restored
    BY DEF FirstByte, FastKeeps
  <2>2. CASE End < MFLimit + 1
    BY <2>1, <2>2 DEF FirstByte
  <2>3. CASE ~(End < MFLimit + 1)
    <3>1. End >= MFLimit + 1
      <4>1. IsPicture(input)
        BY DEF BlockInv, Types
      <4>2. End \in Nat /\ MFLimit \in Nat
        BY <4>1, EndIs, Parameters
      <4> QED
        BY <4>2, <2>3
    <3> QED
      BY <2>1, <2>3, <3>1 DEF FirstByte
  <2> QED
    BY <2>2, <2>3
<1>2. Types /\ Resting /\ BlockSays /\ Places /\ IsPicture(input)
  BY DEF BlockInv, Types
<1>3. /\ ip = 0 /\ anchor = 0 /\ match = 0 /\ table = NoTable /\ block = NoBlock
      /\ restored = NotRestored
  BY <1>1, <1>2 DEF Resting
<1>4. /\ End \in Nat /\ End = Len(input) /\ LastStart = End - MFLimit
      /\ MFLimit \in Nat /\ MinMatch \in Nat /\ LastLiterals \in Nat
      /\ MinMatch + LastLiterals <= MFLimit
  BY <1>2, EndIs, Parameters DEF End
<1>5. Parsed(input, NoBlock.bytes, Len(NoBlock.bytes), 0)
  <2>1. NoBlock.bytes = <<>> /\ Len(<<>>) = 0
    BY DEF NoBlock
  <2> QED
    BY <2>1, ParsedEmpty
<1>6. BlockSays'
  BY <1>1, <1>2, <1>3, <1>5 DEF BlockSays, Between
<1>7. Resting'
  BY <1>1 DEF Resting
<1>8. CASE coder' = "last"
  <2>1. Types'
    BY <1>1, <1>2, <1>8 DEF Types, Coders
  <2>2. Places'
    BY <1>1, <1>2, <1>8 DEF Places
  <2> QED
    BY <1>6, <1>7, <2>1, <2>2 DEF BlockInv
<1>9. CASE coder' = "probe"
  <2>1. /\ End >= MFLimit + 1 /\ table' = Learned(table, 0) /\ ip' = 1
        /\ forward' = [NoForward EXCEPT !.at = 1]
    BY <1>1, <1>9
  <2>2. forward' = [at |-> 1, step |-> 1, tries |-> SkipTrigger]
    BY <2>1 DEF NoForward
  <2>3. /\ table' \in [Indexes -> 0 .. Len(input)]
        /\ \A h \in Indexes : table'[h] \in {0, table[h]}
    <3> DEFINE zero == 0
    <3>1. zero \in Nat /\ zero + MinMatch <= End /\ table \in [Indexes -> 0 .. Len(input)]
      BY <1>2, <1>4, <2>1 DEF Types
    <3>2. table' = Learned(table, zero)
      BY <2>1
    <3> HIDE DEF zero
    <3>3. Learned(table, zero) \in [Indexes -> 0 .. Len(input)]
      BY <1>2, <3>1, LearnedIs
    <3>4. \A h \in Indexes : Learned(table, zero)[h] \in {zero, table[h]}
      BY <1>2, <3>1, LearnedIs
    <3> QED
      BY <3>2, <3>3, <3>4 DEF zero
  <2>4. Types'
    <3>1. ip' \in 0 .. Len(input')
      BY <1>1, <1>4, <2>1
    <3> QED
      BY <1>1, <1>2, <1>9, <2>2, <2>3, <3>1 DEF Types, Coders
  <2>5. \A h \in Indexes : table'[h] < 1
    BY <1>3, <2>3 DEF NoTable
  <2>6. ProbeHolds(input, forward', 0, table')
    <3>1. forward'.at = 1 /\ forward'.step = 1 /\ forward'.tries = SkipTrigger
      BY <2>2
    <3>2. 1 <= Len(input) - MFLimit + 1
      BY <1>4, <2>1
    <3>3. SkipTrigger \in Nat
      BY Parameters
    <3> QED
      BY <3>1, <3>2, <3>3, <2>5 DEF ProbeHolds
  <2>7. Places'
    BY <1>1, <1>3, <1>9, <2>6 DEF Places
  <2> QED
    BY <1>6, <1>7, <2>4, <2>7 DEF BlockInv
<1> QED
  BY <1>1, <1>8, <1>9

\* The fast encoder gives the search up, and the rest will be literals.
LEMMA ProbeEndsKeeps == BlockInv /\ ProbeEnds => BlockInv'
<1> SUFFICES ASSUME BlockInv, ProbeEnds PROVE BlockInv'
  OBVIOUS
<1>1. /\ coder = "probe" /\ coder' = "last" /\ lz4Frames' = lz4Frames /\ input' = input
      /\ match' = match /\ lazy' = lazy /\ anchor' = anchor /\ block' = block
      /\ restored' = restored /\ ip' = forward.at /\ table' = table /\ forward' = forward
  BY DEF ProbeEnds, FastKeeps, Steps
<1>2. Types /\ Resting /\ BlockSays /\ Places
  BY DEF BlockInv
<1>3. ip' \in 0 .. Len(input')
  <2>1. /\ forward.at \in Nat /\ 1 <= forward.at /\ forward.at <= Len(input) - MFLimit + 1
    BY <1>1, <1>2 DEF Places, ProbeHolds
  <2>2. IsPicture(input)
    BY <1>2 DEF Types
  <2>3. Len(input) \in Nat /\ MFLimit \in Nat \ {0}
    BY <2>2, Parameters DEF IsPicture
  <2>4. forward.at \in 0 .. Len(input)
    BY <2>1, <2>3
  <2> QED
    BY <2>4, <1>1
<1>4. Types'
  BY <1>1, <1>2, <1>3 DEF Types, Coders
<1>5. Resting'
  BY <1>1 DEF Resting
<1>6. BlockSays'
  BY <1>1, <1>2 DEF BlockSays, Between
<1>7. Places'
  BY <1>1, <1>2 DEF Places
<1> QED
  BY <1>4, <1>5, <1>6, <1>7 DEF BlockInv

\* What a probe is about.
LEMMA ProbeIs ==
  ASSUME Types, ProbeHolds(input, forward, anchor, table), Advanced.at <= LastStart + 1
  PROVE  /\ forward.at \in Nat /\ 1 <= forward.at /\ forward.at <= LastStart
         /\ Advanced.at \in Nat /\ forward.at < Advanced.at
         /\ Advanced.step \in Nat \ {0} /\ Advanced.tries \in Nat
         /\ Advanced.tries >= SkipTrigger
         /\ Candidate \in 0 .. End /\ Candidate < forward.at
         /\ Learned(table, forward.at) \in [Indexes -> 0 .. Len(input)]
         /\ \A h \in Indexes : Learned(table, forward.at)[h] < forward.at + 1
<1> DEFINE p == forward.at
           places == Learned(table, p)
<1>1. /\ End \in Nat /\ End = Len(input) /\ LastStart = End - MFLimit /\ LastStart \in Int
      /\ MFLimit \in Nat /\ MinMatch \in Nat /\ LastLiterals \in Nat
      /\ MinMatch + LastLiterals <= MFLimit /\ SkipTrigger \in Nat \ {0}
  BY EndIs, Parameters DEF End, Types
<1>2. /\ p \in Nat /\ 1 <= p /\ forward.step \in Nat \ {0} /\ forward.tries \in Nat
      /\ forward.tries >= SkipTrigger /\ \A h \in Indexes : table[h] < p
  BY DEF ProbeHolds
<1>3. /\ Advanced.at = p + forward.step /\ Advanced.step = forward.tries \div SkipTrigger
      /\ Advanced.tries = forward.tries + 1
  BY DEF Advanced
<1>4. Advanced.at \in Nat /\ p < Advanced.at /\ p <= LastStart /\ Advanced.tries \in Nat
      /\ Advanced.tries >= SkipTrigger
  BY <1>1, <1>2, <1>3
<1>5. Advanced.step \in Nat \ {0}
  <2> DEFINE t == forward.tries
             d == t \div SkipTrigger
             r == t % SkipTrigger
  <2>1. t \in Nat /\ t >= SkipTrigger
    BY <1>2
  <2> HIDE DEF t
  <2>2. d \in Nat /\ r \in 0 .. SkipTrigger - 1 /\ t = SkipTrigger * d + r
    BY <1>1, <2>1, Divided
  <2> HIDE DEF d, r
  <2>3. d # 0
    <3> SUFFICES ASSUME d = 0 PROVE FALSE
      OBVIOUS
    <3>1. SkipTrigger * d = 0
      BY <1>1
    <3> QED
      BY <3>1, <2>1, <2>2, <1>1
  <2> QED
    BY <1>3, <2>2, <2>3 DEF d, t
<1>6. p + MinMatch <= End
  BY <1>1, <1>2, <1>4
<1>7. Hash(p) \in Indexes
  <2> HIDE DEF p
  <2> QED
    BY <1>2, <1>6, HashIs DEF Types
<1>8. Candidate \in 0 .. End /\ Candidate < p
  BY <1>7, <1>2, <1>1 DEF Candidate, Types
<1>9. places \in [Indexes -> 0 .. Len(input)] /\ \A h \in Indexes : places[h] \in {p, table[h]}
  <2>0. IsPicture(input) /\ table \in [Indexes -> 0 .. Len(input)]
    BY DEF Types
  <2> HIDE DEF p
  <2>1. Learned(table, p) \in [Indexes -> 0 .. Len(input)]
    BY <2>0, <1>2, <1>6, LearnedIs
  <2>2. \A h \in Indexes : Learned(table, p)[h] \in {p, table[h]}
    BY <2>0, <1>2, <1>6, LearnedIs
  <2> QED
    BY <2>1, <2>2
<1>10. \A h \in Indexes : places[h] < p + 1
  <2> TAKE h \in Indexes
  <2>1. table[h] \in Int /\ table[h] < p
    BY <1>2 DEF Types
  <2>2. places[h] \in {p, table[h]}
    BY <1>9
  <2> HIDE DEF places, p
  <2> QED
    BY <2>1, <2>2, <1>2
<1> QED
  BY <1>2, <1>4, <1>5, <1>8, <1>9, <1>10

\* The search goes on at a later place, and the table knows earlier ones only.
LEMMA ProbeMissesKeeps == BlockInv /\ ProbeMisses => BlockInv'
<1> SUFFICES ASSUME BlockInv, ProbeMisses PROVE BlockInv'
  OBVIOUS
<1>1. /\ coder = "probe" /\ coder' = "probe" /\ lz4Frames' = lz4Frames /\ input' = input
      /\ match' = match /\ lazy' = lazy /\ anchor' = anchor /\ block' = block
      /\ restored' = restored /\ ip' = forward.at /\ table' = Learned(table, forward.at)
      /\ forward' = Advanced /\ Advanced.at <= LastStart + 1
  BY DEF ProbeMisses, FastKeeps, Steps
<1>2. Types /\ Resting /\ BlockSays /\ Places
  BY DEF BlockInv
<1>3. ProbeHolds(input, forward, anchor, table)
  BY <1>1, <1>2 DEF Places
<1>4. /\ forward.at \in Nat /\ 1 <= forward.at /\ forward.at <= LastStart
      /\ Advanced.at \in Nat /\ forward.at < Advanced.at
      /\ Advanced.step \in Nat \ {0} /\ Advanced.tries \in Nat
      /\ Advanced.tries >= SkipTrigger
      /\ table' \in [Indexes -> 0 .. Len(input)]
      /\ \A h \in Indexes : table'[h] < forward.at + 1
  BY <1>1, <1>2, <1>3, ProbeIs
<1>5. /\ End \in Nat /\ End = Len(input) /\ LastStart = End - MFLimit /\ MFLimit \in Nat
      /\ anchor \in Nat /\ anchor <= forward.at
  BY <1>2, <1>3, EndIs, Parameters DEF End, Types, ProbeHolds
<1>6. Types'
  <2>1. ip' \in 0 .. Len(input')
    BY <1>1, <1>4, <1>5
  <2>2. forward' = [at |-> forward'.at, step |-> forward'.step, tries |-> forward'.tries]
    BY <1>1 DEF Advanced
  <2> QED
    BY <1>1, <1>2, <1>4, <2>1, <2>2 DEF Types, Coders
<1>7. Resting'
  BY <1>1 DEF Resting
<1>8. BlockSays'
  BY <1>1, <1>2 DEF BlockSays, Between
<1>9. ProbeHolds(input, Advanced, anchor, table')
  <2> DEFINE a == Advanced
             p == forward.at
  <2>1. \A h \in Indexes : table'[h] < a.at
    <3> TAKE h \in Indexes
    <3>1. table'[h] \in Int /\ table'[h] < p + 1 /\ a.at \in Nat /\ p < a.at /\ p \in Nat
      BY <1>4
    <3> QED
      BY <3>1
  <2>2. a.at \in Nat /\ 1 <= a.at /\ a.at <= Len(input) - MFLimit + 1 /\ anchor <= a.at
    BY <1>1, <1>4, <1>5
  <2> QED
    BY <2>1, <2>2, <1>4 DEF ProbeHolds
<1>10. Places'
  BY <1>1, <1>2, <1>9 DEF Places
<1> QED
  BY <1>6, <1>7, <1>8, <1>10 DEF BlockInv

\* A match that is extended backwards.
LEMMA ExtendedBack ==
  ASSUME IsPicture(input), NEW p \in Nat, NEW q \in Nat, NEW low \in Nat, low <= p,
         p + MinMatch <= End, q + MinMatch <= End, SameStart(p, q)
  PROVE  LET back == CountBack(p, q, low)
         IN  Agree(input, p - back, q - back, back + MinMatch)
<1> DEFINE back == CountBack(p, q, low)
<1>1. /\ back \in Nat /\ back <= p /\ back <= q
      /\ \A i \in 0 .. back - 1 : input[p - i] = input[q - i]
  <2>1. back \in 0 .. p - low /\ back <= q
    BY CountsBack
  <2>2. \A i \in 0 .. back - 1 : input[p - i] = input[q - i]
    BY CountsBack
  <2> HIDE DEF back
  <2>3. back \in Nat /\ back <= p
    BY <2>1
  <2> QED
    BY <2>1, <2>2, <2>3
<1>2. Agree(input, p, q, MinMatch)
  BY SameBytes
<1>3. MinMatch \in Nat
  BY Parameters
<1> HIDE DEF back
<1>4. ASSUME NEW i \in 1 .. back + MinMatch
      PROVE  input[(p - back) + i] = input[(q - back) + i]
  <2>1. CASE i <= back
    <3>1. back - i \in 0 .. back - 1
      BY <2>1, <1>1
    <3>2. input[p - (back - i)] = input[q - (back - i)]
      BY <3>1, <1>1
    <3>3. p - (back - i) = (p - back) + i /\ q - (back - i) = (q - back) + i
      BY <1>1
    <3> QED
      BY <3>2, <3>3
  <2>2. CASE i > back
    <3>1. i - back \in 1 .. MinMatch
      BY <2>2, <1>1, <1>3
    <3>2. input[p + (i - back)] = input[q + (i - back)]
      BY <3>1, <1>2 DEF Agree
    <3>3. p + (i - back) = (p - back) + i /\ q + (i - back) = (q - back) + i
      BY <1>1
    <3> QED
      BY <3>2, <3>3
  <2> QED
    BY <2>1, <2>2, <1>1
<1>5. Agree(input, p - back, q - back, back + MinMatch)
  BY <1>4 DEF Agree
<1> QED
  BY <1>5 DEF back

\* A match is found and extended backwards, and its literals are written.
LEMMA ProbeHitsKeeps == BlockInv /\ ProbeHits => BlockInv'
<1> SUFFICES ASSUME BlockInv, ProbeHits PROVE BlockInv'
  OBVIOUS
<1> DEFINE p == forward.at
           c == Candidate
           back == CountBack(p, c, anchor)
           w == WithLiterals(block, anchor, p - back)
<1>1. /\ coder = "probe" /\ lz4Frames' = lz4Frames /\ input' = input /\ lazy' = lazy
      /\ anchor' = anchor /\ restored' = restored /\ forward' = forward
      /\ Advanced.at <= LastStart + 1 /\ ~TooFar(p, c) /\ SameStart(p, c)
      /\ table' = Learned(table, p) /\ ip' = p - back /\ match' = c - back
      /\ block' = w /\ coder' = IF w.full THEN "failed" ELSE "match"
  BY DEF ProbeHits, FastKeeps, Usable, Write
<1>2. Types /\ Resting /\ BlockSays /\ Places /\ IsPicture(input)
  BY DEF BlockInv, Types
<1>3. ProbeHolds(input, forward, anchor, table)
  BY <1>1, <1>2 DEF Places
<1>4. /\ p \in Nat /\ 1 <= p /\ p <= LastStart /\ c \in 0 .. End /\ c < p
      /\ table' \in [Indexes -> 0 .. Len(input)]
      /\ \A h \in Indexes : table'[h] < p + 1
  BY <1>1, <1>2, <1>3, ProbeIs
<1>5. /\ End \in Nat /\ End = Len(input) /\ LastStart = End - MFLimit /\ MFLimit \in Nat
      /\ MinMatch \in Nat /\ MinMatch >= 3 /\ LastLiterals \in Nat
      /\ MinMatch + LastLiterals <= MFLimit
      /\ DistanceMax \in Nat
  BY <1>2, EndIs, Parameters DEF End
<1>6. anchor \in Nat /\ anchor <= p
  BY <1>2, <1>3, <1>5 DEF Types, ProbeHolds
<1>7. p + MinMatch <= End /\ c + MinMatch <= End /\ c \in Nat
  BY <1>4, <1>5
<1>8. p <= c + DistanceMax
  BY <1>1, <1>4, <1>5 DEF TooFar
<1>9. back \in 0 .. p - anchor /\ back <= c
  <2> HIDE DEF p, c
  <2> QED
    BY <1>2, <1>4, <1>6, <1>7, CountsBack
<1>10. Agree(input, p - back, c - back, back + MinMatch)
  <2> HIDE DEF p, c
  <2> QED
    BY <1>1, <1>2, <1>4, <1>6, <1>7, ExtendedBack
<1> HIDE DEF back, p, c
<1>11. /\ p - back \in Nat /\ p - back <= LastStart /\ c - back < p - back
       /\ (p - back) - (c - back) <= DistanceMax /\ anchor <= p - back
       /\ back + MinMatch \in Nat /\ back + MinMatch >= MinMatch
       /\ (p - back) + (back + MinMatch) = p + MinMatch
       /\ p + MinMatch <= Len(input) - LastLiterals
       /\ c - back \in Nat /\ c - back <= Len(input) /\ p - back <= Len(input)
  BY <1>4, <1>5, <1>6, <1>7, <1>8, <1>9
<1>12. MatchHolds(input, ip', match', anchor, table')
  <2> DEFINE a == p - back
             b == c - back
             n == back + MinMatch
  <2>1. \A h \in Indexes : table'[h] < p + MinMatch
    <3> TAKE h \in Indexes
    <3>1. table'[h] \in Int /\ table'[h] < p + 1
      BY <1>4
    <3> QED
      BY <3>1, <1>4, <1>5
  <2>2. /\ a <= Len(input) - MFLimit /\ b < a /\ a - b <= DistanceMax /\ anchor <= a
        /\ n \in Nat /\ n >= MinMatch /\ a + n <= Len(input) - LastLiterals
        /\ Agree(input, a, b, n) /\ \A h \in Indexes : table'[h] < a + n
    BY <1>5, <1>10, <1>11, <2>1
  <2>3. ip' = a /\ match' = b
    BY <1>1
  <2> HIDE DEF a, b, n
  <2>4. MatchHolds(input, a, b, anchor, table')
    BY <2>2 DEF MatchHolds
  <2> QED
    BY <2>3, <2>4
<1>13. IsBlock(w, End) /\ (~w.full => Opened(input, w, anchor, p - back))
  <2>1. IsBlock(block, End) /\ ~block.full /\ Parsed(input, block.bytes, Len(block.bytes), anchor)
    BY <1>1, <1>2 DEF BlockSays, Between, End
  <2> DEFINE a == p - back
  <2>2. a \in Nat /\ anchor <= a /\ a <= End
    BY <1>5, <1>11
  <2> HIDE DEF a
  <2> QED
    BY <1>2, <1>6, <2>1, <2>2, WithLiteralsOpens DEF a
<1> HIDE DEF w
<1>14. Types'
  <2>1. ip' \in 0 .. Len(input') /\ match' \in 0 .. Len(input')
    BY <1>1, <1>5, <1>11
  <2> QED
    BY <1>1, <1>2, <1>4, <2>1 DEF Types, Coders
<1>15. Resting'
  BY <1>1 DEF Resting
<1>16. BlockSays'
  <2>1. restored = NotRestored
    BY <1>1, <1>2 DEF BlockSays, Between
  <2> QED
    BY <1>1, <1>13, <2>1 DEF BlockSays, Between, End
<1>17. Places'
  BY <1>1, <1>2, <1>12 DEF Places
<1> QED
  BY <1>14, <1>15, <1>16, <1>17 DEF BlockInv

\* The match is written, at least as long as was compared when it was found.
LEMMA WriteMatchKeeps == BlockInv /\ WriteMatch => BlockInv'
<1> SUFFICES ASSUME BlockInv, WriteMatch PROVE BlockInv'
  OBVIOUS
<1> DEFINE code == Count(ip + MinMatch, match + MinMatch, MatchLimit)
           off == ip - match
           w == WithMatch(TRUE, block, off, code)
           end == ip + MinMatch + code
<1>1. /\ coder = "match" /\ lz4Frames' = lz4Frames /\ input' = input /\ lazy' = lazy
      /\ restored' = restored /\ table' = table /\ forward' = forward /\ match' = match
      /\ ip' = end /\ anchor' = end /\ block' = w
      /\ coder' = IF w.full THEN "failed" ELSE IF end > LastStart THEN "last" ELSE "again"
  BY DEF WriteMatch, FastKeeps, Write
<1>2. Types /\ Resting /\ BlockSays /\ Places /\ IsPicture(input)
  BY DEF BlockInv, Types
<1>3. /\ End \in Nat /\ End = Len(input) /\ LastStart = End - MFLimit /\ MFLimit \in Nat
      /\ MatchLimit = End - LastLiterals
      /\ MinMatch \in Nat /\ MinMatch >= 3 /\ LastLiterals \in Nat
      /\ MinMatch + LastLiterals <= MFLimit
      /\ DistanceMax \in Nat /\ ip \in Nat /\ match \in Nat
  <2>1. /\ End \in Nat /\ End = Len(input) /\ LastStart = End - MFLimit
        /\ MatchLimit = End - LastLiterals
    BY <1>2, EndIs DEF End
  <2>2. ip \in 0 .. Len(input) /\ match \in 0 .. Len(input)
    BY <1>2 DEF Types
  <2>3. ip \in Nat /\ match \in Nat
    BY <2>1, <2>2
  <2> QED
    BY <2>1, <2>3, Parameters
<1>4. PICK n \in Nat : /\ n >= MinMatch /\ ip + n <= Len(input) - LastLiterals
                       /\ Agree(input, ip, match, n)
                       /\ \A h \in Indexes : table[h] < ip + n
  BY <1>1, <1>2 DEF Places, MatchHolds
<1>5. ip <= LastStart /\ match < ip /\ off <= DistanceMax /\ anchor <= ip
  BY <1>1, <1>2, <1>3 DEF Places, MatchHolds
<1>6. ip + MinMatch \in Nat /\ match + MinMatch \in Nat /\ MatchLimit \in Nat
      /\ ip + MinMatch <= MatchLimit
  BY <1>3, <1>4
<1>7. code \in 0 .. MatchLimit - (ip + MinMatch)
      /\ Agree(input, ip + MinMatch, match + MinMatch, code)
      /\ \A k \in 0 .. MatchLimit - (ip + MinMatch) :
           Agree(input, ip + MinMatch, match + MinMatch, k) => k <= code
  BY <1>2, <1>6, Counts
<1> HIDE DEF code
<1>8. n <= MinMatch + code
  <2>1. n - MinMatch \in 0 .. MatchLimit - (ip + MinMatch)
    BY <1>3, <1>4
  <2>2. Agree(input, ip + MinMatch, match + MinMatch, n - MinMatch)
    <3> SUFFICES ASSUME NEW i \in 1 .. n - MinMatch
                 PROVE  input[(ip + MinMatch) + i] = input[(match + MinMatch) + i]
      BY DEF Agree
    <3>1. MinMatch + i \in 1 .. n
      BY <1>3, <1>4
    <3>2. input[ip + (MinMatch + i)] = input[match + (MinMatch + i)]
      BY <3>1, <1>4 DEF Agree
    <3>3. /\ ip + (MinMatch + i) = (ip + MinMatch) + i
          /\ match + (MinMatch + i) = (match + MinMatch) + i
      BY <1>3
    <3> QED
      BY <3>2, <3>3
  <2>3. n - MinMatch <= code
    BY <1>7, <2>1, <2>2
  <2> QED
    BY <2>3, <1>3, <1>4, <1>7
<1>9. Agree(input, ip, match, MinMatch + code)
  <2> SUFFICES ASSUME NEW i \in 1 .. MinMatch + code
               PROVE  input[ip + i] = input[match + i]
    BY DEF Agree
  <2>1. CASE i <= MinMatch
    <3>1. i \in 1 .. n
      BY <2>1, <1>3, <1>4, <1>7
    <3> QED
      BY <3>1, <1>4 DEF Agree
  <2>2. CASE i > MinMatch
    <3>1. i - MinMatch \in 1 .. code
      BY <2>2, <1>3, <1>7
    <3>2. input[(ip + MinMatch) + (i - MinMatch)] = input[(match + MinMatch) + (i - MinMatch)]
      BY <3>1, <1>7 DEF Agree
    <3>3. (ip + MinMatch) + (i - MinMatch) = ip + i
          /\ (match + MinMatch) + (i - MinMatch) = match + i
      BY <1>3
    <3> QED
      BY <3>2, <3>3
  <2> QED
    BY <2>1, <2>2, <1>3
<1>10. /\ off \in 1 .. DistanceMax /\ ip - off = match /\ off <= ip
       /\ code \in Nat /\ ip + MinMatch + code <= MatchLimit
       /\ end \in Nat /\ end <= End - LastLiterals /\ MinMatch <= end /\ ip + n <= end
       /\ end <= Len(input)
  BY <1>3, <1>4, <1>5, <1>6, <1>7, <1>8
<1>11. IsBlock(block, End) /\ Opened(input, block, anchor, ip)
  BY <1>1, <1>2 DEF BlockSays, End
<1>12. /\ IsBlock(w, End)
       /\ ~w.full => /\ Parsed(input, w.bytes, Len(w.bytes), end)
                     /\ Len(w.bytes) + 1 + LastLiterals <= End
  <2> DEFINE fast == TRUE
  <2>1. fast \in BOOLEAN /\ Agree(input, ip, ip - off, MinMatch + code)
    BY <1>9, <1>10
  <2>2. fast
    OBVIOUS
  <2>3. w = WithMatch(fast, block, off, code)
    OBVIOUS
  <2> HIDE DEF fast, off, w
  <2>4. LET v == WithMatch(fast, block, off, code)
        IN  /\ IsBlock(v, End)
            /\ ~v.full => /\ Parsed(input, v.bytes, Len(v.bytes), ip + MinMatch + code)
                          /\ fast => Len(v.bytes) + 1 + LastLiterals <= End
    BY <1>2, <1>3, <1>5, <1>10, <1>11, <2>1, WithMatchCloses
  <2> QED
    BY <2>2, <2>3, <2>4
<1> HIDE DEF w
<1>13. Types'
  <2>1. ip' \in 0 .. Len(input') /\ anchor' \in 0 .. Len(input')
    BY <1>1, <1>3, <1>10
  <2> QED
    BY <1>1, <1>2, <2>1 DEF Types, Coders
<1>14. Resting'
  BY <1>1 DEF Resting
<1>15. BlockSays'
  <2>1. restored = NotRestored
    BY <1>1, <1>2 DEF BlockSays, Between
  <2> HIDE DEF end
  <2> QED
    BY <1>1, <1>12, <2>1 DEF BlockSays, Between, End
<1>16. coder' = "again" => AgainHolds(input, end, end, table, w.bytes)
  <2> SUFFICES ASSUME coder' = "again" PROVE AgainHolds(input, end, end, table, w.bytes)
    OBVIOUS
  <2>1. ~w.full /\ ~(end > LastStart)
    BY <1>1
  <2>2. \A h \in Indexes : table[h] < end
    <3> TAKE h \in Indexes
    <3>1. table[h] \in Int /\ table[h] < ip + n
      BY <1>2, <1>4 DEF Types
    <3> QED
      BY <3>1, <1>3, <1>4, <1>10
  <2>3. end <= Len(input) - MFLimit
    BY <2>1, <1>3, <1>10
  <2> HIDE DEF end
  <2> QED
    BY <2>1, <2>2, <2>3, <1>3, <1>10, <1>12 DEF AgainHolds
<1>17. Places'
  <2>1. anchor' <= Len(input') - LastLiterals
    BY <1>1, <1>3, <1>10
  <2> HIDE DEF end
  <2> QED
    BY <1>1, <2>1, <1>16 DEF Places
<1> QED
  BY <1>13, <1>14, <1>15, <1>17 DEF BlockInv

\* A match that starts at once opens a sequence, or the search begins anew.
LEMMA MatchAgainKeeps == BlockInv /\ MatchAgain => BlockInv'
<1> SUFFICES ASSUME BlockInv, MatchAgain PROVE BlockInv'
  OBVIOUS
<1> DEFINE before == ip - 2
           filled == Learned(table, before)
           c == filled[Hash(ip)]
           w == [block EXCEPT !.bytes = Append(@, Token(0, 0)),
                              !.token = Len(block.bytes) + 1,
                              !.touched = Highest(@, Len(block.bytes) + 1)]
<1>1. /\ coder = "again" /\ lz4Frames' = lz4Frames /\ input' = input /\ lazy' = lazy
      /\ restored' = restored /\ anchor' = anchor /\ table' = Learned(filled, ip)
      /\ \/ /\ ~TooFar(ip, c) /\ SameStart(ip, c) /\ coder' = "match" /\ match' = c
            /\ block' = w /\ ip' = ip /\ forward' = forward
         \/ /\ coder' = "probe" /\ ip' = ip + 1
            /\ forward' = [NoForward EXCEPT !.at = ip + 1]
            /\ match' = match /\ block' = block
  BY DEF MatchAgain, FastKeeps, Usable
<1>2. Types /\ Resting /\ BlockSays /\ Places /\ IsPicture(input)
  BY DEF BlockInv, Types
<1>3. /\ End \in Nat /\ End = Len(input) /\ LastStart = End - MFLimit /\ MFLimit \in Nat
      /\ MinMatch \in Nat /\ MinMatch >= 3 /\ LastLiterals \in Nat
      /\ MinMatch + LastLiterals <= MFLimit
      /\ DistanceMax \in Nat /\ ip \in Nat
      /\ table \in [Indexes -> 0 .. Len(input)]
  <2>1. End \in Nat /\ End = Len(input) /\ LastStart = End - MFLimit
    BY <1>2, EndIs DEF End
  <2>2. ip \in 0 .. Len(input) /\ table \in [Indexes -> 0 .. Len(input)]
    BY <1>2 DEF Types
  <2>3. ip \in Nat
    BY <2>1, <2>2
  <2> QED
    BY <2>1, <2>2, <2>3, Parameters
<1>4. /\ anchor = ip /\ ip <= LastStart /\ MinMatch <= ip
      /\ \A h \in Indexes : table[h] < ip
      /\ Len(block.bytes) + 1 + LastLiterals <= End
  BY <1>1, <1>2, <1>3 DEF Places, AgainHolds
<1>5. before \in Nat /\ before + MinMatch <= End /\ ip + MinMatch <= End /\ before < ip
  BY <1>3, <1>4
<1> HIDE DEF before
<1>6. filled \in [Indexes -> 0 .. Len(input)]
  BY <1>2, <1>3, <1>5, LearnedIs
<1>7. \A h \in Indexes : filled[h] \in {before, table[h]}
  BY <1>2, <1>3, <1>5, LearnedIs
<1> HIDE DEF filled
<1>8. \A h \in Indexes : filled[h] < ip
  BY <1>4, <1>5, <1>7
<1>9. table' \in [Indexes -> 0 .. Len(input)]
  BY <1>1, <1>2, <1>3, <1>5, <1>6, LearnedIs
<1>10. \A h \in Indexes : table'[h] \in {ip, filled[h]}
  BY <1>1, <1>2, <1>3, <1>5, <1>6, LearnedIs
<1>11. \A h \in Indexes : table'[h] < ip + 1
  <2> TAKE h \in Indexes
  <2>1. filled[h] \in Int /\ filled[h] < ip /\ table'[h] \in {ip, filled[h]}
    BY <1>6, <1>8, <1>10
  <2> QED
    BY <2>1, <1>3
<1>12. c \in 0 .. Len(input) /\ c < ip
  BY <1>2, <1>3, <1>5, <1>6, <1>8, HashIs
<1> HIDE DEF c
<1>13. Resting'
  BY <1>1 DEF Resting
<1>14. /\ restored = NotRestored /\ IsBlock(block, End) /\ ~block.full
       /\ Parsed(input, block.bytes, Len(block.bytes), ip)
  BY <1>1, <1>2, <1>4 DEF BlockSays, Between, End
<1>15. CASE coder' = "match"
  <2>1. /\ ~TooFar(ip, c) /\ SameStart(ip, c) /\ match' = c
        /\ block' = w /\ ip' = ip /\ forward' = forward
    BY <1>1, <1>15
  <2>2. Types'
    BY <1>1, <1>2, <1>9, <1>12, <1>15, <2>1 DEF Types, Coders
  <2>3. IsBlock(w, End) /\ Opened(input, w, ip, ip) /\ w.full = block.full
    <3>1. Len(block.bytes) \in Nat
      BY <1>14 DEF IsBlock
    <3>2. Len(block.bytes) + 3 <= End
      BY <3>1, <1>3, <1>4, Parameters
    <3> QED
      BY <1>2, <1>3, <1>14, <3>2, OpenedAtOnce
  <2> HIDE DEF w
  <2>4. BlockSays'
    BY <1>1, <1>4, <1>14, <1>15, <2>1, <2>3 DEF BlockSays, Between, End
  <2>5. MatchHolds(input, ip, c, ip, table')
    <3>1. c \in Nat /\ c + MinMatch <= End
      BY <1>3, <1>5, <1>12
    <3>2. Agree(input, ip, c, MinMatch)
      BY <1>2, <1>3, <1>5, <2>1, <3>1, SameBytes
    <3>3. \A h \in Indexes : table'[h] < ip + MinMatch
      <4> TAKE h \in Indexes
      <4>1. table'[h] \in Int /\ table'[h] < ip + 1
        BY <1>9, <1>11
      <4> QED
        BY <4>1, <1>3
    <3>4. ip - c <= DistanceMax
      BY <2>1, <3>1, <1>3 DEF TooFar
    <3>5. ip <= Len(input) - MFLimit /\ ip + MinMatch <= Len(input) - LastLiterals
          /\ MinMatch >= MinMatch /\ ip <= ip
      BY <1>3, <1>4
    <3> QED
      BY <1>3, <1>12, <3>2, <3>3, <3>4, <3>5 DEF MatchHolds
  <2>6. Places'
    BY <1>1, <1>2, <1>4, <1>15, <2>1, <2>5 DEF Places
  <2> QED
    BY <1>13, <2>2, <2>4, <2>6 DEF BlockInv
<1>16. CASE coder' = "probe"
  <2>1. /\ ip' = ip + 1 /\ forward' = [NoForward EXCEPT !.at = ip + 1]
        /\ match' = match /\ block' = block
    BY <1>1, <1>16
  <2>2. /\ forward' = [at |-> ip + 1, step |-> 1, tries |-> SkipTrigger]
        /\ forward'.at = ip + 1 /\ forward'.step = 1 /\ forward'.tries = SkipTrigger
    BY <2>1 DEF NoForward
  <2>3. ip + 1 \in 0 .. Len(input)
    BY <1>3, <1>5
  <2>4. Types'
    BY <1>1, <1>2, <1>9, <1>16, <2>1, <2>2, <2>3 DEF Types, Coders
  <2>5. BlockSays'
    BY <1>1, <1>2, <1>14, <1>16, <2>1 DEF BlockSays, Between, End
  <2>6. ProbeHolds(input, forward', anchor, table')
    <3>1. ip + 1 \in Nat /\ 1 <= ip + 1 /\ ip + 1 <= Len(input) - MFLimit + 1
          /\ anchor <= ip + 1
      BY <1>3, <1>4
    <3>2. SkipTrigger \in Nat /\ 1 \in Nat \ {0} /\ SkipTrigger >= SkipTrigger
      BY Parameters
    <3> DEFINE f == forward'
    <3>3. f.at = ip + 1 /\ f.step = 1 /\ f.tries = SkipTrigger
      BY <2>2
    <3> HIDE DEF f
    <3>4. ProbeHolds(input, f, anchor, table')
      BY <3>1, <3>2, <3>3, <1>11 DEF ProbeHolds
    <3> QED
      BY <3>4 DEF f
  <2>7. Places'
    BY <1>1, <1>2, <1>16, <2>1, <2>6 DEF Places
  <2> QED
    BY <1>13, <2>4, <2>5, <2>7 DEF BlockInv
<1> QED
  BY <1>1, <1>15, <1>16

\* A match that ends earlier is one.
LEMMA ShortMatch ==
  ASSUME NEW in, NEW p \in Nat, NEW m, MatchAt(in, p, m), NEW k \in Nat, MinMatch <= k,
         k <= m.len, Len(in) \in Nat
  PROVE  MatchAt(in, p, [m EXCEPT !.len = k])
<1> DEFINE s == [m EXCEPT !.len = k]
<1>1. /\ m = [len |-> m.len, off |-> m.off, back |-> m.back]
      /\ m.len \in Nat /\ m.off \in 1 .. DistanceMax /\ m.back \in Nat
      /\ m.off <= p
      /\ m.len >= MinMatch /\ p <= Len(in) - MFLimit /\ p + m.len <= Len(in) - LastLiterals
      /\ Agree(in, p, p - m.off, m.len)
  BY DEF MatchAt
<1>2. s = [len |-> k, off |-> m.off, back |-> m.back]
  BY <1>1
<1> HIDE DEF s
<1>3. p + k <= Len(in) - LastLiterals
  <2> DEFINE n == m.len
  <2>1. n \in Nat /\ k <= n /\ p + n <= Len(in) - LastLiterals /\ LastLiterals \in Nat
    BY <1>1, Parameters
  <2> HIDE DEF n
  <2> QED
    BY <2>1
<1>4. Agree(in, p, p - m.off, k)
  BY <1>1 DEF Agree
<1>5. MatchAt(in, p, s)
  BY <1>1, <1>2, <1>3, <1>4 DEF MatchAt
<1> QED
  BY <1>5 DEF s

\* A match that starts later is one.
LEMMA LaterMatch ==
  ASSUME NEW in, NEW p \in Nat, NEW m, MatchAt(in, p, m), NEW by \in Nat,
         by <= m.len - MinMatch, p + by <= Len(in) - MFLimit, Len(in) \in Nat
  PROVE  MatchAt(in, p + by, Later(m, by)) /\ Later(m, by).len = m.len - by
<1> DEFINE s == Later(m, by)
<1>1. /\ m = [len |-> m.len, off |-> m.off, back |-> m.back]
      /\ m.len \in Nat /\ m.off \in 1 .. DistanceMax /\ m.back \in Nat
      /\ m.off <= p
      /\ m.len >= MinMatch /\ p <= Len(in) - MFLimit /\ p + m.len <= Len(in) - LastLiterals
      /\ Agree(in, p, p - m.off, m.len)
  BY DEF MatchAt
<1>2. s = [len |-> m.len - by, off |-> m.off, back |-> m.back]
  <2>1. CASE by > 0
    <3>1. s = [m EXCEPT !.len = m.len - by]
      BY <2>1 DEF Later
    <3> QED
      BY <3>1, <1>1
  <2>2. CASE ~(by > 0)
    <3>1. s = m /\ m.len - by = m.len
      BY <2>2, <1>1 DEF Later
    <3> QED
      BY <3>1, <1>1
  <2> QED
    BY <2>1, <2>2
<1> HIDE DEF s
<1>3. s.len = m.len - by /\ s.off = m.off /\ s.back = m.back
  BY <1>2
<1>4. MinMatch \in Nat /\ MFLimit \in Nat /\ LastLiterals \in Nat /\ DistanceMax \in Nat
  BY Parameters
<1>5. /\ m.len - by \in Nat /\ m.len - by >= MinMatch
      /\ (p + by) + (m.len - by) = p + m.len /\ m.off <= p + by
  <2> DEFINE n == m.len
             o == m.off
  <2>1. n \in Nat /\ o \in Nat /\ o <= p /\ by <= n - MinMatch
    BY <1>1, <1>4
  <2> HIDE DEF n, o
  <2>2. /\ n - by \in Nat /\ n - by >= MinMatch
        /\ (p + by) + (n - by) = p + n /\ o <= p + by
    BY <2>1, <1>4
  <2> QED
    BY <2>2 DEF n, o
<1>6. Agree(in, p + by, (p + by) - m.off, m.len - by)
  <2> SUFFICES ASSUME NEW i \in 1 .. m.len - by
               PROVE  in[(p + by) + i] = in[((p + by) - m.off) + i]
    BY DEF Agree
  <2>1. by + i \in 1 .. m.len
    BY <1>1
  <2>2. in[p + (by + i)] = in[(p - m.off) + (by + i)]
    BY <2>1, <1>1 DEF Agree
  <2>3. p + (by + i) = (p + by) + i /\ (p - m.off) + (by + i) = ((p + by) - m.off) + i
    BY <1>1
  <2> QED
    BY <2>2, <2>3
<1>7. MatchAt(in, p + by, s)
  <2> DEFINE k == m.len - by
             q == p + by
  <2>1. /\ s = [len |-> s.len, off |-> s.off, back |-> s.back]
        /\ s.len = k /\ s.off = m.off /\ s.back = m.back
        /\ k \in Nat /\ k >= MinMatch /\ m.off <= q
        /\ q <= Len(in) - MFLimit /\ q + k <= Len(in) - LastLiterals
        /\ Agree(in, q, q - m.off, k)
    BY <1>1, <1>2, <1>3, <1>5, <1>6
  <2> HIDE DEF k, q
  <2>2. MatchAt(in, q, s)
    BY <1>1, <2>1 DEF MatchAt
  <2> QED
    BY <2>2 DEF q
<1> QED
  BY <1>3, <1>7 DEF s

\* How far the start of the second match is moved to leave the first the length it shall have.
ShiftOf(p, m1, start2, m2) ==
  IF start2 - p < OptimalLength THEN Highest(0, Preferred(p, m1, start2, m2) - (start2 - p))
  ELSE 0

\* Both matches keep MINMATCH bytes when the start of the second is moved.
LEMMA ShiftIs ==
  ASSUME NEW p \in Nat, NEW start2 \in Nat, p <= start2, NEW m1, NEW m2,
         m1.len \in Nat, m2.len \in Nat, MinMatch <= m1.len, MinMatch <= m2.len,
         2 * MinMatch <= start2 - p + m2.len
  PROVE  LET by == ShiftOf(p, m1, start2, m2)
             pref == Preferred(p, m1, start2, m2)
         IN  /\ by \in Nat /\ by <= m2.len - MinMatch
             /\ by > 0 => start2 + by <= p + m1.len
             /\ p + MinMatch <= start2 + by
             /\ pref \in Int /\ MinMatch <= pref /\ pref <= m1.len
             /\ start2 - p < OptimalLength =>
                  p + pref <= start2 + by /\ by = Highest(0, pref - (start2 - p))
<1> DEFINE by == ShiftOf(p, m1, start2, m2)
           pref == Preferred(p, m1, start2, m2)
           k == start2 - p + m2.len - MinMatch
           S == {m1.len, OptimalLength, k}
<1>1. MinMatch \in Nat /\ MinMatch >= 3 /\ RunMask \in Nat \ {0}
  BY Parameters
<1>2. OptimalLength \in Nat /\ MinMatch <= OptimalLength
  BY <1>1 DEF OptimalLength
<1>3. k \in Int /\ k = (start2 - p) + (m2.len - MinMatch) /\ MinMatch <= k
  BY <1>1
<1> HIDE DEF k
<1>4. S \subseteq Int /\ S # {} /\ \A x \in S : MinMatch <= x
  BY <1>2, <1>3
<1>5. pref = Min(S)
  BY DEF Preferred, k
<1> HIDE DEF pref
<1>6. Min(S) \in S /\ \A x \in S : Min(S) <= x
  <2> HIDE DEF S
  <2> QED
    <3>1. MinMatch \in Int
      BY <1>1
    <3> QED
      BY <3>1, <1>4, MinIn
<1>7. pref \in Int /\ MinMatch <= pref /\ pref <= m1.len /\ pref <= k
  <2>1. m1.len \in S /\ k \in S
    OBVIOUS
  <2> HIDE DEF S
  <2> QED
    BY <2>1, <1>4, <1>5, <1>6
<1>8. by = IF start2 - p < OptimalLength THEN Highest(0, pref - (start2 - p)) ELSE 0
  BY DEF ShiftOf, pref
<1> HIDE DEF by, S
<1>9. CASE start2 - p < OptimalLength
  <2>1. by = Highest(0, pref - (start2 - p))
    BY <1>8, <1>9
  <2>2. CASE pref - (start2 - p) > 0
    <3>1. by = pref - (start2 - p)
      BY <2>1, <2>2, <1>7 DEF Highest
    <3>2. /\ by \in Nat /\ by <= m2.len - MinMatch
          /\ start2 + by <= p + m1.len
          /\ p + MinMatch <= start2 + by
          /\ p + pref <= start2 + by
      BY <3>1, <2>2, <1>1, <1>3, <1>7
    <3> QED
      BY <3>2, <2>1, <1>7 DEF by, pref
  <2>3. CASE ~(pref - (start2 - p) > 0)
    <3>1. by = 0
      BY <2>1, <2>3, <1>7 DEF Highest
    <3>2. /\ by \in Nat /\ by <= m2.len - MinMatch /\ ~(by > 0)
          /\ p + MinMatch <= start2 + by
          /\ p + pref <= start2 + by
      BY <3>1, <2>3, <1>1, <1>7
    <3> QED
      BY <3>2, <2>1, <1>7 DEF by, pref
  <2> QED
    BY <2>2, <2>3
<1>10. CASE ~(start2 - p < OptimalLength)
  <2>1. by = 0
    BY <1>8, <1>10
  <2>2. /\ by \in Nat /\ by <= m2.len - MinMatch /\ ~(by > 0)
        /\ p + MinMatch <= start2 + by
    BY <2>1, <1>1, <1>2, <1>10
  <2> QED
    BY <2>2, <1>7, <1>10 DEF by, pref
<1> QED
  BY <1>9, <1>10

\* The block after a sequence was written, or after there was no room for it.
LEMMA WroteBlock ==
  ASSUME NEW w, NEW to \in Between, Write(w, to), IsPicture(input), input' = input,
         restored' = restored, restored = NotRestored, IsBlock(w, End),
         ~w.full => Parsed(input, w.bytes, Len(w.bytes), anchor')
  PROVE  BlockSays'
<1>1. block' = w /\ coder' = IF w.full THEN "failed" ELSE to
  BY DEF Write
<1>2. IsBlock(w, Len(input))
  BY DEF End
<1>3. CASE w.full
  BY <1>1, <1>2, <1>3 DEF BlockSays, Between
<1>4. CASE ~w.full
  <2>1. coder' = to /\ to \notin {"failed", "match", "written", "decoding", "decoded"}
    BY <1>1, <1>4 DEF Between
  <2> QED
    BY <1>1, <1>2, <1>4, <2>1 DEF BlockSays
<1> QED
  BY <1>3, <1>4

\* The strong encoder is too close to the end to search.
LEMMA ChainEndsKeeps == BlockInv /\ ChainEnds => BlockInv'
<1> SUFFICES ASSUME BlockInv, ChainEnds PROVE BlockInv'
  OBVIOUS
<1>1. /\ coder = "chain" /\ coder' = "last" /\ lz4Frames' = lz4Frames /\ input' = input
      /\ match' = match /\ lazy' = lazy /\ anchor' = anchor /\ block' = block
      /\ restored' = restored /\ ip' = ip /\ table' = table /\ forward' = forward
  BY DEF ChainEnds, LazyKeeps, Steps
<1>2. Types /\ Resting /\ BlockSays /\ Places
  BY DEF BlockInv
<1>3. Types'
  BY <1>1, <1>2 DEF Types, Coders
<1>4. Resting'
  BY <1>1 DEF Resting
<1>5. BlockSays'
  BY <1>1, <1>2 DEF BlockSays, Between
<1>6. Places'
  BY <1>1, <1>2 DEF Places
<1> QED
  BY <1>3, <1>4, <1>5, <1>6 DEF BlockInv

\* A first match is found, or the strong encoder goes on by a byte.
LEMMA ChainSearchKeeps == BlockInv /\ ChainSearch => BlockInv'
<1> SUFFICES ASSUME BlockInv, ChainSearch PROVE BlockInv'
  OBVIOUS
<1> DEFINE longest == MinMatch - 1
           m == Search(ip, ip, longest)
<1>1. /\ coder = "chain" /\ lz4Frames' = lz4Frames /\ input' = input /\ match' = match
      /\ anchor' = anchor /\ block' = block /\ restored' = restored
      /\ table' = table /\ forward' = forward /\ ip <= LastStart
      /\ \/ m = NoMatch /\ ip' = ip + 1 /\ coder' = "chain" /\ lazy' = lazy
         \/ /\ m # NoMatch /\ coder' = "second" /\ ip' = ip
            /\ lazy' = [lazy EXCEPT !.start0 = ip, !.m0 = m, !.m1 = m]
  BY DEF ChainSearch, LazyKeeps
<1>2. Types /\ Resting /\ BlockSays /\ Places /\ IsPicture(input)
  BY DEF BlockInv, Types
<1>3. End \in Nat /\ End = Len(input) /\ LastStart = End - MFLimit
  BY <1>2, EndIs DEF End
<1>4. ip \in 0 .. Len(input) /\ anchor \in 0 .. Len(input) /\ anchor <= ip
  BY <1>1, <1>2 DEF Types, Places
<1>5. MFLimit \in Nat \ {0} /\ MinMatch \in Nat /\ MinMatch >= 3
  BY Parameters
<1>6. ip \in Nat /\ longest \in Nat /\ MinMatch - 1 <= longest
  BY <1>3, <1>4, <1>5
<1>7. Resting'
  BY <1>1 DEF Resting
<1> HIDE DEF longest
<1>8. CASE coder' = "chain"
  <2>1. ip' = ip + 1 /\ lazy' = lazy
    BY <1>1, <1>8
  <2>2. Types'
    <3>1. ip' \in 0 .. Len(input)
      BY <2>1, <1>1, <1>3, <1>5, <1>6
    <3> QED
      BY <1>1, <1>2, <1>8, <2>1, <3>1 DEF Types, Coders
  <2>3. BlockSays'
    BY <1>1, <1>2, <1>8 DEF BlockSays, Between
  <2>4. Places'
    <3>1. anchor' <= ip'
      BY <1>1, <1>3, <1>4, <2>1
    <3> QED
      BY <1>1, <1>2, <1>8, <3>1 DEF Places
  <2> QED
    BY <1>7, <2>2, <2>3, <2>4 DEF BlockInv
<1>9. CASE coder' = "second"
  <2>1. /\ m # NoMatch /\ ip' = ip
        /\ lazy' = [lazy EXCEPT !.start0 = ip, !.m0 = m, !.m1 = m]
    BY <1>1, <1>9
  <2>2. m.back \in 0 .. ip - ip /\ MatchAt(input, ip - m.back, m)
    BY <1>1, <1>2, <1>6, <2>1, SearchFinds
  <2>3. MatchAt(input, ip, m)
    <3>1. ip - m.back = ip
      BY <1>6, <2>2
    <3> QED
      BY <2>2, <3>1
  <2> HIDE DEF m
  <2>4. /\ lazy' = [start0 |-> lazy'.start0, m0 |-> lazy'.m0, m1 |-> lazy'.m1,
                    start2 |-> lazy'.start2, m2 |-> lazy'.m2]
        /\ lazy'.start0 = ip /\ lazy'.m0 = m /\ lazy'.m1 = m
    BY <1>2, <2>1 DEF Types
  <2>5. Types'
    BY <1>1, <1>2, <1>9, <2>1, <2>4 DEF Types, Coders
  <2>6. BlockSays'
    BY <1>1, <1>2, <1>9 DEF BlockSays, Between
  <2>7. SecondHolds(input, ip, anchor, lazy')
    <3>1. m.len <= m.len
      BY <2>3 DEF MatchAt
    <3> DEFINE l == lazy'
    <3>2. l.start0 = ip /\ l.m0 = m /\ l.m1 = m
      BY <2>4
    <3> HIDE DEF l
    <3>3. SecondHolds(input, ip, anchor, l)
      BY <1>3, <1>4, <1>6, <2>3, <3>1, <3>2 DEF SecondHolds
    <3> QED
      BY <3>3 DEF l
  <2>8. Places'
    BY <1>1, <1>2, <1>9, <2>1, <2>7 DEF Places
  <2> QED
    BY <1>7, <2>5, <2>6, <2>8 DEF BlockInv
<1> QED
  BY <1>1, <1>8, <1>9

\* The search behind a match: the one that was found overlaps its end.
LEMMA SecondFound ==
  ASSUME IsPicture(input), NEW p \in Nat, NEW m1, MatchAt(input, p, m1), NEW by \in 2 .. 3,
         p + m1.len <= LastStart,
         Search(p + m1.len - by, p, m1.len) # NoMatch
  PROVE  LET from == p + m1.len - by
             m2 == Search(from, p, m1.len)
         IN  /\ from \in Nat /\ from - m2.back \in Nat
             /\ p <= from - m2.back /\ from - m2.back <= from
             /\ m1.len < m2.len /\ MatchAt(input, from - m2.back, m2)
<1> DEFINE n == m1.len
           from == p + n - by
           m2 == Search(from, p, n)
<1>1. n \in Nat /\ n >= MinMatch /\ MinMatch \in Nat /\ MinMatch >= 3
  <2>1. n \in Nat /\ n >= MinMatch
    BY DEF MatchAt
  <2>2. MinMatch \in Nat /\ MinMatch >= 3
    BY Parameters
  <2> QED
    BY <2>1, <2>2
<1>2. LastStart \in Int
  BY EndIs
<1> HIDE DEF n
<1>3. from \in Nat /\ p <= from /\ from <= LastStart /\ MinMatch - 1 <= n
  BY <1>1, <1>2 DEF n
<1>4. m2 # NoMatch
  BY DEF n
<1> HIDE DEF from
<1>5. m2.len > n /\ m2.back \in 0 .. from - p /\ MatchAt(input, from - m2.back, m2)
  BY <1>1, <1>3, <1>4, SearchFinds
<1>6. m2.len \in Nat
  BY <1>5 DEF MatchAt
<1> HIDE DEF m2
<1>7. from - m2.back \in Nat /\ p <= from - m2.back /\ from - m2.back <= from /\ n < m2.len
  BY <1>1, <1>3, <1>5, <1>6
<1> QED
  BY <1>3, <1>5, <1>7 DEF from, m2, n

\* The match is written, replaced by one that starts close, or weighed against a later one.
LEMMA SecondSearchKeeps == BlockInv /\ SecondSearch => BlockInv'
<1> SUFFICES ASSUME BlockInv, SecondSearch PROVE BlockInv'
  OBVIOUS
<1> DEFINE s0 == lazy.start0
           m0 == lazy.m0
           m1 == lazy.m1
           from == ip + m1.len - 2
           m2 == IF ip + m1.len <= LastStart THEN Search(from, ip, m1.len) ELSE NoMatch
           start2 == from - m2.back
           squeezed == s0 < ip /\ start2 < ip + m0.len
           p == IF squeezed THEN s0 ELSE ip
           m == IF squeezed THEN m0 ELSE m1
           w == WithSequence(block, anchor, ip, m1)
<1>1. /\ coder = "second" /\ lz4Frames' = lz4Frames /\ input' = input /\ match' = match
      /\ restored' = restored /\ table' = table /\ forward' = forward
      /\ \/ /\ m2 = NoMatch /\ Write(w, "chain") /\ ip' = ip + m1.len
            /\ anchor' = ip + m1.len /\ lazy' = NoLazy
         \/ /\ m2 # NoMatch /\ start2 - p < 3 /\ ip' = start2
            /\ lazy' = [lazy EXCEPT !.m1 = m2] /\ coder' = "second"
            /\ anchor' = anchor /\ block' = block
         \/ /\ m2 # NoMatch /\ start2 - p >= 3 /\ ip' = p /\ coder' = "third"
            /\ lazy' = [lazy EXCEPT !.m1 = m, !.start2 = start2, !.m2 = m2]
            /\ anchor' = anchor /\ block' = block
  BY DEF SecondSearch, LazyKeeps, Encode
<1>2. Types /\ Resting /\ BlockSays /\ Places /\ IsPicture(input)
  BY DEF BlockInv, Types
<1>3. /\ End \in Nat /\ End = Len(input) /\ LastStart = End - MFLimit /\ LastStart \in Int
      /\ MatchLimit = End - LastLiterals
  BY <1>2, EndIs DEF End
<1>4. ip \in Nat /\ anchor \in Nat
  <2>1. ip \in 0 .. Len(input) /\ anchor \in 0 .. Len(input)
    BY <1>2 DEF Types
  <2> QED
    BY <2>1, <1>3
<1>5. /\ MFLimit \in Nat \ {0} /\ MinMatch \in Nat /\ MinMatch >= 3 /\ MinMatch <= 4
      /\ LastLiterals \in Nat
  BY Parameters
<1>6. SecondHolds(input, ip, anchor, lazy)
  BY <1>1, <1>2 DEF Places
<1>7. /\ s0 \in Nat /\ anchor <= s0 /\ s0 <= ip /\ ip <= s0 + 2
      /\ MatchAt(input, s0, m0) /\ MatchAt(input, ip, m1) /\ m0.len <= m1.len
  BY <1>6 DEF SecondHolds
<1>8. /\ m0.len \in Nat /\ m0.len >= MinMatch /\ m1.len \in Nat /\ m1.len >= MinMatch
      /\ ip + m1.len <= MatchLimit
  BY <1>7, <1>3 DEF MatchAt
<1>9. restored = NotRestored /\ IsBlock(block, End) /\ ~block.full
      /\ Parsed(input, block.bytes, Len(block.bytes), anchor)
  BY <1>1, <1>2 DEF BlockSays, Between, End
<1>10. ASSUME m2 # NoMatch
       PROVE  /\ start2 \in Nat /\ ip <= start2 /\ start2 <= from /\ m1.len < m2.len
              /\ MatchAt(input, start2, m2) /\ m2.len \in Nat /\ ip + m1.len <= LastStart
  <2>1. ip + m1.len <= LastStart /\ m2 = Search(from, ip, m1.len)
    BY <1>10
  <2> DEFINE two == 2
  <2>2. two \in 2 .. 3 /\ from = ip + m1.len - two
    OBVIOUS
  <2> HIDE DEF two, m1, m2, from
  <2>3. Search(ip + m1.len - two, ip, m1.len) # NoMatch
    BY <1>10, <2>1, <2>2
  <2>4. /\ from - m2.back \in Nat /\ ip <= from - m2.back /\ from - m2.back <= from
        /\ m1.len < m2.len /\ MatchAt(input, from - m2.back, m2)
    BY <1>2, <1>4, <1>7, <2>1, <2>2, <2>3, SecondFound
  <2>5. m2.len \in Nat
    BY <2>4 DEF MatchAt
  <2> QED
    BY <2>1, <2>4, <2>5
<1>11. CASE m2 = NoMatch
  <2>1. /\ Write(w, "chain") /\ ip' = ip + m1.len /\ anchor' = ip + m1.len /\ lazy' = NoLazy
    BY <1>1, <1>11
  <2>2. IsBlock(w, End) /\ (~w.full => Parsed(input, w.bytes, Len(w.bytes), ip + m1.len))
    <3>1. anchor <= ip
      BY <1>4, <1>7
    <3> HIDE DEF m1
    <3> QED
      BY <1>2, <1>4, <1>7, <1>9, <3>1, WithSequenceWrites
  <2> HIDE DEF w, m1, m2
  <2>3. block' = w /\ coder' \in {"chain", "failed"}
    BY <2>1 DEF Write
  <2>4. ip' \in 0 .. Len(input) /\ anchor' \in 0 .. Len(input) /\ anchor' = ip'
        /\ anchor' <= Len(input) - LastLiterals
    BY <2>1, <1>3, <1>4, <1>5, <1>8
  <2>5. Types'
    BY <1>1, <1>2, <2>1, <2>3, <2>4 DEF Types, Coders, NoLazy
  <2>6. Resting'
    BY <2>3 DEF Resting
  <2>7. BlockSays'
    <3>1. "chain" \in Between
      BY DEF Between
    <3> QED
      BY <1>1, <1>2, <1>9, <2>1, <2>2, <3>1, WroteBlock
  <2>8. Places'
    <3>1. anchor' <= ip'
      BY <2>4, <1>3
    <3> QED
      BY <1>1, <2>3, <2>4, <3>1 DEF Places
  <2> QED
    BY <2>5, <2>6, <2>7, <2>8 DEF BlockInv
<1>12. ASSUME m2 # NoMatch PROVE ip <= start2 /\ start2 <= Len(input) /\ start2 \in Nat
  <2>1. start2 \in Nat /\ ip <= start2 /\ start2 <= from /\ ip + m1.len <= LastStart
    BY <1>12, <1>10
  <2> HIDE DEF start2, m1, m2
  <2> QED
    BY <2>1, <1>3, <1>4, <1>5, <1>8
<1>13. CASE m2 # NoMatch /\ start2 - p < 3 /\ coder' = "second"
  <2>1. /\ ip' = start2 /\ lazy' = [lazy EXCEPT !.m1 = m2]
        /\ anchor' = anchor /\ block' = block
    BY <1>1, <1>13
  <2>2. /\ start2 \in Nat /\ ip <= start2 /\ m1.len < m2.len
        /\ MatchAt(input, start2, m2) /\ m2.len \in Nat /\ start2 <= Len(input)
    BY <1>10, <1>12, <1>13
  <2>3. /\ lazy' = [start0 |-> lazy'.start0, m0 |-> lazy'.m0, m1 |-> lazy'.m1,
                    start2 |-> lazy'.start2, m2 |-> lazy'.m2]
        /\ lazy'.start0 = s0 /\ lazy'.m0 = m0 /\ lazy'.m1 = m2
    BY <1>2, <2>1 DEF Types
  <2>4. start2 <= s0 + 2
    <3> DEFINE n0 == m0.len
    <3>1. n0 \in Nat /\ n0 >= 3
      BY <1>5, <1>8
    <3>2. CASE squeezed
      <4>1. start2 - s0 < 3
        BY <1>13, <3>2
      <4> HIDE DEF start2, s0
      <4> QED
        BY <4>1, <2>2, <1>7
    <3>3. CASE ~squeezed
      <4>1. start2 - ip < 3
        BY <1>13, <3>3
      <4>2. ~(s0 < ip /\ start2 < ip + n0)
        BY <3>3
      <4> HIDE DEF start2, s0, n0, squeezed
      <4> QED
        BY <4>1, <4>2, <3>1, <2>2, <1>4, <1>7
    <3> QED
      BY <3>2, <3>3
  <2> HIDE DEF start2, m2, s0, m0, m1, p
  <2>5. Types'
    <3>1. ip' \in 0 .. Len(input) /\ anchor' \in 0 .. Len(input)
      BY <1>2, <1>3, <2>1, <2>2 DEF Types
    <3> QED
      BY <1>1, <1>2, <1>13, <2>3, <3>1 DEF Types, Coders
  <2>6. Resting'
    BY <1>13 DEF Resting
  <2>7. BlockSays'
    BY <1>1, <1>2, <1>9, <1>13, <2>1 DEF BlockSays, Between
  <2>8. SecondHolds(input, start2, anchor, lazy')
    <3> DEFINE l == lazy'
    <3>1. l.start0 = s0 /\ l.m0 = m0 /\ l.m1 = m2
      BY <2>3
    <3> HIDE DEF l
    <3>2. s0 <= start2 /\ m0.len <= m2.len
      BY <1>4, <1>7, <1>8, <2>2
    <3>3. SecondHolds(input, start2, anchor, l)
      BY <1>7, <2>2, <2>4, <3>1, <3>2 DEF SecondHolds
    <3> QED
      BY <3>3 DEF l
  <2>9. Places'
    BY <1>1, <1>2, <1>13, <2>1, <2>8 DEF Places
  <2> QED
    BY <2>5, <2>6, <2>7, <2>9 DEF BlockInv
<1>14. CASE m2 # NoMatch /\ start2 - p >= 3 /\ coder' = "third"
  <2>1. /\ ip' = p /\ lazy' = [lazy EXCEPT !.m1 = m, !.start2 = start2, !.m2 = m2]
        /\ anchor' = anchor /\ block' = block
    BY <1>1, <1>14
  <2>2. /\ start2 \in Nat /\ ip <= start2 /\ start2 <= from /\ m1.len < m2.len
        /\ MatchAt(input, start2, m2) /\ m2.len \in Nat /\ ip + m1.len <= LastStart
    BY <1>10, <1>14
  <2>3. /\ lazy' = [start0 |-> lazy'.start0, m0 |-> lazy'.m0, m1 |-> lazy'.m1,
                    start2 |-> lazy'.start2, m2 |-> lazy'.m2]
        /\ lazy'.m1 = m /\ lazy'.start2 = start2 /\ lazy'.m2 = m2
    BY <1>2, <2>1 DEF Types
  <2>4. /\ p \in Nat /\ p <= Len(input) /\ anchor <= p /\ MatchAt(input, p, m)
        /\ p <= start2 /\ start2 <= p + m.len + 1 /\ p + m.len <= LastStart
    <3>0. ip <= Len(input)
      BY <1>2, <1>3, <1>4 DEF Types
    <3>1. CASE squeezed
      <4>1. p = s0 /\ m = m0 /\ start2 < ip + m0.len
        BY <3>1
      <4> DEFINE n == m0.len
                 k == m1.len
      <4>2. n \in Nat /\ k \in Nat /\ n <= k /\ start2 < ip + n /\ ip + k <= LastStart
        BY <1>7, <1>8, <2>2, <4>1
      <4> HIDE DEF n, k, start2, s0, p
      <4>3. /\ s0 <= Len(input) /\ s0 <= start2 /\ start2 <= s0 + n + 1
            /\ s0 + n <= LastStart
        BY <3>0, <4>2, <2>2, <1>3, <1>4, <1>7
      <4> QED
        BY <4>1, <4>3, <1>7 DEF n
    <3>2. CASE ~squeezed
      <4>1. p = ip /\ m = m1
        BY <3>2
      <4> DEFINE k == m1.len
      <4>2. k \in Nat /\ start2 <= ip + k - 2
        BY <1>8, <2>2
      <4> HIDE DEF k, start2, p
      <4>3. start2 <= ip + k + 1 /\ anchor <= ip
        BY <4>2, <2>2, <1>4, <1>7
      <4> QED
        BY <3>0, <4>1, <4>3, <2>2, <1>4, <1>7 DEF k
    <3> QED
      BY <3>1, <3>2
  <2> HIDE DEF start2, m2, s0, m0, m1, p, m
  <2>5. Types'
    <3>1. ip' \in 0 .. Len(input) /\ anchor' \in 0 .. Len(input)
      BY <1>2, <1>3, <2>1, <2>4 DEF Types
    <3> QED
      BY <1>1, <1>2, <1>14, <2>3, <3>1 DEF Types, Coders
  <2>6. Resting'
    BY <1>14 DEF Resting
  <2>7. BlockSays'
    BY <1>1, <1>2, <1>9, <1>14, <2>1 DEF BlockSays, Between
  <2>8. ThirdHolds(input, p, anchor, lazy')
    <3> DEFINE l == lazy'
               k == m2.len
    <3>1. l.m1 = m /\ l.start2 = start2 /\ l.m2 = m2
      BY <2>3
    <3>2. k \in Nat /\ MinMatch + 1 <= k
      BY <1>5, <1>8, <2>2
    <3>3. p + m.len <= Len(input) - MFLimit
      BY <2>4, <1>3
    <3> HIDE DEF l, k
    <3>4. 2 * MinMatch <= start2 - p + k
      BY <1>5, <1>14, <2>2, <2>4, <3>2
    <3>5. ThirdHolds(input, p, anchor, l)
      BY <2>2, <2>4, <3>1, <3>2, <3>3, <3>4 DEF ThirdHolds, k
    <3> QED
      BY <3>5 DEF l
  <2>9. Places'
    BY <1>1, <1>2, <1>14, <2>1, <2>8 DEF Places
  <2> QED
    BY <2>5, <2>6, <2>7, <2>9 DEF BlockInv
<1> QED
  BY <1>1, <1>11, <1>13, <1>14

\* Of two or three matches that overlap, what is written and what is kept are matches.
LEMMA ThirdSearchKeeps == BlockInv /\ ThirdSearch => BlockInv'
<1> SUFFICES ASSUME BlockInv, ThirdSearch PROVE BlockInv'
  OBVIOUS
<1> DEFINE m1 == lazy.m1
           s2 == lazy.start2
           old == lazy.m2
           by == ShiftOf(ip, m1, s2, old)
           start2 == s2 + by
           m2 == Later(old, by)
           from == start2 + m2.len - 3
           endFirst == ip + m1.len
           m3 == IF start2 + m2.len <= LastStart THEN Search(from, start2, m2.len) ELSE NoMatch
           start3 == from - m3.back
           first == [m1 EXCEPT !.len = Min({m1.len, start2 - ip})]
           b == WithSequence(block, anchor, ip, first)
           both == WithSequence(b, ip + first.len, start2, m2)
           short == Highest(0, endFirst - start2)
           overlap == start2 < endFirst
           close == start2 - ip < OptimalLength
           length == IF ~overlap THEN m1.len
                     ELSE IF close THEN Preferred(ip, m1, start2, m2)
                     ELSE start2 - ip
           more == IF overlap /\ close THEN Highest(0, length - (start2 - ip)) ELSE 0
           None == /\ Write(IF b.full THEN b ELSE both, "chain")
                   /\ ip' = start2 + m2.len /\ anchor' = start2 + m2.len
                   /\ lazy' = NoLazy
           Close == /\ lazy' = [lazy EXCEPT
                         !.start0 = IF m2.len - short < MinMatch THEN start3
                                    ELSE start2 + short,
                         !.m0 = IF m2.len - short < MinMatch THEN m3 ELSE Later(m2, short),
                         !.m1 = m3, !.start2 = start2 + short]
                    /\ Write(WithSequence(block, anchor, ip, m1), "second")
                    /\ ip' = start3 /\ anchor' = endFirst
           Inside == /\ lazy' = [lazy EXCEPT !.start2 = start3, !.m2 = m3]
                     /\ coder' = "third" /\ ip' = ip /\ anchor' = anchor /\ block' = block
           Three == /\ Write(WithSequence(block, anchor, ip, [m1 EXCEPT !.len = length]),
                             "third")
                    /\ anchor' = ip + length
                    /\ ip' = start2 + more
                    /\ lazy' = [lazy EXCEPT !.m1 = Later(m2, more),
                                            !.start2 = start3, !.m2 = m3]
<1>1. /\ coder = "third" /\ lz4Frames' = lz4Frames /\ input' = input /\ match' = match
      /\ restored' = restored /\ table' = table /\ forward' = forward
      /\ \/ m3 = NoMatch /\ None
         \/ m3 # NoMatch /\ start3 < endFirst + 3 /\ start3 >= endFirst /\ Close
         \/ m3 # NoMatch /\ start3 < endFirst /\ Inside
         \/ m3 # NoMatch /\ start3 >= endFirst + 3 /\ Three
  BY DEF ThirdSearch, LazyKeeps, ShiftOf
<1> HIDE DEF None, Close, Inside, Three
<1>2. Types /\ Resting /\ BlockSays /\ Places /\ IsPicture(input)
  BY DEF BlockInv, Types
<1>3. /\ End \in Nat /\ End = Len(input) /\ LastStart = End - MFLimit /\ LastStart \in Int
      /\ MatchLimit = End - LastLiterals
  BY <1>2, EndIs DEF End
<1>4. ip \in Nat /\ anchor \in Nat /\ ip <= Len(input)
  <2>1. ip \in 0 .. Len(input) /\ anchor \in 0 .. Len(input)
    BY <1>2 DEF Types
  <2> QED
    BY <2>1, <1>3
<1>5. /\ MFLimit \in Nat \ {0} /\ MinMatch \in Nat /\ MinMatch >= 3 /\ MinMatch <= 4
      /\ LastLiterals \in Nat
  BY Parameters
<1>6. ThirdHolds(input, ip, anchor, lazy)
  BY <1>1, <1>2 DEF Places
<1>7. /\ anchor <= ip /\ s2 \in Nat /\ MatchAt(input, ip, m1) /\ MatchAt(input, s2, old)
      /\ ip <= s2 /\ s2 <= ip + m1.len + 1 /\ ip + m1.len <= LastStart
      /\ MinMatch + 1 <= old.len /\ 2 * MinMatch <= s2 - ip + old.len
  BY <1>6, <1>3 DEF ThirdHolds
<1>8. /\ m1.len \in Nat /\ m1.len >= MinMatch /\ old.len \in Nat /\ old.len >= MinMatch
      /\ ip + m1.len <= MatchLimit /\ s2 <= LastStart
  BY <1>7, <1>3 DEF MatchAt
<1>9. restored = NotRestored /\ IsBlock(block, End) /\ ~block.full
      /\ Parsed(input, block.bytes, Len(block.bytes), anchor)
  BY <1>1, <1>2 DEF BlockSays, Between, End
<1>10. /\ by \in Nat /\ by <= old.len - MinMatch
       /\ by > 0 => start2 <= endFirst
       /\ ip + MinMatch <= start2
  <2> HIDE DEF m1, s2, old
  <2> QED
    BY <1>4, <1>7, <1>8, ShiftIs
<1> HIDE DEF by
<1>11. /\ start2 \in Nat /\ s2 <= start2 /\ start2 <= LastStart
       /\ by = 0 => start2 <= endFirst + 1
  <2> DEFINE n == m1.len
  <2>1. n \in Nat /\ s2 <= ip + n + 1 /\ ip + n <= LastStart /\ endFirst = ip + n
        /\ (by > 0 => s2 + by <= ip + n)
    BY <1>7, <1>8, <1>10
  <2> HIDE DEF n, s2, endFirst
  <2>2. /\ s2 + by \in Nat /\ s2 <= s2 + by /\ s2 + by <= LastStart
        /\ by = 0 => s2 + by <= ip + n + 1
    BY <2>1, <1>3, <1>4, <1>7, <1>8, <1>10
  <2> QED
    BY <2>1, <2>2
<1>12. MatchAt(input, start2, m2) /\ m2.len = old.len - by
  <2> HIDE DEF old, s2
  <2>1. s2 + by <= Len(input) - MFLimit /\ Len(input) \in Nat
    BY <1>3, <1>11
  <2> QED
    BY <1>7, <1>10, <2>1, LaterMatch
<1> DEFINE k == m2.len
           n == m1.len
<1>13. k \in Nat /\ k >= MinMatch /\ (by = 0 => k >= MinMatch + 1) /\ start2 + k <= MatchLimit
  <2>1. k \in Nat /\ k >= MinMatch /\ start2 + k <= MatchLimit
    BY <1>3, <1>12 DEF MatchAt
  <2>2. by = 0 => k = old.len
    BY <1>8, <1>12
  <2> QED
    BY <2>1, <2>2, <1>7
<1>14. n \in Nat /\ n >= MinMatch /\ endFirst = ip + n /\ ip + n <= LastStart
  BY <1>7, <1>8
<1>15. ASSUME m3 # NoMatch
       PROVE  /\ start3 \in Nat /\ start2 <= start3 /\ start3 <= start2 + k - 3
              /\ start2 + k <= LastStart /\ start3 <= Len(input)
              /\ m3.len \in Nat /\ k < m3.len /\ MatchAt(input, start3, m3)
  <2>1. start2 + m2.len <= LastStart /\ m3 = Search(from, start2, m2.len)
    BY <1>15
  <2> DEFINE three == 3
  <2>2. three \in 2 .. 3 /\ from = start2 + m2.len - three
    OBVIOUS
  <2> HIDE DEF three, start2, m2, m3, from
  <2>3. Search(start2 + m2.len - three, start2, m2.len) # NoMatch
    BY <1>15, <2>1, <2>2
  <2>4. /\ from - m3.back \in Nat /\ start2 <= from - m3.back /\ from - m3.back <= from
        /\ m2.len < m3.len /\ MatchAt(input, from - m3.back, m3)
    BY <1>2, <1>11, <1>12, <2>1, <2>2, <2>3, SecondFound
  <2>5. m3.len \in Nat
    BY <2>4 DEF MatchAt
  <2>6. from = start2 + k - 3
    BY <2>2 DEF three
  <2> HIDE DEF k
  <2>7. start3 <= Len(input)
    BY <2>1, <2>4, <2>6, <1>3, <1>5, <1>11, <1>13 DEF k
  <2> QED
    BY <2>1, <2>4, <2>5, <2>6, <2>7 DEF k
<1>16. "chain" \in Between /\ "second" \in Between /\ "third" \in Between
  BY DEF Between
<1>17. Len(input) \in Nat
  BY <1>3
<1>18. CASE m3 = NoMatch /\ None
  <2>1. /\ Write(IF b.full THEN b ELSE both, "chain")
        /\ ip' = start2 + k /\ anchor' = start2 + k /\ lazy' = NoLazy
    BY <1>18 DEF None
  <2> DEFINE w == IF b.full THEN b ELSE both
             j == Min({n, start2 - ip})
  <2>2. j \in Nat /\ MinMatch <= j /\ j <= n /\ ip + j <= start2 /\ first = [m1 EXCEPT !.len = j]
    <3> DEFINE S == {n, start2 - ip}
    <3>1. S \subseteq Int /\ S # {} /\ \A x \in S : MinMatch <= x
      <4> HIDE DEF n, start2
      <4> QED
        BY <1>4, <1>5, <1>10, <1>11, <1>14
    <3>2. MinMatch \in Int /\ n \in S /\ start2 - ip \in S
      BY <1>5
    <3>3. j = Min(S) /\ first = [m1 EXCEPT !.len = j]
      OBVIOUS
    <3> HIDE DEF S, j, first
    <3>4. Min(S) \in S /\ \A x \in S : Min(S) <= x
      BY <3>1, <3>2, MinIn
    <3> HIDE DEF n, start2
    <3>5. j \in Int /\ MinMatch <= j /\ j <= n /\ j <= start2 - ip
      BY <3>1, <3>2, <3>3, <3>4
    <3> QED
      BY <3>3, <3>5, <1>4, <1>5, <1>11
  <2> HIDE DEF j
  <2>3. MatchAt(input, ip, first) /\ first.len = j
    <3>1. MatchAt(input, ip, [m1 EXCEPT !.len = j])
      <4> HIDE DEF m1, first
      <4> QED
        BY <1>4, <1>7, <1>17, <2>2, ShortMatch DEF n
    <3>2. m1 = [len |-> m1.len, off |-> m1.off, back |-> m1.back]
      BY <1>7 DEF MatchAt
    <3>3. [m1 EXCEPT !.len = j].len = j
      BY <3>2
    <3> QED
      BY <2>2, <3>1, <3>3
  <2> HIDE DEF first
  <2>4. IsBlock(b, End) /\ (~b.full => Parsed(input, b.bytes, Len(b.bytes), ip + first.len))
    BY <1>2, <1>4, <1>7, <1>9, <2>3, WithSequenceWrites
  <2>5. ~b.full => /\ IsBlock(both, End)
                   /\ ~both.full => Parsed(input, both.bytes, Len(both.bytes), start2 + k)
    <3> SUFFICES ASSUME ~b.full
                 PROVE  /\ IsBlock(both, End)
                        /\ ~both.full => Parsed(input, both.bytes, Len(both.bytes), start2 + k)
      OBVIOUS
    <3> DEFINE at == ip + first.len
    <3>1. at \in Nat /\ at <= start2
      BY <1>4, <2>2, <2>3
    <3>2. IsBlock(b, End) /\ Parsed(input, b.bytes, Len(b.bytes), at)
      BY <2>4
    <3> HIDE DEF at, b, start2, m2
    <3>3. LET v == WithSequence(b, at, start2, m2)
          IN  /\ IsBlock(v, End)
              /\ ~v.full => Parsed(input, v.bytes, Len(v.bytes), start2 + m2.len)
      BY <1>2, <1>11, <1>12, <3>1, <3>2, WithSequenceWrites
    <3> QED
      BY <3>3 DEF at
  <2> HIDE DEF b, both
  <2>6. IsBlock(w, End) /\ (~w.full => Parsed(input, w.bytes, Len(w.bytes), start2 + k))
    BY <2>4, <2>5
  <2>7. Write(w, "chain")
    BY <2>1
  <2> HIDE DEF w, start2, k
  <2>8. coder' \in {"chain", "failed"}
    BY <2>7 DEF Write
  <2>9. ip' \in 0 .. Len(input) /\ anchor' \in 0 .. Len(input) /\ anchor' = ip'
        /\ anchor' <= Len(input) - LastLiterals /\ anchor' <= ip'
    BY <2>1, <1>3, <1>5, <1>11, <1>13
  <2>10. Types'
    BY <1>1, <1>2, <2>1, <2>8, <2>9 DEF Types, Coders, NoLazy
  <2>11. Resting'
    BY <2>8 DEF Resting
  <2>12. BlockSays'
    BY <1>1, <1>2, <1>9, <1>16, <2>1, <2>6, <2>7, WroteBlock
  <2>13. Places'
    BY <1>1, <2>8, <2>9 DEF Places
  <2> QED
    BY <2>10, <2>11, <2>12, <2>13 DEF BlockInv
<1>19. CASE m3 # NoMatch /\ start3 < endFirst + 3 /\ start3 >= endFirst /\ Close
  <2> DEFINE w == WithSequence(block, anchor, ip, m1)
             s0 == IF m2.len - short < MinMatch THEN start3 ELSE start2 + short
             m0 == IF m2.len - short < MinMatch THEN m3 ELSE Later(m2, short)
  <2>1. /\ lazy' = [lazy EXCEPT !.start0 = s0, !.m0 = m0, !.m1 = m3,
                                !.start2 = start2 + short]
        /\ Write(w, "second") /\ ip' = start3 /\ anchor' = endFirst
    BY <1>19 DEF Close
  <2>2. /\ start3 \in Nat /\ start2 <= start3 /\ start3 <= start2 + k - 3
        /\ start2 + k <= LastStart /\ start3 <= Len(input)
        /\ m3.len \in Nat /\ k < m3.len /\ MatchAt(input, start3, m3)
    BY <1>15, <1>19
  <2>3. start3 < endFirst + 3 /\ start3 >= endFirst
    BY <1>19
  <2>4. IsBlock(w, End) /\ (~w.full => Parsed(input, w.bytes, Len(w.bytes), endFirst))
    <3> HIDE DEF m1
    <3> QED
      BY <1>2, <1>4, <1>7, <1>9, WithSequenceWrites DEF m1
  <2>5. /\ lazy' = [start0 |-> lazy'.start0, m0 |-> lazy'.m0, m1 |-> lazy'.m1,
                    start2 |-> lazy'.start2, m2 |-> lazy'.m2]
        /\ lazy'.start0 = s0 /\ lazy'.m0 = m0 /\ lazy'.m1 = m3
    BY <1>2, <2>1 DEF Types
  <2>6. /\ short \in Nat /\ endFirst <= start2 + short /\ start2 + short <= start3
        /\ start2 + short <= LastStart
    <3> HIDE DEF start3, start2, endFirst, m1, n
    <3>1. endFirst \in Nat /\ endFirst <= LastStart
      BY <1>4, <1>14
    <3>2. CASE endFirst - start2 > 0
      <4>1. short = endFirst - start2
        BY <3>1, <3>2, <1>11 DEF Highest
      <4> QED
        BY <4>1, <3>1, <3>2, <1>11, <2>2, <2>3
    <3>3. CASE ~(endFirst - start2 > 0)
      <4>1. short = 0
        BY <3>1, <3>3, <1>11 DEF Highest
      <4> QED
        BY <4>1, <3>1, <3>3, <1>11, <2>2, <2>3
    <3> QED
      BY <3>2, <3>3
  <2>7. /\ s0 \in Nat /\ endFirst <= s0 /\ s0 <= start3 /\ start3 <= s0 + 2
        /\ MatchAt(input, s0, m0) /\ m0.len <= m3.len
    <3>1. CASE m2.len - short < MinMatch
      <4>1. s0 = start3 /\ m0 = m3
        BY <3>1
      <4> HIDE DEF start3, m3, s0, m0, endFirst
      <4> QED
        BY <4>1, <2>2, <2>3
    <3>2. CASE ~(m2.len - short < MinMatch)
      <4>1. s0 = start2 + short /\ m0 = Later(m2, short) /\ ~(k - short < MinMatch)
        BY <3>2
      <4> HIDE DEF s0, m0
      <4>2. short <= k - MinMatch /\ start2 + short <= Len(input) - MFLimit
        <5> HIDE DEF short, k, start2
        <5> QED
          BY <4>1, <2>6, <1>3, <1>5, <1>13
      <4>3. MatchAt(input, s0, m0) /\ m0.len = k - short
        <5> HIDE DEF short, start2, m2
        <5> QED
          BY <4>1, <4>2, <2>6, <1>11, <1>12, <1>17, LaterMatch DEF k
      <4> HIDE DEF short, k, start2, start3, m3, endFirst, n
      <4>4. endFirst \in Nat
        BY <1>4, <1>14
      <4> QED
        BY <4>1, <4>3, <4>4, <2>2, <2>3, <2>6, <1>11, <1>13
    <3> QED
      BY <3>1, <3>2
  <2> HIDE DEF w, s0, m0, start3, m3
  <2>8. coder' \in {"second", "failed"}
    BY <2>1 DEF Write
  <2>9. ip' \in 0 .. Len(input) /\ anchor' \in 0 .. Len(input)
        /\ anchor' <= Len(input) - LastLiterals
    <3>1. endFirst \in Nat /\ endFirst <= End - LastLiterals /\ endFirst <= End
      <4> HIDE DEF n, endFirst
      <4> QED
        BY <1>3, <1>4, <1>5, <1>8, <1>14 DEF n, endFirst
    <3> HIDE DEF endFirst
    <3> QED
      BY <2>1, <2>2, <3>1, <1>3
  <2>10. Types'
    BY <1>1, <1>2, <2>5, <2>8, <2>9 DEF Types, Coders
  <2>11. Resting'
    BY <2>8 DEF Resting
  <2>12. BlockSays'
    BY <1>1, <1>2, <1>9, <1>16, <2>1, <2>4, WroteBlock
  <2>13. SecondHolds(input, start3, endFirst, lazy')
    <3> DEFINE l == lazy'
    <3>1. l.start0 = s0 /\ l.m0 = m0 /\ l.m1 = m3
      BY <2>5
    <3> HIDE DEF l, endFirst
    <3>2. SecondHolds(input, start3, endFirst, l)
      BY <2>2, <2>7, <3>1 DEF SecondHolds
    <3> QED
      BY <3>2 DEF l
  <2>14. Places'
    <3> HIDE DEF endFirst
    <3> QED
      BY <1>1, <2>1, <2>8, <2>9, <2>13 DEF Places
  <2> QED
    BY <2>10, <2>11, <2>12, <2>14 DEF BlockInv
<1>20. CASE m3 # NoMatch /\ start3 < endFirst /\ Inside
  <2>1. /\ lazy' = [lazy EXCEPT !.start2 = start3, !.m2 = m3]
        /\ coder' = "third" /\ ip' = ip /\ anchor' = anchor /\ block' = block
    BY <1>20 DEF Inside
  <2>2. /\ start3 \in Nat /\ start2 <= start3
        /\ m3.len \in Nat /\ k < m3.len /\ MatchAt(input, start3, m3) /\ start3 < endFirst
    BY <1>15, <1>20
  <2>3. /\ lazy' = [start0 |-> lazy'.start0, m0 |-> lazy'.m0, m1 |-> lazy'.m1,
                    start2 |-> lazy'.start2, m2 |-> lazy'.m2]
        /\ lazy'.m1 = m1 /\ lazy'.start2 = start3 /\ lazy'.m2 = m3
    BY <1>2, <2>1 DEF Types
  <2> DEFINE j == m3.len
  <2>4. /\ MinMatch + 1 <= j /\ 2 * MinMatch <= start3 - ip + j
        /\ ip <= start3 /\ start3 <= ip + m1.len + 1 /\ ip + m1.len <= Len(input) - MFLimit
    <3>1. j \in Nat /\ k < j /\ start3 < ip + n
      BY <2>2
    <3> HIDE DEF j, k, n, start2, start3, m3
    <3>2. /\ MinMatch + 1 <= j /\ 2 * MinMatch <= start3 - ip + j
          /\ ip <= start3 /\ start3 <= ip + n + 1 /\ ip + n <= Len(input) - MFLimit
      BY <3>1, <2>2, <1>3, <1>4, <1>5, <1>10, <1>11, <1>13, <1>14
    <3> QED
      BY <3>2 DEF n
  <2> HIDE DEF start3, m3
  <2>5. Types'
    BY <1>1, <1>2, <2>1, <2>3 DEF Types, Coders
  <2>6. Resting'
    BY <2>1 DEF Resting
  <2>7. BlockSays'
    BY <1>1, <1>2, <1>9, <2>1 DEF BlockSays, Between
  <2>8. ThirdHolds(input, ip, anchor, lazy')
    <3> DEFINE l == lazy'
    <3>1. l.m1 = m1 /\ l.start2 = start3 /\ l.m2 = m3
      BY <2>3
    <3> HIDE DEF l, m1
    <3>2. ThirdHolds(input, ip, anchor, l)
      BY <1>7, <2>2, <2>4, <3>1 DEF ThirdHolds
    <3> QED
      BY <3>2 DEF l
  <2>9. Places'
    BY <1>1, <1>2, <2>1, <2>8 DEF Places
  <2> QED
    BY <2>5, <2>6, <2>7, <2>9 DEF BlockInv
<1>21. CASE m3 # NoMatch /\ start3 >= endFirst + 3 /\ Three
  <2> DEFINE cut == [m1 EXCEPT !.len = length]
             w == WithSequence(block, anchor, ip, cut)
             rest == Later(m2, more)
  <2>1. /\ lazy' = [lazy EXCEPT !.m1 = rest, !.start2 = start3, !.m2 = m3]
        /\ Write(w, "third") /\ ip' = start2 + more /\ anchor' = ip + length
    BY <1>21 DEF Three
  <2>2. /\ start3 \in Nat /\ start2 <= start3 /\ start3 <= start2 + k - 3
        /\ start2 + k <= LastStart /\ start3 <= Len(input)
        /\ m3.len \in Nat /\ k < m3.len /\ MatchAt(input, start3, m3)
    BY <1>15, <1>21
  <2>3. start3 >= endFirst + 3
    BY <1>21
  <2>4. /\ lazy' = [start0 |-> lazy'.start0, m0 |-> lazy'.m0, m1 |-> lazy'.m1,
                    start2 |-> lazy'.start2, m2 |-> lazy'.m2]
        /\ lazy'.m1 = rest /\ lazy'.start2 = start3 /\ lazy'.m2 = m3
    BY <1>2, <2>1 DEF Types
  <2>5. /\ length \in Nat /\ MinMatch <= length /\ length <= n
        /\ more \in Nat /\ more <= k - MinMatch
        /\ (more > 0 => start2 + more <= endFirst) /\ ip + length <= start2 + more
    <3> DEFINE pref == Preferred(ip, m1, start2, m2)
               shift == ShiftOf(ip, m1, start2, m2)
    <3>1. /\ shift \in Nat /\ shift <= k - MinMatch
          /\ shift > 0 => start2 + shift <= ip + n
          /\ pref \in Int /\ MinMatch <= pref /\ pref <= n
          /\ close => ip + pref <= start2 + shift /\ shift = Highest(0, pref - (start2 - ip))
      <4>1. 2 * MinMatch <= start2 - ip + k /\ ip <= start2
        <5> HIDE DEF start2, k
        <5> QED
          BY <1>4, <1>5, <1>10, <1>11, <1>13
      <4> HIDE DEF m1, m2, start2
      <4> QED
        BY <4>1, <1>4, <1>11, <1>13, <1>14, ShiftIs DEF k, n
    <3>2. CASE overlap /\ close
      <4>1. length = pref /\ more = shift
        BY <3>1, <3>2
      <4> HIDE DEF length, more, pref, shift, start2, k, n
      <4>2. close
        BY <3>2
      <4> QED
        BY <4>1, <4>2, <3>1, <1>5, <1>14
    <3>3. CASE overlap /\ ~close
      <4>1. length = start2 - ip /\ more = 0 /\ start2 < endFirst
        BY <3>3
      <4> HIDE DEF length, more, start2, k, n, endFirst
      <4> QED
        BY <4>1, <1>4, <1>5, <1>10, <1>11, <1>13, <1>14
    <3>4. CASE ~overlap
      <4>1. length = n /\ more = 0 /\ ~(start2 < endFirst)
        BY <3>4
      <4> HIDE DEF length, more, start2, k, n, endFirst
      <4> QED
        BY <4>1, <1>4, <1>5, <1>11, <1>13, <1>14
    <3> QED
      BY <3>2, <3>3, <3>4
  <2>6. more = 0 \/ overlap
    OBVIOUS
  <2> HIDE DEF length, more
  <2>7. MatchAt(input, ip, cut) /\ cut.len = length
    <3>1. MatchAt(input, ip, cut)
      <4> HIDE DEF m1
      <4> QED
        BY <1>4, <1>7, <1>17, <2>5, ShortMatch DEF n
    <3>2. m1 = [len |-> m1.len, off |-> m1.off, back |-> m1.back]
      BY <1>7 DEF MatchAt
    <3>3. cut.len = length
      BY <3>2
    <3> QED
      BY <3>1, <3>3
  <2> HIDE DEF cut
  <2>8. IsBlock(w, End) /\ (~w.full => Parsed(input, w.bytes, Len(w.bytes), ip + length))
    <3>1. LET v == WithSequence(block, anchor, ip, cut)
          IN  /\ IsBlock(v, End)
              /\ ~v.full => Parsed(input, v.bytes, Len(v.bytes), ip + cut.len)
      BY <1>2, <1>4, <1>7, <1>9, <2>7, WithSequenceWrites
    <3> QED
      BY <3>1, <2>7
  <2> DEFINE at == start2 + more
             r == rest.len
             j == m3.len
  <2>9. /\ at \in Nat /\ at <= LastStart /\ MatchAt(input, at, rest) /\ r = k - more
    <3>1. start2 + more \in Nat /\ start2 + more <= LastStart
      <4> HIDE DEF start2, endFirst, n
      <4> QED
        BY <1>3, <1>4, <1>11, <1>14, <2>5
    <3>2. start2 + more <= Len(input) - MFLimit
      BY <1>3, <3>1
    <3>3. MatchAt(input, start2 + more, Later(m2, more)) /\ Later(m2, more).len = k - more
      <4> HIDE DEF start2, m2
      <4> QED
        BY <1>11, <1>12, <1>17, <2>5, <3>2, LaterMatch DEF k
    <3> QED
      BY <3>1, <3>3
  <2>10. /\ ip + length <= at /\ at <= start3 /\ start3 <= at + r + 1
         /\ at + r <= Len(input) - MFLimit
         /\ MinMatch + 1 <= j /\ 2 * MinMatch <= start3 - at + j
    <3>1. j \in Nat /\ k < j /\ at = start2 + more /\ ip + length <= at
      BY <2>2, <2>5
    <3>2. r \in Nat /\ at + r = start2 + k
      <4> HIDE DEF r, start2, k
      <4> QED
        BY <2>5, <2>9, <1>5, <1>11, <1>13
    <3>3. overlap = (start2 < endFirst)
      OBVIOUS
    <3> HIDE DEF r, start2, k, at, start3, m3, endFirst, n, j, overlap
    <3>4. endFirst \in Nat
      BY <1>4, <1>14
    <3>5. MinMatch + 1 <= j
      BY <3>1, <1>5, <1>13
    <3>6. start3 <= at + r + 1 /\ at + r <= Len(input) - MFLimit
      BY <3>2, <2>2, <1>3, <1>5, <1>11, <1>13
    <3>7. CASE at <= endFirst
      <4>1. start3 - at >= 3 /\ at <= start3
        BY <3>4, <3>7, <2>2, <2>3, <2>9
      <4> QED
        BY <4>1, <3>1, <3>5, <3>6, <2>2, <2>9, <1>5
    <3>8. CASE ~(at <= endFirst)
      <4>1. more = 0 /\ at = start2 /\ ~(start2 <= endFirst)
        BY <3>1, <3>4, <3>8, <2>5, <1>11
      <4>2. by = 0
        BY <4>1, <1>10
      <4>3. start2 <= endFirst + 1 /\ k >= MinMatch + 1
        BY <4>2, <1>11, <1>13
      <4>4. start3 - at >= 2 /\ at <= start3 /\ j >= MinMatch + 2
        BY <4>1, <4>3, <3>1, <3>4, <2>2, <2>3, <1>5, <1>11, <1>13
      <4> QED
        BY <4>4, <3>1, <3>5, <3>6, <2>2, <2>9, <1>5
    <3> QED
      BY <3>7, <3>8
  <2> HIDE DEF w, start3, m3, rest
  <2>11. coder' \in {"third", "failed"}
    BY <2>1 DEF Write
  <2>12. /\ ip' \in 0 .. Len(input) /\ anchor' \in 0 .. Len(input)
         /\ anchor' <= Len(input) - LastLiterals
    <3>1. ip' = at /\ anchor' = ip + length
      BY <2>1
    <3> HIDE DEF at, n
    <3>2. ip + length <= End - LastLiterals /\ ip + length \in Nat
      BY <2>5, <1>3, <1>4, <1>5, <1>8, <1>14 DEF n
    <3> QED
      BY <3>1, <3>2, <2>9, <1>3, <1>4, <1>5
  <2>13. Types'
    BY <1>1, <1>2, <2>4, <2>11, <2>12 DEF Types, Coders
  <2>14. Resting'
    BY <2>11 DEF Resting
  <2>15. BlockSays'
    BY <1>1, <1>2, <1>9, <1>16, <2>1, <2>8, WroteBlock
  <2>16. ThirdHolds(input, at, ip + length, lazy')
    <3> DEFINE l == lazy'
    <3>1. l.m1 = rest /\ l.start2 = start3 /\ l.m2 = m3
      BY <2>4
    <3> HIDE DEF l, at
    <3>2. ThirdHolds(input, at, ip + length, l)
      BY <2>2, <2>9, <2>10, <3>1 DEF ThirdHolds
    <3> QED
      BY <3>2 DEF l
  <2>17. Places'
    <3> HIDE DEF at
    <3>1. ip' = at /\ anchor' = ip + length
      BY <2>1 DEF at
    <3> QED
      BY <1>1, <3>1, <2>11, <2>12, <2>16 DEF Places
  <2> QED
    BY <2>13, <2>14, <2>15, <2>17 DEF BlockInv
<1> QED
  BY <1>1, <1>18, <1>19, <1>20, <1>21

\* Every step keeps the invariant.
LEMMA BlockStep == BlockInv /\ [BlockNext]_blockVars => BlockInv'
<1> SUFFICES ASSUME BlockInv, [BlockNext]_blockVars PROVE BlockInv'
  OBVIOUS
<1>1. CASE CompressBlock \/ AdaptBlock \/ SendBlock \/ NextBlock
  BY <1>1, CompressBlockKeeps, AdaptBlockKeeps, SendBlockKeeps, NextBlockKeeps
<1>2. CASE FirstByte \/ ProbeEnds \/ ProbeMisses \/ ProbeHits \/ WriteMatch \/ MatchAgain
  BY <1>2, FirstByteKeeps, ProbeEndsKeeps, ProbeMissesKeeps, ProbeHitsKeeps, WriteMatchKeeps,
     MatchAgainKeeps
<1>3. CASE ChainEnds \/ ChainSearch \/ SecondSearch \/ ThirdSearch
  BY <1>3, ChainEndsKeeps, ChainSearchKeeps, SecondSearchKeeps, ThirdSearchKeeps
<1>4. CASE WriteLast
  BY <1>4, WriteLastKeeps
<1>5. CASE DecodeSequence
  BY <1>5, DecodeSequenceKeeps
<1>6. CASE UNCHANGED blockVars
  <2>1. /\ coder' = coder /\ lz4Frames' = lz4Frames /\ input' = input /\ ip' = ip
        /\ anchor' = anchor /\ table' = table /\ forward' = forward /\ match' = match
        /\ lazy' = lazy /\ block' = block /\ restored' = restored
    BY <1>6 DEF blockVars
  <2>2. Types'
    BY <2>1 DEF BlockInv, Types
  <2>3. Resting'
    BY <2>1 DEF BlockInv, Resting
  <2>4. BlockSays'
    BY <2>1 DEF BlockInv, BlockSays
  <2>5. Places'
    BY <2>1 DEF BlockInv, Places
  <2> QED
    BY <2>2, <2>3, <2>4, <2>5 DEF BlockInv
<1> QED
  BY <1>1, <1>2, <1>3, <1>4, <1>5, <1>6 DEF BlockNext

\* What is written always stands for the picture up to the anchor, whatever the encoders decide.
THEOREM BlockInvariant == BlockSpec => []BlockInv
<1>1. BlockInit => BlockInv
  BY BlockStarts
<1>2. BlockInv /\ [BlockNext]_blockVars => BlockInv'
  BY BlockStep
<1> QED
  BY <1>1, <1>2, PTL DEF BlockSpec

\* For every set of pictures, every size of the table and the window and every number of attempts,
\* no encoder writes past the capacity CmdBlit gives it (groovymister.cpp:1083-1131), and a block
\* that it makes there is taken by the decoder and decodes to the picture.
THEOREM BlockRoundTripHolds == BlockSpec => []BlockRoundTrip
<1>1. BlockInv => BlockRoundTrip
  <2> SUFFICES ASSUME BlockInv PROVE BlockRoundTrip
    OBVIOUS
  <2>1. Types /\ BlockSays
    BY DEF BlockInv
  <2>2. BlockInCapacity
    <3>1. block.touched \in 0 .. Len(input)
      BY <2>1 DEF BlockSays, IsBlock
    <3>2. IsPicture(input)
      BY <2>1 DEF Types
    <3>3. Len(input) \in Nat
      BY <3>2 DEF IsPicture
    <3> QED
      BY <3>1, <3>3 DEF BlockInCapacity, End
  <2>3. BlockDecodes
    BY <2>1 DEF Types, Coders, BlockSays, BlockDecodes
  <2> QED
    BY <2>2, <2>3 DEF BlockRoundTrip
<1> QED
  BY <1>1, BlockInvariant, PTL

\* The variables of the codec keep their types.
THEOREM BlockTypes == BlockSpec => []BlockTypeOK
<1>1. BlockInv => BlockTypeOK
  <2> SUFFICES ASSUME BlockInv PROVE BlockTypeOK
    OBVIOUS
  <2>1. /\ coder \in Coders /\ lz4Frames \in 1 .. 6
        /\ (input = <<>> \/ input \in Pictures)
        /\ ip \in 0 .. End /\ anchor \in 0 .. End /\ match \in 0 .. End
        /\ table \in [Indexes -> 0 .. End]
    BY DEF BlockInv, Types, End
  <2> QED
    BY <2>1 DEF BlockTypeOK, Coders, Indexes
<1> QED
  BY <1>1, BlockInvariant, PTL
=============================================================================
