-------------------------- MODULE PaneStreamProofs --------------------------
(***************************************************************************)
(* Proofs about PaneStream, for any limits of the ring, the tap and the    *)
(* pane, any chunk lengths and any faults.                                 *)
(***************************************************************************)
EXTENDS PaneStream, CommonLemmas

(* A frame or a gap with something in it.                                  *)
Part == {i \in Items : i.from < i.to}
FrameParts == {i \in Part : IsFrame(i)}

(* The limits are natural numbers.                                         *)
LEMMA Limits ==
    /\ RingCap \in Nat /\ TrimSlack \in Nat /\ CutWindow \in Nat /\ SgrLen \in Nat /\ QueueDepth \in Nat
    /\ QueueBytes \in Nat /\ MergeCeiling \in Nat /\ TurnBytes \in Nat /\ TurnBytes > 0 /\ ReplayBytes \in Nat
    /\ PendingCap \in Nat /\ MaxOutput \in Nat /\ Chunks \subseteq Nat \ {0}
BY PaneStreamAssumption

(* The parts of a part.                                                    *)
LEMMA PartFacts ==
    ASSUME NEW i \in Part
    PROVE  /\ i \in Items /\ i.kind \in {"frame", "gap"} /\ i.from \in Nat /\ i.to \in Nat
           /\ i.from < i.to /\ i.to <= MaxOutput /\ Size(i) \in Nat
           /\ (IsFrame(i) => Size(i) = i.to - i.from /\ Size(i) > 0) /\ (~IsFrame(i) => Size(i) = 0)
BY PaneStreamAssumption DEF Part, Items, Offsets, Size, IsFrame

-----------------------------------------------------------------------------
(* Bytes and frames of a sequence                                          *)

(* The running sums of the sizes.                                          *)
Sums(f, s) == f \in [0 .. Len(s) -> Nat] /\ f[0] = 0 /\ \A k \in 1 .. Len(s) : f[k] = f[k - 1] + Size(s[k])

(* Every queue has its partial sums of bytes.                              *)
LEMMA SumsExist ==
    ASSUME NEW s \in Seq(Part)
    PROVE  \E f : Sums(f, s)
<1> DEFINE C == Len(s)
           step == [p \in Nat \X Nat |-> IF p[1] \in 1 .. C THEN p[2] + Size(s[p[1]]) ELSE p[2]]
<1>1. C \in Nat /\ \A k \in 1 .. C : s[k] \in Part /\ Size(s[k]) \in Nat
  BY PartFacts
<1> HIDE DEF C
<1>2. step \in [Nat \X Nat -> Nat]
  BY <1>1
<1>3. \E f : Iteration(f, Nat, 0, step, C)
  <2> HIDE DEF step
  <2> QED BY <1>1, <1>2, Iterates
<1>4. PICK f \in [0 .. C -> Nat] : f[0] = 0 /\ \A k \in 1 .. C : f[k] = step[<<k, f[k - 1]>>]
  <2> HIDE DEF step
  <2> QED BY <1>3 DEF Iteration
<1>5. ASSUME NEW k \in 1 .. C PROVE f[k] = f[k - 1] + Size(s[k])
  <2>1. k - 1 \in 0 .. C /\ k \in Nat /\ f[k - 1] \in Nat
    BY <1>1, <1>4
  <2> QED BY <1>4, <2>1
<1>6. Sums(f, s)
  BY <1>4, <1>5 DEF Sums, C
<1> QED BY <1>6

(* The bytes of a queue are the last of its partial sums.                  *)
LEMMA BytesAreSums ==
    ASSUME NEW s \in Seq(Part), NEW f, Sums(f, s)
    PROVE  Bytes(s) = f[Len(s)] /\ Bytes(s) \in Nat
<1> DEFINE C == Len(s)
           Solves(g) == g = [k \in 0 .. C |-> IF k = 0 THEN 0 ELSE g[k - 1] + Size(s[k])]
           g == CHOOSE h : Solves(h)
           T == {k \in Nat : k \in 0 .. C => g[k] = f[k]}
<1>1. C \in Nat /\ 0 \in 0 .. C /\ C \in 0 .. C
  OBVIOUS
<1>2. f \in [0 .. C -> Nat] /\ f[0] = 0 /\ \A k \in 1 .. C : f[k] = f[k - 1] + Size(s[k])
  BY DEF Sums
<1> HIDE DEF C
<1>3. Solves(f)
  <2>1. \A k \in 0 .. C : f[k] = IF k = 0 THEN 0 ELSE f[k - 1] + Size(s[k])
    BY <1>1, <1>2
  <2> QED BY <1>2, <2>1, f = [k \in 0 .. C |-> f[k]]
<1>4. Solves(g)
  BY <1>3
<1>5. Bytes(s) = g[C]
  BY DEF Bytes, C
<1> HIDE DEF g
<1>6. 0 \in T
  BY <1>1, <1>2, <1>4
<1>7. ASSUME NEW k \in Nat, k \in T PROVE k + 1 \in T
  <2> SUFFICES ASSUME k + 1 \in 0 .. C PROVE g[k + 1] = f[k + 1]
    OBVIOUS
  <2>1. k \in 0 .. C /\ k + 1 # 0 /\ (k + 1) - 1 = k /\ k + 1 \in 1 .. C
    BY <1>1
  <2>2. g[k] = f[k] /\ g[k + 1] = g[k] + Size(s[k + 1])
    BY <1>4, <1>7, <2>1
  <2> QED BY <1>2, <2>1, <2>2
<1> HIDE DEF T
<1>8. C \in T
  BY <1>1, <1>6, <1>7, SetInduction
<1>9. g[C] = f[C] /\ f[C] \in Nat
  BY <1>1, <1>2, <1>8 DEF T
<1> QED BY <1>5, <1>9 DEF C

(* What a sequence weighs: none, and one more at the end.                  *)
LEMMA EmptyWeighs == Bytes(<< >>) = 0 /\ FramesIn(<< >>) = 0
<1>1. << >> \in Seq(Part)
  OBVIOUS
<1>2. PICK f : Sums(f, << >>)
  BY <1>1, SumsExist
<1>3. Bytes(<< >>) = f[Len(<< >>)]
  BY <1>1, <1>2, BytesAreSums
<1>4. Len(<< >>) = 0
  OBVIOUS
<1>5. Bytes(<< >>) = 0
  BY <1>2, <1>3, <1>4 DEF Sums
<1>6. {i \in DOMAIN << >> : IsFrame(<< >>[i])} = {}
  OBVIOUS
<1> QED BY <1>5, <1>6, FS_EmptySet DEF FramesIn

(* The frames of a queue are counted by the places that hold one.          *)
LEMMA FramesArePlaces ==
    ASSUME NEW s \in Seq(Part)
    PROVE  FramesIn(s) = Cardinality(Places(s, FrameParts)) /\ FramesIn(s) \in Nat
<1>1. {i \in DOMAIN s : IsFrame(s[i])} = Places(s, FrameParts)
  BY DEF Places, FrameParts
<1> QED BY <1>1, PlacesFinite DEF FramesIn

(* An item appended adds its own bytes, and one frame when it is a frame.  *)
LEMMA AppendWeighs ==
    ASSUME NEW s \in Seq(Part), NEW x \in Part
    PROVE  /\ Append(s, x) \in Seq(Part)
           /\ Bytes(Append(s, x)) = Bytes(s) + Size(x)
           /\ FramesIn(Append(s, x)) = FramesIn(s) + (IF IsFrame(x) THEN 1 ELSE 0)
           /\ Bytes(s) \in Nat /\ FramesIn(s) \in Nat
<1> DEFINE n == Len(s)
           t == Append(s, x)
<1>0. n \in Nat /\ t \in Seq(Part) /\ Len(t) = n + 1 /\ t[n + 1] = x /\ \A k \in 1 .. n : t[k] = s[k]
  OBVIOUS
<1>1. PICK f : Sums(f, s)
  BY SumsExist
<1> DEFINE g == [k \in 0 .. n + 1 |-> IF k = n + 1 THEN f[n] + Size(x) ELSE f[k]]
<1>2. f \in [0 .. n -> Nat] /\ f[0] = 0 /\ (\A k \in 1 .. n : f[k] = f[k - 1] + Size(s[k])) /\ f[n] \in Nat
  BY <1>0, <1>1 DEF Sums
<1>3. Size(x) \in Nat
  BY PartFacts
<1>4. g \in [0 .. n + 1 -> Nat]
  BY <1>0, <1>2, <1>3
<1>5. g[0] = 0 /\ g[n + 1] = f[n] + Size(x)
  BY <1>0, <1>2
<1>6. ASSUME NEW k \in 1 .. n + 1 PROVE g[k] = g[k - 1] + Size(t[k])
  <2>1. CASE k = n + 1
    <3>1. k - 1 = n /\ g[n] = f[n] /\ t[k] = x
      BY <1>0, <2>1
    <3> QED BY <1>5, <2>1, <3>1
  <2>2. CASE k # n + 1
    <3>1. k \in 1 .. n /\ k - 1 \in 0 .. n /\ k - 1 # n + 1
      BY <1>0, <1>6, <2>2
    <3>2. g[k] = f[k] /\ g[k - 1] = f[k - 1] /\ t[k] = s[k]
      BY <1>0, <2>2, <3>1
    <3> QED BY <1>2, <3>1, <3>2
  <2> QED BY <2>1, <2>2
<1>7. Sums(g, t)
  <2> HIDE DEF g, t, n
  <2> QED BY <1>0, <1>4, <1>5, <1>6 DEF Sums
<1>8. Bytes(t) = g[n + 1] /\ Bytes(s) = f[n] /\ Bytes(s) \in Nat
  <2> HIDE DEF g, t
  <2> QED BY <1>0, <1>1, <1>7, BytesAreSums
<1>9. FramesIn(t) = FramesIn(s) + (IF IsFrame(x) THEN 1 ELSE 0)
  <2>1. x \in FrameParts <=> IsFrame(x)
    BY DEF FrameParts
  <2>2. Cardinality(Places(t, FrameParts)) = Cardinality(Places(s, FrameParts)) + (IF x \in FrameParts THEN 1 ELSE 0)
    BY CountAppend
  <2> QED BY <1>0, <2>1, <2>2, FramesArePlaces
<1> QED BY <1>0, <1>5, <1>8, <1>9, FramesArePlaces

(* Two sequences with the same members are the same.                       *)
LEMMA SameSequence ==
    ASSUME NEW X, NEW s \in Seq(X), NEW t \in Seq(X), Len(s) = Len(t), \A i \in 1 .. Len(s) : s[i] = t[i]
    PROVE  s = t
OBVIOUS

(* Appending to the second of two sequences.                               *)
LEMMA ConcatAppend ==
    ASSUME NEW X, NEW s \in Seq(X), NEW v \in Seq(X), NEW x \in X
    PROVE  s \o Append(v, x) = Append(s \o v, x) /\ s \o v \in Seq(X)
<1> DEFINE a == s \o Append(v, x)
           b == Append(s \o v, x)
<1>1. s \o v \in Seq(X) /\ a \in Seq(X) /\ b \in Seq(X) /\ Len(a) = Len(s) + Len(v) + 1 /\ Len(b) = Len(a)
      /\ Len(s) \in Nat /\ Len(v) \in Nat
  OBVIOUS
<1>2. ASSUME NEW i \in 1 .. Len(a) PROVE a[i] = b[i]
  <2>1. CASE i <= Len(s)
    BY <1>1, <2>1
  <2>2. CASE i > Len(s) /\ i <= Len(s) + Len(v)
    BY <1>1, <2>2
  <2>3. CASE i > Len(s) + Len(v)
    BY <1>1, <2>3
  <2> QED BY <1>1, <2>1, <2>2, <2>3
<1> HIDE DEF a, b
<1>3. a = b
  BY <1>1, <1>2, SameSequence
<1> QED BY <1>1, <1>3 DEF a, b

(* The members from some place on.                                         *)
LEMMA RestMembers ==
    ASSUME NEW X, NEW s \in Seq(X), NEW n \in 0 .. Len(s)
    PROVE  /\ Len(SubSeq(s, n + 1, Len(s))) = Len(s) - n
           /\ \A i \in 1 .. Len(s) - n : SubSeq(s, n + 1, Len(s))[i] = s[n + i]
OBVIOUS

(* A sequence is its first members with the others behind them.            *)
LEMMA SplitSequence ==
    ASSUME NEW X, NEW s \in Seq(X), NEW n \in 0 .. Len(s)
    PROVE  /\ SubSeq(s, 1, n) \in Seq(X) /\ SubSeq(s, n + 1, Len(s)) \in Seq(X)
           /\ s = SubSeq(s, 1, n) \o SubSeq(s, n + 1, Len(s))
<1> DEFINE h == SubSeq(s, 1, n)
           r == SubSeq(s, n + 1, Len(s))
           t == h \o r
<1>1. /\ Len(s) \in Nat /\ n \in Nat /\ n <= Len(s) /\ h \in Seq(X) /\ Len(h) = n /\ r \in Seq(X)
      /\ Len(r) = Len(s) - n /\ (\A i \in 1 .. n : h[i] = s[i]) /\ \A i \in 1 .. Len(r) : r[i] = s[n + i]
  <2>1. Len(s) \in Nat /\ n \in Nat /\ n <= Len(s)
    OBVIOUS
  <2>2. h \in Seq(X) /\ Len(h) = n /\ \A i \in 1 .. n : h[i] = s[i]
    BY <2>1
  <2>3. r \in Seq(X)
    BY <2>1
  <2>4. Len(r) = Len(s) - n /\ \A i \in 1 .. Len(s) - n : r[i] = s[n + i]
    BY RestMembers
  <2> HIDE DEF h, r
  <2> QED BY <2>1, <2>2, <2>3, <2>4
<1> HIDE DEF h, r
<1>2. t \in Seq(X) /\ Len(t) = n + Len(r)
  BY <1>1
<1>3. Len(t) = Len(s)
  BY <1>1, <1>2
<1>4. ASSUME NEW i \in 1 .. Len(s) PROVE t[i] = s[i]
  <2>1. CASE i <= n
    BY <1>1, <2>1
  <2>2. CASE i > n
    <3>1. i - n \in 1 .. Len(r) /\ n + (i - n) = i
      BY <1>1, <2>2
    <3>2. t[i] = r[i - n]
      BY <1>1, <2>2, <3>1
    <3> QED BY <1>1, <3>1, <3>2
  <2> QED BY <1>1, <2>1, <2>2
<1> HIDE DEF t
<1>5. t = s
  BY <1>2, <1>3, <1>4, SameSequence
<1> QED BY <1>1, <1>5 DEF h, r, t

(* One sequence behind another weighs what both do.                        *)
LEMMA ConcatWeighs ==
    ASSUME NEW s \in Seq(Part), NEW t \in Seq(Part)
    PROVE  /\ s \o t \in Seq(Part)
           /\ Bytes(s \o t) = Bytes(s) + Bytes(t) /\ FramesIn(s \o t) = FramesIn(s) + FramesIn(t)
<1> DEFINE Holds(u) == Bytes(s \o u) = Bytes(s) + Bytes(u) /\ FramesIn(s \o u) = FramesIn(s) + FramesIn(u)
           T == {n \in Nat : \A u \in Seq(Part) : Len(u) = n => Holds(u)}
<1>0. Bytes(s) \in Nat /\ FramesIn(s) \in Nat
  BY SumsExist, BytesAreSums, FramesArePlaces
<1>1. 0 \in T
  <2>1. ASSUME NEW u \in Seq(Part), Len(u) = 0 PROVE Holds(u)
    <3>1. u = << >> /\ s \o u = s
      BY <2>1
    <3> QED BY <1>0, <3>1, EmptyWeighs
  <2> QED BY <2>1
<1>2. ASSUME NEW n \in Nat, n \in T PROVE n + 1 \in T
  <2>1. ASSUME NEW u \in Seq(Part), Len(u) = n + 1 PROVE Holds(u)
    <3> DEFINE v == SubSeq(u, 1, n)
               x == u[n + 1]
    <3>1. v \in Seq(Part) /\ Len(v) = n /\ x \in Part /\ u = Append(v, x)
      BY <2>1
    <3> HIDE DEF v, x
    <3>2. s \o u = Append(s \o v, x) /\ s \o v \in Seq(Part)
      BY <3>1, ConcatAppend
    <3>3. Holds(v)
      BY <1>2, <3>1
    <3>4. Bytes(u) = Bytes(v) + Size(x) /\ FramesIn(u) = FramesIn(v) + (IF IsFrame(x) THEN 1 ELSE 0)
      BY <3>1, AppendWeighs
    <3>5. /\ Bytes(s \o u) = Bytes(s \o v) + Size(x)
          /\ FramesIn(s \o u) = FramesIn(s \o v) + (IF IsFrame(x) THEN 1 ELSE 0)
      <4> DEFINE w == s \o v
      <4>1. w \in Seq(Part) /\ s \o u = Append(w, x)
        BY <3>2
      <4> HIDE DEF w
      <4>2. Bytes(Append(w, x)) = Bytes(w) + Size(x) /\ FramesIn(Append(w, x)) = FramesIn(w) + (IF IsFrame(x) THEN 1 ELSE 0)
        BY <3>1, <4>1, AppendWeighs
      <4> QED BY <4>1, <4>2 DEF w
    <3>6. Bytes(v) \in Nat /\ FramesIn(v) \in Nat /\ Size(x) \in Nat
      BY <3>1, AppendWeighs, PartFacts
    <3>7. Bytes(s \o u) = Bytes(s) + Bytes(u)
      <4>1. Bytes(s \o u) = (Bytes(s) + Bytes(v)) + Size(x)
        BY <3>3, <3>5
      <4>2. Bytes(s) \in Nat /\ Bytes(v) \in Nat /\ Size(x) \in Nat /\ Bytes(u) = Bytes(v) + Size(x)
        BY <1>0, <3>4, <3>6
      <4> QED BY <4>1, <4>2
    <3>8. FramesIn(s \o u) = FramesIn(s) + FramesIn(u)
      <4> DEFINE d == IF IsFrame(x) THEN 1 ELSE 0
      <4>1. FramesIn(s \o u) = (FramesIn(s) + FramesIn(v)) + d
        BY <3>3, <3>5
      <4>2. FramesIn(s) \in Nat /\ FramesIn(v) \in Nat /\ d \in Nat /\ FramesIn(u) = FramesIn(v) + d
        BY <1>0, <3>4, <3>6
      <4> HIDE DEF d
      <4> QED BY <4>1, <4>2
    <3> QED BY <3>7, <3>8
  <2> QED BY <2>1
<1> HIDE DEF T
<1>3. Len(t) \in T
  BY <1>1, <1>2, SetInduction, Len(t) \in Nat
<1> QED BY <1>3 DEF T

-----------------------------------------------------------------------------
(* Sequences of items without a hole or an overlap                         *)

Tiling(s) == \A i \in 1 .. Len(s) - 1 : s[i].to = s[i + 1].from

(* Such a sequence, that ends at an offset if there is anything in it.     *)
Chain(s, end) == Tiling(s) /\ (s # << >> => Last(s).to = end)

(* Nothing is a chain up to any offset.                                    *)
LEMMA EmptyChain == ASSUME NEW end PROVE Chain(<< >>, end)
BY DEF Chain, Tiling

(* An item behind a sequence makes a chain if the sequence is one up to    *)
(* where the item starts.                                                  *)
LEMMA ChainAppend ==
    ASSUME NEW s \in Seq(Part), NEW x \in Part, NEW end
    PROVE  Chain(Append(s, x), end) <=> Chain(s, x.from) /\ x.to = end
<1> DEFINE n == Len(s)
           t == Append(s, x)
<1>1. n \in Nat /\ t \in Seq(Part) /\ Len(t) = n + 1 /\ t[n + 1] = x /\ t # << >>
      /\ (\A k \in 1 .. n : t[k] = s[k]) /\ (s = << >> <=> n = 0) /\ Last(t) = x /\ Last(s) = s[n]
  BY DEF Last
<1> HIDE DEF n, t
<1>2. ASSUME Chain(t, end) PROVE Chain(s, x.from) /\ x.to = end
  <2>1. Tiling(t) /\ x.to = end
    BY <1>1, <1>2 DEF Chain
  <2>2. \A i \in 1 .. n : t[i].to = t[i + 1].from
    BY <1>1, <2>1 DEF Tiling
  <2>3. \A i \in 1 .. n - 1 : s[i].to = s[i + 1].from
    <3> TAKE i \in 1 .. n - 1
    <3>1. i \in 1 .. n /\ i + 1 \in 1 .. n
      BY <1>1
    <3> QED BY <1>1, <2>2, <3>1
  <2>4. s # << >> => s[n].to = x.from
    BY <1>1, <2>2
  <2> QED BY <1>1, <2>1, <2>3, <2>4 DEF Chain, Tiling, n
<1>3. ASSUME Chain(s, x.from), x.to = end PROVE Chain(t, end)
  <2>1. (\A i \in 1 .. n - 1 : s[i].to = s[i + 1].from) /\ (s # << >> => s[n].to = x.from)
    BY <1>1, <1>3 DEF Chain, Tiling, n
  <2>2. \A i \in 1 .. n : t[i].to = t[i + 1].from
    <3> TAKE i \in 1 .. n
    <3>1. CASE i = n
      BY <1>1, <2>1, <3>1
    <3>2. CASE i # n
      <4>1. i \in 1 .. n - 1 /\ i + 1 \in 1 .. n
        BY <1>1, <3>2
      <4> QED BY <1>1, <2>1, <4>1
    <3> QED BY <3>1, <3>2
  <2> QED BY <1>1, <1>3, <2>2 DEF Chain, Tiling
<1> QED BY <1>2, <1>3 DEF t

(* What is left of a chain from some item on, that item shortened or not.  *)
LEMMA ChainRest ==
    ASSUME NEW s \in Seq(Part), NEW end, Chain(s, end), NEW n \in 0 .. Len(s), NEW r \in Seq(Part),
           Len(r) = Len(s) - n, \A i \in 1 .. Len(r) : r[i].to = s[n + i].to,
           \A i \in 2 .. Len(r) : r[i].from = s[n + i].from
    PROVE  Chain(r, end)
<1>1. Len(s) \in Nat /\ Len(r) \in Nat /\ n \in Nat /\ (r = << >> <=> Len(r) = 0) /\ (Len(s) # 0 => s # << >>)
  OBVIOUS
<1>2. ASSUME NEW i \in 1 .. Len(r) - 1 PROVE r[i].to = r[i + 1].from
  <2>1. i \in 1 .. Len(r) /\ i + 1 \in 2 .. Len(r) /\ n + i \in 1 .. Len(s) - 1 /\ n + (i + 1) = (n + i) + 1
    BY <1>1
  <2>2. s[n + i].to = s[(n + i) + 1].from
    BY <2>1 DEF Chain, Tiling
  <2> QED BY <2>1, <2>2
<1>3. ASSUME r # << >> PROVE Last(r).to = end
  <2>1. Len(r) \in 1 .. Len(r) /\ n + Len(r) = Len(s) /\ s # << >>
    BY <1>1, <1>3
  <2>2. s[Len(s)].to = end
    BY <2>1 DEF Chain, Last
  <2> QED BY <2>1, <2>2 DEF Last
<1> QED BY <1>2, <1>3 DEF Chain, Tiling

(* A chain's items are in order.                                           *)
LEMMA ChainOrder ==
    ASSUME NEW s \in Seq(Part), NEW end, Chain(s, end), NEW i \in 1 .. Len(s), NEW j \in 1 .. Len(s), i <= j
    PROVE  s[i].to <= s[j].to
<1> DEFINE T == {d \in Nat : i + d \in 1 .. Len(s) => s[i].to <= s[i + d].to}
<1>0. Len(s) \in Nat /\ \A k \in 1 .. Len(s) : s[k].to \in Nat /\ s[k].from \in Nat /\ s[k].from < s[k].to
  BY PartFacts
<1>1. 0 \in T
  BY <1>0
<1>2. ASSUME NEW d \in Nat, d \in T PROVE d + 1 \in T
  <2> SUFFICES ASSUME i + (d + 1) \in 1 .. Len(s) PROVE s[i].to <= s[i + (d + 1)].to
    OBVIOUS
  <2> DEFINE k == i + d
  <2>1. k \in 1 .. Len(s) - 1 /\ k \in 1 .. Len(s) /\ k + 1 \in 1 .. Len(s) /\ i + (d + 1) = k + 1
    BY <1>0
  <2>2. s[k].to = s[k + 1].from /\ s[i].to <= s[k].to
    BY <1>2, <2>1 DEF Chain, Tiling
  <2>3. s[i + (d + 1)] = s[k + 1]
    BY <2>1
  <2>4. s[k + 1].from < s[k + 1].to /\ s[i].to \in Nat /\ s[k].to \in Nat /\ s[k + 1].to \in Nat
    BY <1>0, <2>1
  <2> HIDE DEF k
  <2> QED BY <2>2, <2>3, <2>4
<1> HIDE DEF T
<1>3. j - i \in T
  BY <1>1, <1>2, SetInduction, j - i \in Nat
<1> QED BY <1>3 DEF T

-----------------------------------------------------------------------------
(* The tap                                                                 *)

Taps ==
    [queue : Seq(Part), pending : FrameParts \cup {None}, frames : Nat, bytes : Nat,
     dropping : BOOLEAN, anchor : Offsets, dropped : Offsets, cutoff : Offsets]

(* The queue with the pending frame behind it.                             *)
Queued(t) == Finalized(t).queue

(* The mark for no pending frame is no item of a queue.                    *)
LEMMA NoneIsNoItem == None \notin Items /\ None \notin Part /\ None \notin FrameParts
BY DEF None, Items, Part, FrameParts

(* The fields of a tap, and what it holds with the pending frame at the    *)
(* end.                                                                    *)
LEMMA TapFacts ==
    ASSUME NEW t \in Taps
    PROVE  /\ t.queue \in Seq(Part) /\ t.pending \in FrameParts \cup {None} /\ t.frames \in Nat
           /\ t.bytes \in Nat /\ t.dropping \in BOOLEAN /\ t.anchor \in Nat /\ t.dropped \in Nat
           /\ t.cutoff \in Nat
           /\ Queued(t) = (IF t.pending = None THEN t.queue ELSE Append(t.queue, t.pending))
           /\ Queued(t) \in Seq(Part)
<1>1. /\ t.queue \in Seq(Part) /\ t.pending \in FrameParts \cup {None} /\ t.frames \in Nat
      /\ t.bytes \in Nat /\ t.dropping \in BOOLEAN /\ t.anchor \in Nat /\ t.dropped \in Nat /\ t.cutoff \in Nat
  BY DEF Taps, Offsets
<1>2. Queued(t) = (IF t.pending = None THEN t.queue ELSE Append(t.queue, t.pending))
  BY DEF Queued, Finalized, Taps
<1>3. t.pending # None => t.pending \in Part
  BY <1>1 DEF FrameParts
<1> QED BY <1>1, <1>2, <1>3

(* The tap accounts for the output up to an offset, is within its limits   *)
(* and counts what it holds; nothing a reply covers is left in it.         *)
Tiles(t, end) ==
    /\ t \in Taps
    /\ Chain(Queued(t), IF t.dropping THEN t.anchor ELSE end)
    /\ t.dropping => t.dropped > 0 /\ t.anchor + t.dropped = end
    /\ ~t.dropping => t.dropped = 0
    /\ (Queued(t) # << >> \/ t.dropping) => t.cutoff < end
    /\ t.frames = FramesIn(Queued(t)) /\ t.frames <= QueueDepth
    /\ t.bytes = Bytes(Queued(t)) /\ t.bytes <= QueueBytes

(* A tap that was just made.                                               *)
LEMMA NewTapTiles ==
    ASSUME NEW end \in Nat
    PROVE  Tiles(NewTap, end)
<1>1. NewTap \in Taps /\ Queued(NewTap) = << >> /\ NewTap.dropping = FALSE
  BY PaneStreamAssumption DEF NewTap, Taps, Queued, Finalized, None, Offsets
<1>2. NewTap.frames = 0 /\ NewTap.bytes = 0 /\ NewTap.dropped = 0
  BY DEF NewTap
<1> QED BY <1>1, <1>2, EmptyWeighs, EmptyChain, PaneStreamAssumption DEF Tiles

(* The frame an offer may be merged into is the last one queued.           *)
LEMMA LastQueued ==
    ASSUME NEW t \in Taps, LastFrame(t) # None
    PROVE  /\ LastFrame(t) \in FrameParts
           /\ \E q \in Seq(Part) : /\ Queued(t) = Append(q, LastFrame(t))
                                   /\ t.pending # None => q = t.queue
                                   /\ t.pending = None => q = Front(t.queue)
<1>1. CASE t.pending # None
  BY <1>1, TapFacts DEF LastFrame
<1>2. CASE t.pending = None
  <2> DEFINE q == t.queue
             n == Len(q)
  <2>1. q # << >> /\ IsFrame(Last(q)) /\ LastFrame(t) = Last(q) /\ Queued(t) = q /\ q \in Seq(Part)
    BY <1>2, TapFacts DEF LastFrame
  <2> HIDE DEF q
  <2>2. n \in Nat /\ n > 0 /\ q[n] \in Part /\ Last(q) = q[n] /\ Front(q) = SubSeq(q, 1, n - 1)
    BY <2>1 DEF Last, Front
  <2>3. Front(q) \in Seq(Part) /\ q = Append(Front(q), q[n])
    BY <2>1, <2>2
  <2> QED BY <1>2, <2>1, <2>2, <2>3 DEF FrameParts, q
<1> QED BY <1>1, <1>2

(* The gap of an open episode is an item, from its anchor up to the end.   *)
LEMMA GapPart ==
    ASSUME NEW t, NEW end \in Offsets, Tiles(t, end), t.dropping
    PROVE  /\ Gap(t.anchor, t.dropped) \in Part /\ ~IsFrame(Gap(t.anchor, t.dropped))
           /\ Gap(t.anchor, t.dropped).from = t.anchor /\ Gap(t.anchor, t.dropped).to = end
           /\ OpenGap(t) = <<Gap(t.anchor, t.dropped)>>
<1>1. t.anchor \in Nat /\ t.dropped \in Nat /\ t.dropped > 0 /\ t.anchor + t.dropped = end
  BY TapFacts DEF Tiles
<1> QED BY <1>1, PaneStreamAssumption DEF Gap, Part, Items, Offsets, IsFrame, OpenGap

(* An offer behind an open drop episode is never merged.                   *)
LEMMA NoMerge ==
    ASSUME NEW t, NEW end \in Offsets, Tiles(t, end), t.dropping, NEW f \in FrameParts, f.from = end
    PROVE  ~Merges(t, f)
<1> SUFFICES ASSUME LastFrame(t) # None, LastFrame(t).to = end PROVE FALSE
  BY DEF Merges
<1>1. t \in Taps /\ Chain(Queued(t), t.anchor) /\ t.dropped > 0 /\ t.anchor + t.dropped = end
  BY DEF Tiles
<1>2. PICK q \in Seq(Part) : Queued(t) = Append(q, LastFrame(t))
  BY <1>1, LastQueued
<1>3. LastFrame(t) \in Part
  BY <1>1, LastQueued DEF FrameParts
<1>4. LastFrame(t).to = t.anchor
  BY <1>1, <1>2, <1>3, ChainAppend
<1> QED BY <1>1, <1>4, TapFacts

(* An offer the tap drops: the episode ends where the frame does.          *)
LEMMA DropTiles ==
    ASSUME NEW t, NEW end \in Offsets, Tiles(t, end), NEW f \in FrameParts, f.from = end, ~Covered(t, f)
    PROVE  Tiles(RecordDrop(t, f), f.to)
<1> DEFINE u == RecordDrop(t, f)
<1>0. t \in Taps /\ t.dropping \in BOOLEAN /\ t.anchor \in Nat /\ t.dropped \in Nat /\ t.cutoff \in Nat /\ end \in Nat
  BY TapFacts DEF Tiles, Offsets
<1>1. /\ f.to \in Nat /\ f.to <= MaxOutput /\ f.from < f.to /\ Size(f) = f.to - f.from /\ f.from \in Nat
      /\ Size(f) \in Nat /\ Size(f) > 0
  BY PartFacts DEF FrameParts
<1>2. /\ u.dropping = TRUE /\ u.anchor = (IF t.dropping THEN t.anchor ELSE end) /\ u.dropped = t.dropped + Size(f)
      /\ u.cutoff = t.cutoff /\ u.frames = t.frames /\ u.bytes = t.bytes /\ u.queue = t.queue
      /\ u.pending = t.pending
  BY <1>0 DEF RecordDrop, Taps
<1>3. /\ t.dropping => t.dropped > 0 /\ t.anchor + t.dropped = end
      /\ ~t.dropping => t.dropped = 0
  BY DEF Tiles
<1>4. u.anchor \in Offsets /\ u.dropped \in Offsets /\ u.dropped > 0 /\ u.anchor + u.dropped = f.to
  BY <1>0, <1>1, <1>2, <1>3, PaneStreamAssumption DEF Offsets
<1>5. u \in Taps
  <2>1. u = [t EXCEPT !.dropped = u.dropped, !.dropping = TRUE, !.anchor = u.anchor]
    BY <1>0, <1>2 DEF RecordDrop, Taps
  <2> HIDE DEF u
  <2> QED BY <1>0, <1>4, <2>1 DEF Taps
<1>6. Queued(u) = Queued(t)
  BY <1>0, <1>2, <1>5, TapFacts
<1>7. Chain(Queued(u), u.anchor)
  BY <1>2, <1>6 DEF Tiles
<1>8. u.cutoff < f.to
  BY <1>0, <1>1, <1>2 DEF Covered
<1> HIDE DEF u
<1>9. Tiles(u, f.to)
  BY <1>2, <1>4, <1>5, <1>6, <1>7, <1>8 DEF Tiles
<1> QED BY <1>9 DEF u

(* An offer the tap takes as a frame of its own, behind the gap of the     *)
(* episode it ends.                                                        *)
LEMMA AcceptTiles ==
    ASSUME NEW t, NEW end \in Offsets, Tiles(t, end), NEW f \in FrameParts, f.from = end, ~Covered(t, f),
           ~Full(t, f), ~Merges(t, f)
    PROVE  Tiles(Accept(t, f), f.to)
<1> DEFINE u == Accept(t, f)
           g == Queued(t) \o OpenGap(t)
<1>0. t \in Taps /\ t.dropping \in BOOLEAN /\ t.bytes \in Nat /\ t.frames \in Nat /\ t.cutoff \in Nat
      /\ t.queue \in Seq(Part) /\ Queued(t) \in Seq(Part)
  BY TapFacts DEF Tiles
<1>1. f \in Part /\ IsFrame(f) /\ f.to \in Nat /\ Size(f) \in Nat /\ Size(f) = f.to - f.from
  BY PartFacts DEF FrameParts
<1>2. g \in Seq(Part) /\ Chain(g, end) /\ Bytes(g) = Bytes(Queued(t)) /\ FramesIn(g) = FramesIn(Queued(t))
  <2>1. CASE t.dropping
    <3> DEFINE x == Gap(t.anchor, t.dropped)
    <3>1. x \in Part /\ ~IsFrame(x) /\ x.from = t.anchor /\ x.to = end /\ OpenGap(t) = <<x>>
      BY <2>1, GapPart
    <3> HIDE DEF x
    <3>2. g = Append(Queued(t), x)
      BY <1>0, <3>1
    <3>3. Chain(Queued(t), x.from)
      BY <2>1, <3>1 DEF Tiles
    <3>4. Size(x) = 0
      BY <3>1, PartFacts
    <3> HIDE DEF g
    <3>5. g \in Seq(Part) /\ Bytes(g) = Bytes(Queued(t)) /\ FramesIn(g) = FramesIn(Queued(t))
      BY <1>0, <3>1, <3>2, <3>4, AppendWeighs
    <3>6. Chain(g, end)
      BY <1>0, <3>1, <3>2, <3>3, ChainAppend
    <3> QED BY <3>5, <3>6
  <2>2. CASE ~t.dropping
    <3>1. g = Queued(t)
      BY <1>0, <2>2 DEF OpenGap
    <3> QED BY <1>0, <2>2, <3>1 DEF Tiles
  <2> QED BY <1>0, <2>1, <2>2
<1>3. /\ u.queue = Append(g, f) /\ u.pending = None /\ u.frames = t.frames + 1 /\ u.bytes = t.bytes + Size(f)
      /\ u.dropping = FALSE /\ u.dropped = 0 /\ u.anchor = t.anchor /\ u.cutoff = t.cutoff
  BY <1>0 DEF Accept, Taps, Finalized, Closed, Queued, None
<1>3a. u = [queue |-> u.queue, pending |-> u.pending, frames |-> u.frames, bytes |-> u.bytes,
              dropping |-> u.dropping, anchor |-> u.anchor, dropped |-> u.dropped, cutoff |-> u.cutoff]
  BY <1>0 DEF Accept, Taps, Finalized, Closed, Queued, None
<1>4. Append(g, f) \in Seq(Part) /\ Bytes(Append(g, f)) = t.bytes + Size(f)
      /\ FramesIn(Append(g, f)) = t.frames + 1 /\ Chain(Append(g, f), f.to)
  <2> HIDE DEF g
  <2> QED BY <1>1, <1>2, AppendWeighs, ChainAppend DEF Tiles
<1>5. t.frames < QueueDepth /\ t.bytes + Size(f) <= QueueBytes
  BY <1>0, <1>1, Limits DEF Full
<1>6. t.anchor \in Offsets /\ t.cutoff \in Offsets /\ 0 \in Offsets
  BY <1>0, PaneStreamAssumption DEF Taps, Offsets
<1>7. u \in Taps
  <2> HIDE DEF u, g
  <2>1. u.queue \in Seq(Part) /\ u.pending \in FrameParts \cup {None}
    BY <1>0, <1>1, <1>3, <1>4, <1>6
  <2>2. u.frames \in Nat /\ u.bytes \in Nat
    <3>1. t.frames + 1 \in Nat /\ t.bytes + Size(f) \in Nat
      BY <1>0, <1>1
    <3> QED BY <1>3, <3>1
  <2>3. u.dropping \in BOOLEAN /\ u.anchor \in Offsets /\ u.dropped \in Offsets /\ u.cutoff \in Offsets
    BY <1>0, <1>1, <1>3, <1>4, <1>6, Zenon
  <2> QED BY <1>3a, <2>1, <2>2, <2>3 DEF Taps
<1> HIDE DEF u
<1>8. Queued(u) = Append(g, f)
  BY <1>3, <1>7, TapFacts
<1>9. u.cutoff < f.to
  BY <1>0, <1>1, <1>3 DEF Covered
<1>10. u.frames = t.frames + 1 /\ u.frames <= QueueDepth /\ u.bytes <= QueueBytes
  <2>1. u.frames = t.frames + 1 /\ u.bytes = t.bytes + Size(f)
    BY <1>3
  <2>2. t.frames + 1 <= QueueDepth
    BY <1>0, <1>5, Limits
  <2> QED BY <1>5, <2>1, <2>2
<1>11. Tiles(u, f.to)
  <2> HIDE DEF g
  <2> QED BY <1>3, <1>4, <1>7, <1>8, <1>9, <1>10 DEF Tiles
<1> QED BY <1>11 DEF u

(* An offer the tap merges into its last frame, which grows in place.      *)
LEMMA MergeTiles ==
    ASSUME NEW t, NEW end \in Offsets, Tiles(t, end), NEW f \in FrameParts, f.from = end, ~Covered(t, f),
           ~Full(t, f), Merges(t, f)
    PROVE  Tiles(Accept(t, f), f.to)
<1> DEFINE u == Accept(t, f)
           last == LastFrame(t)
           merged == Frame(last.from, f.to)
<1>0. t \in Taps /\ t.bytes \in Nat /\ t.frames \in Nat /\ t.cutoff \in Nat /\ t.dropping = FALSE
      /\ t.queue \in Seq(Part) /\ OpenGap(t) = << >> /\ t.queue \o << >> = t.queue
  BY TapFacts, NoMerge DEF Tiles, OpenGap
<1>1. /\ f \in Part /\ IsFrame(f) /\ f.to \in Nat /\ f.from \in Nat /\ f.from < f.to /\ Size(f) \in Nat
      /\ Size(f) = f.to - f.from /\ f.to <= MaxOutput
  BY PartFacts DEF FrameParts
<1>2. last # None /\ last.to = f.from /\ last \in FrameParts
  BY <1>0, LastQueued DEF Merges
<1>3. PICK q \in Seq(Part) : /\ Queued(t) = Append(q, last) /\ (t.pending # None => q = t.queue)
                             /\ (t.pending = None => q = Front(t.queue))
  BY <1>0, <1>2, LastQueued
<1>4. last \in Part /\ last.from \in Nat /\ last.from < last.to /\ last.to \in Nat /\ Size(last) = last.to - last.from
      /\ IsFrame(last)
  BY <1>2, PartFacts DEF FrameParts
<1>5. /\ merged \in FrameParts /\ merged \in Part /\ IsFrame(merged) /\ merged.from = last.from /\ merged.to = f.to
      /\ Size(merged) = Size(last) + Size(f)
  <2> HIDE DEF last
  <2>1. merged.kind = "frame" /\ merged.from = last.from /\ merged.to = f.to /\ merged \in Items
    BY <1>1, <1>2, <1>4, Limits DEF Frame, Items, Offsets
  <2> HIDE DEF merged
  <2> QED BY <1>1, <1>2, <1>4, <2>1, Limits DEF FrameParts, Part, IsFrame, Size
<1>6. /\ u.queue = q /\ u.pending = merged /\ u.frames = t.frames /\ u.bytes = t.bytes + Size(f)
      /\ u.dropping = FALSE /\ u.dropped = 0 /\ u.anchor = t.anchor /\ u.cutoff = t.cutoff
  <2>1. t = [queue |-> t.queue, pending |-> t.pending, frames |-> t.frames, bytes |-> t.bytes,
             dropping |-> t.dropping, anchor |-> t.anchor, dropped |-> t.dropped, cutoff |-> t.cutoff]
    BY <1>0 DEF Taps
  <2>2. CASE t.pending # None
    BY <1>0, <1>3, <2>1, <2>2 DEF Accept, Closed
  <2>3. CASE t.pending = None
    BY <1>0, <1>3, <2>1, <2>3 DEF Accept, Closed
  <2> QED BY <2>2, <2>3
<1>6a. u = [queue |-> u.queue, pending |-> u.pending, frames |-> u.frames, bytes |-> u.bytes,
             dropping |-> u.dropping, anchor |-> u.anchor, dropped |-> u.dropped, cutoff |-> u.cutoff]
  <2>1. t = [queue |-> t.queue, pending |-> t.pending, frames |-> t.frames, bytes |-> t.bytes,
             dropping |-> t.dropping, anchor |-> t.anchor, dropped |-> t.dropped, cutoff |-> t.cutoff]
    BY <1>0 DEF Taps
  <2>2. CASE t.pending # None
    BY <1>0, <1>3, <2>1, <2>2 DEF Accept, Closed
  <2>3. CASE t.pending = None
    BY <1>0, <1>3, <2>1, <2>3 DEF Accept, Closed
  <2> QED BY <2>2, <2>3
<1>7. t.anchor \in Offsets /\ t.cutoff \in Offsets /\ 0 \in Offsets
  BY <1>0, PaneStreamAssumption DEF Taps, Offsets
<1>8. u \in Taps
  <2> HIDE DEF u, merged, last
  <2>1. u.queue \in Seq(Part) /\ u.pending \in FrameParts \cup {None}
    BY <1>0, <1>1, <1>3, <1>5, <1>6, <1>7
  <2>2. u.frames \in Nat /\ u.bytes \in Nat
    <3>1. t.frames \in Nat /\ t.bytes + Size(f) \in Nat
      BY <1>0, <1>1
    <3> QED BY <1>6, <3>1
  <2>3. u.dropping \in BOOLEAN /\ u.anchor \in Offsets /\ u.dropped \in Offsets /\ u.cutoff \in Offsets
    BY <1>0, <1>1, <1>3, <1>5, <1>6, <1>7, Zenon
  <2> QED BY <1>6a, <2>1, <2>2, <2>3 DEF Taps
<1> HIDE DEF u, merged, last
<1>9. Queued(u) = Append(q, merged)
  BY <1>5, <1>6, <1>8, TapFacts, NoneIsNoItem
<1>10. Chain(Queued(u), f.to)
  <2>1. Chain(q, last.from)
    BY <1>0, <1>3, <1>4, ChainAppend DEF Tiles
  <2> QED BY <1>5, <1>9, <2>1, ChainAppend
<1>11. u.frames = FramesIn(Queued(u)) /\ u.bytes = Bytes(Queued(u))
  <2>1. /\ Bytes(Queued(t)) = Bytes(q) + Size(last) /\ FramesIn(Queued(t)) = FramesIn(q) + 1
        /\ Bytes(q) \in Nat /\ FramesIn(q) \in Nat
    BY <1>3, <1>4, AppendWeighs
  <2>2. Bytes(Queued(u)) = Bytes(q) + Size(merged) /\ FramesIn(Queued(u)) = FramesIn(q) + 1
    BY <1>5, <1>9, AppendWeighs
  <2>3. t.frames = FramesIn(Queued(t)) /\ t.bytes = Bytes(Queued(t))
    BY DEF Tiles
  <2>4. Size(last) \in Nat /\ Size(merged) = Size(last) + Size(f) /\ Size(f) \in Nat
    BY <1>1, <1>4, <1>5, PartFacts
  <2> QED BY <1>6, <2>1, <2>2, <2>3, <2>4
<1>12. u.frames <= QueueDepth /\ u.bytes <= QueueBytes /\ u.cutoff < f.to
  <2>1. t.bytes + Size(f) <= QueueBytes
    BY <1>0, <1>1, Limits DEF Full
  <2> QED BY <1>0, <1>1, <1>6, <2>1 DEF Covered, Tiles
<1>13. Tiles(u, f.to)
  BY <1>6, <1>8, <1>10, <1>11, <1>12 DEF Tiles
<1> QED BY <1>13 DEF u

(* What ends after an offset is the end of a chain.                        *)
LEMMA RetainedIsRest ==
    ASSUME NEW s \in Seq(Part), NEW end, Chain(s, end), NEW c \in Nat
    PROVE  \E m \in 0 .. Len(s) : /\ Retained(s, c) = SubSeq(s, m + 1, Len(s))
                                  /\ \A i \in 1 .. m : s[i].to <= c
                                  /\ \A i \in m + 1 .. Len(s) : s[i].to > c
<1> DEFINE C == Len(s)
           S == {i \in 1 .. C : s[i].to <= c} \cup {0}
<1>1. C \in Nat /\ \A i \in 1 .. C : s[i] \in Part /\ s[i].to \in Nat
  BY PartFacts
<1> HIDE DEF C
<1>2. S \in SUBSET Nat /\ S # {} /\ IsFiniteSet(S)
  <2>1. S \in SUBSET (0 .. C) /\ IsFiniteSet(0 .. C)
    BY <1>1, FS_Interval, 0 \in Int, C \in Int
  <2> QED BY <1>1, <2>1, FS_Subset
<1>3. PICK m \in S : \A y \in S : m >= y
  <2> HIDE DEF S
  <2> QED BY <1>2, GreatestExists
<1>4. m \in 0 .. C /\ m \in Nat
  BY <1>1, <1>3
<1>5. ASSUME NEW i \in 1 .. m PROVE s[i].to <= c
  <2>1. m \in 1 .. C /\ i \in 1 .. C /\ i <= m /\ s[m].to <= c
    BY <1>1, <1>3, <1>4
  <2>2. s[i].to <= s[m].to
    BY <2>1, ChainOrder DEF C
  <2>3. s[i].to \in Nat /\ s[m].to \in Nat
    BY <1>1, <2>1
  <2> HIDE DEF S
  <2> QED BY <2>1, <2>2, <2>3
<1>6. ASSUME NEW i \in m + 1 .. C PROVE s[i].to > c
  <2>1. i \in 1 .. C /\ ~(m >= i)
    BY <1>1, <1>4
  <2> QED BY <1>1, <1>3, <2>1
<1> HIDE DEF S
<1> DEFINE f == [k \in 0 .. C |-> IF k <= m THEN << >> ELSE SubSeq(s, m + 1, k)]
           Solves(g) == g = [k \in 0 .. C |->
                               IF k = 0 THEN << >>
                               ELSE IF s[k].to > c THEN Append(g[k - 1], s[k]) ELSE g[k - 1]]
           g == CHOOSE h : Solves(h)
           T == {k \in Nat : k \in 0 .. C => g[k] = f[k]}
<1>7. ASSUME NEW k \in 1 .. C
      PROVE  f[k] = IF s[k].to > c THEN Append(f[k - 1], s[k]) ELSE f[k - 1]
  <2>1. k - 1 \in 0 .. C /\ k \in 0 .. C
    BY <1>1
  <2>2. CASE k <= m
    <3>1. k \in 1 .. m /\ k - 1 <= m /\ f[k] = << >> /\ f[k - 1] = << >>
      BY <1>1, <1>4, <2>1, <2>2
    <3>2. ~(s[k].to > c)
      BY <1>1, <1>5, <3>1
    <3> QED BY <3>1, <3>2
  <2>3. CASE k > m
    <3>1. k \in m + 1 .. C /\ ~(k <= m) /\ f[k] = SubSeq(s, m + 1, k)
      BY <1>1, <1>4, <2>1, <2>3
    <3>2. s[k].to > c
      BY <1>6, <3>1
    <3>3. f[k - 1] = SubSeq(s, m + 1, k - 1)
      <4>1. CASE k - 1 <= m
        <5>1. k - 1 = m /\ SubSeq(s, m + 1, m) = << >>
          BY <1>1, <1>4, <2>3, <4>1 DEF C
        <5> QED BY <2>1, <4>1, <5>1
      <4>2. CASE ~(k - 1 <= m)
        BY <2>1, <4>2
      <4> QED BY <4>1, <4>2
    <3>4. SubSeq(s, m + 1, k) = Append(SubSeq(s, m + 1, k - 1), s[k])
      BY <1>1, <1>4, <2>1, <2>3 DEF C
    <3> HIDE DEF f
    <3> QED BY <3>1, <3>2, <3>3, <3>4
  <2> QED BY <1>1, <1>4, <2>2, <2>3
<1>8. f[0] = << >> /\ f = [k \in 0 .. C |-> f[k]]
  BY <1>1, <1>4
<1>9. f[C] = SubSeq(s, m + 1, C)
  <2>0. C \in 0 .. C
    BY <1>1
  <2>1. CASE C <= m
    <3>1. SubSeq(s, m + 1, C) = << >>
      BY <1>1, <1>4, <2>1 DEF C
    <3> QED BY <2>0, <2>1, <3>1
  <2>2. CASE ~(C <= m)
    BY <2>0, <2>2
  <2> QED BY <2>1, <2>2
<1> HIDE DEF f
<1>10. Solves(f)
  <2>1. \A k \in 0 .. C : f[k] = IF k = 0 THEN << >>
                                 ELSE IF s[k].to > c THEN Append(f[k - 1], s[k]) ELSE f[k - 1]
    <3> TAKE k \in 0 .. C
    <3>1. CASE k = 0
      BY <1>8, <3>1
    <3>2. CASE k # 0
      <4>1. k \in 1 .. C
        BY <1>1, <3>2
      <4> QED BY <1>7, <3>2, <4>1
    <3> QED BY <3>1, <3>2
  <2> QED BY <1>8, <2>1
<1>11. Solves(g)
  BY <1>10
<1>12. Retained(s, c) = g[C]
  BY DEF Retained, C
<1> HIDE DEF g
<1>13. 0 \in T
  BY <1>1, <1>8, <1>11
<1>14. ASSUME NEW k \in Nat, k \in T PROVE k + 1 \in T
  <2> SUFFICES ASSUME k + 1 \in 0 .. C PROVE g[k + 1] = f[k + 1]
    OBVIOUS
  <2>1. k \in 0 .. C /\ k + 1 # 0 /\ (k + 1) - 1 = k /\ k + 1 \in 1 .. C
    BY <1>1
  <2>2. g[k] = f[k]
    BY <1>14, <2>1
  <2>3. g[k + 1] = IF s[k + 1].to > c THEN Append(g[k], s[k + 1]) ELSE g[k]
    BY <1>11, <2>1
  <2>4. f[k + 1] = IF s[k + 1].to > c THEN Append(f[k], s[k + 1]) ELSE f[k]
    BY <1>7, <2>1
  <2> QED BY <2>2, <2>3, <2>4
<1> HIDE DEF T
<1>15. C \in T
  BY <1>1, <1>13, <1>14, SetInduction
<1>16. g[C] = f[C]
  BY <1>1, <1>15 DEF T
<1> QED BY <1>4, <1>5, <1>6, <1>9, <1>12, <1>16 DEF C

(* An attach prunes what its reply covers, and the episode if its gap is   *)
(* covered too.                                                            *)
LEMMA AttachedTiles ==
    ASSUME NEW t, NEW end \in Offsets, Tiles(t, end), NEW c \in Offsets
    PROVE  Tiles(Attached(t, c), end)
<1> DEFINE u == Attached(t, c)
           q == Queued(t)
           r == Retained(q, c)
           stop == IF t.dropping THEN t.anchor ELSE end
           closes == t.dropping /\ t.anchor + t.dropped <= c
<1>0. /\ t \in Taps /\ q \in Seq(Part) /\ t.dropping \in BOOLEAN /\ t.anchor \in Nat /\ t.dropped \in Nat
      /\ t.anchor \in Offsets /\ t.dropped \in Offsets /\ c \in Nat /\ end \in Nat
  BY TapFacts DEF Tiles, Offsets, Taps
<1>1. /\ Chain(q, stop) /\ t.frames = FramesIn(q) /\ t.bytes = Bytes(q) /\ t.frames <= QueueDepth
      /\ t.bytes <= QueueBytes
  BY DEF Tiles
<1>1a. /\ (t.dropping => t.dropped > 0 /\ t.anchor + t.dropped = end) /\ (~t.dropping => t.dropped = 0)
  BY DEF Tiles
<1> HIDE DEF q
<1>2. PICK m \in 0 .. Len(q) : /\ r = SubSeq(q, m + 1, Len(q)) /\ (\A i \in 1 .. m : q[i].to <= c)
                               /\ \A i \in m + 1 .. Len(q) : q[i].to > c
  BY <1>0, <1>1, RetainedIsRest
<1>3. /\ Len(q) \in Nat /\ m \in Nat /\ r \in Seq(Part) /\ Len(r) = Len(q) - m
      /\ \A i \in 1 .. Len(r) : r[i] = q[m + i]
  <2>1. Len(q) \in Nat /\ m \in Nat
    BY <1>0, <1>2
  <2>2. SubSeq(q, m + 1, Len(q)) \in Seq(Part)
    BY <1>0, <1>2, SplitSequence
  <2>3. /\ Len(SubSeq(q, m + 1, Len(q))) = Len(q) - m
        /\ \A i \in 1 .. Len(q) - m : SubSeq(q, m + 1, Len(q))[i] = q[m + i]
    BY <1>0, <1>2, RestMembers
  <2> HIDE DEF r
  <2> QED BY <1>2, <2>1, <2>2, <2>3
<1>4. Chain(r, stop)
  <2>1. (\A i \in 1 .. Len(r) : r[i].to = q[m + i].to) /\ (\A i \in 2 .. Len(r) : r[i].from = q[m + i].from)
    <3> HIDE DEF r
    <3>1. \A i \in 2 .. Len(r) : i \in 1 .. Len(r)
      BY <1>3
    <3> QED BY <1>3, <3>1
  <2> HIDE DEF r, stop
  <2> QED BY <1>0, <1>1, <1>3, <2>1, ChainRest
<1>5. ASSUME r # << >> PROVE c < stop
  <2>1. Len(r) # 0 /\ Len(r) \in Nat
    BY <1>3, <1>5
  <2>2. Len(q) \in m + 1 .. Len(q) /\ q # << >>
    BY <1>3, <2>1
  <2>3. q[Len(q)].to = stop
    BY <1>1, <2>2 DEF Chain, Last
  <2>4. stop \in Nat
    BY <1>0
  <2>5. q[Len(q)].to > c
    BY <1>2, <2>2
  <2> HIDE DEF stop
  <2> QED BY <1>0, <2>3, <2>4, <2>5
<1>6. Bytes(r) \in Nat /\ FramesIn(r) \in Nat /\ Bytes(r) <= Bytes(q) /\ FramesIn(r) <= FramesIn(q)
  <2> DEFINE h == SubSeq(q, 1, m)
  <2>1. h \in Seq(Part) /\ q = h \o r
    BY <1>0, <1>2, SplitSequence
  <2> HIDE DEF h, r
  <2>2. Bytes(q) = Bytes(h) + Bytes(r) /\ FramesIn(q) = FramesIn(h) + FramesIn(r)
    BY <1>3, <2>1, ConcatWeighs
  <2>3. Bytes(h) \in Nat /\ FramesIn(h) \in Nat /\ Bytes(r) \in Nat /\ FramesIn(r) \in Nat
    BY <1>3, <2>1, SumsExist, BytesAreSums, FramesArePlaces
  <2> QED BY <2>2, <2>3
<1>7. /\ u.queue = r /\ u.pending = None /\ u.frames = FramesIn(r) /\ u.bytes = Bytes(r)
      /\ u.dropping = (t.dropping /\ ~closes) /\ u.dropped = (IF closes THEN 0 ELSE t.dropped)
      /\ u.anchor = t.anchor /\ u.cutoff = c
  <2> HIDE DEF closes
  <2>1. Finalized(t) \in Taps /\ Finalized(t).pending = None /\ Finalized(t).queue = q
        /\ Finalized(t).dropping = t.dropping /\ Finalized(t).dropped = t.dropped /\ Finalized(t).anchor = t.anchor
    <3>1. t.pending # None => Append(t.queue, t.pending) \in Seq(Part)
      BY <1>0, TapFacts DEF FrameParts
    <3> QED BY <1>0, <3>1 DEF Finalized, Taps, Queued, q
  <2>2. CASE closes
    BY <1>0, <2>1, <2>2 DEF Attached, Closed, Taps, closes
  <2>3. CASE ~closes
    BY <1>0, <2>1, <2>3 DEF Attached, Taps, closes
  <2> QED BY <2>2, <2>3
<1>8. u \in Taps
  <2>1. u = [queue |-> u.queue, pending |-> u.pending, frames |-> u.frames, bytes |-> u.bytes,
             dropping |-> u.dropping, anchor |-> u.anchor, dropped |-> u.dropped, cutoff |-> u.cutoff]
    BY <1>0 DEF Attached, Finalized, Closed, Taps
  <2>2. 0 \in Offsets
    BY Limits DEF Offsets
  <2> HIDE DEF u, r
  <2>3. u.queue \in Seq(Part) /\ u.pending \in FrameParts \cup {None} /\ u.frames \in Nat /\ u.bytes \in Nat
    BY <1>3, <1>6, <1>7
  <2>4. u.dropping \in BOOLEAN /\ u.anchor \in Offsets /\ u.dropped \in Offsets /\ u.cutoff \in Offsets
    BY <1>0, <1>7, <2>2
  <2> QED BY <2>1, <2>3, <2>4 DEF Taps
<1> HIDE DEF u, r
<1>9. Queued(u) = r
  BY <1>7, <1>8, TapFacts
<1>10. CASE closes
  <2>1. t.dropping /\ end <= c /\ t.anchor < end /\ stop = t.anchor
    BY <1>0, <1>1a, <1>10
  <2>2. r = << >>
    BY <1>0, <1>5, <2>1
  <2>3. u.dropping = FALSE /\ u.dropped = 0
    BY <1>7, <1>10
  <2>4. u.frames = 0 /\ u.bytes = 0
    BY <1>7, <2>2, EmptyWeighs
  <2> QED BY <1>7, <1>8, <1>9, <2>2, <2>3, <2>4, EmptyChain, Limits DEF Tiles, u
<1>11. CASE ~closes
  <2>1. (u.dropping <=> t.dropping) /\ u.dropped = t.dropped
    BY <1>0, <1>7, <1>11
  <2>2. t.dropping => c < end
    BY <1>0, <1>1a, <1>11
  <2>3. r # << >> => c < end
    BY <1>0, <1>1a, <1>5, <2>2
  <2>4. Chain(Queued(u), IF u.dropping THEN u.anchor ELSE end)
    BY <1>4, <1>7, <1>9, <2>1
  <2>5. u.frames <= QueueDepth /\ u.bytes <= QueueBytes
    <3>1. Bytes(q) \in Nat /\ FramesIn(q) \in Nat
      BY <1>0, SumsExist, BytesAreSums, FramesArePlaces
    <3>2. FramesIn(r) <= QueueDepth /\ Bytes(r) <= QueueBytes
      BY <1>1, <1>6, <3>1, Limits
    <3> QED BY <1>7, <3>2
  <2>6. Tiles(u, end)
    <3> HIDE DEF stop, closes
    <3> QED BY <1>1a, <1>7, <1>8, <1>9, <2>1, <2>2, <2>3, <2>4, <2>5 DEF Tiles
  <2> QED BY <2>6 DEF u
<1> QED BY <1>10, <1>11

-----------------------------------------------------------------------------
(* A turn of the drain, the parts Drained is made of                       *)

TurnWhole(q, n) ==
    \A j \in 1 .. n : Bytes(SubSeq(q, 1, j - 1)) < TurnBytes /\ Bytes(SubSeq(q, 1, j)) <= TurnBytes

TurnItems(q) == CHOOSE n \in 0 .. Len(q) : TurnWhole(q, n) /\ ~(n < Len(q) /\ TurnWhole(q, n + 1))

TurnSplits(q) == TurnItems(q) < Len(q) /\ Bytes(SubSeq(q, 1, TurnItems(q))) < TurnBytes

TurnCut(q) == q[TurnItems(q) + 1].from + (TurnBytes - Bytes(SubSeq(q, 1, TurnItems(q))))

TurnOut(q) ==
    SubSeq(q, 1, TurnItems(q))
        \o (IF TurnSplits(q) THEN <<Frame(q[TurnItems(q) + 1].from, TurnCut(q))>> ELSE << >>)

TurnRest(q) ==
    IF TurnSplits(q)
      THEN <<Frame(TurnCut(q), q[TurnItems(q) + 1].to)>> \o SubSeq(q, TurnItems(q) + 2, Len(q))
      ELSE SubSeq(q, TurnItems(q) + 1, Len(q))

(* What the drain may reach.                                               *)
TurnTap(t) == IF Bytes(t.queue) < TurnBytes THEN Finalized(t) ELSE t

TurnLeft(u) ==
    [u EXCEPT !.queue = TurnRest(u.queue), !.bytes = @ - Bytes(TurnOut(u.queue)),
              !.frames = @ - FramesIn(SubSeq(u.queue, 1, TurnItems(u.queue)))]

TurnMore(u) == TurnRest(u.queue) # << >> \/ u.pending # None

(* Drained in those parts.                                                 *)
LEMMA DrainedParts ==
    ASSUME NEW t
    PROVE  /\ Drained(t).tap = (IF TurnMore(TurnTap(t)) THEN TurnLeft(TurnTap(t)) ELSE Closed(TurnLeft(TurnTap(t))))
           /\ Drained(t).out = (IF TurnMore(TurnTap(t)) THEN TurnOut(TurnTap(t).queue)
                                ELSE TurnOut(TurnTap(t).queue) \o OpenGap(t))
           /\ Drained(t).more = TurnMore(TurnTap(t))
BY DEF Drained, TurnWhole, TurnItems, TurnSplits, TurnCut, TurnOut, TurnRest, TurnTap, TurnLeft, TurnMore

(* One item.                                                               *)
LEMMA SingleWeighs ==
    ASSUME NEW x \in Part
    PROVE  <<x>> \in Seq(Part) /\ Bytes(<<x>>) = Size(x) /\ FramesIn(<<x>>) = (IF IsFrame(x) THEN 1 ELSE 0)
<1>1. << >> \in Seq(Part) /\ <<x>> = Append(<< >>, x)
  OBVIOUS
<1>2. Size(x) \in Nat
  BY PartFacts
<1>3. <<x>> \in Seq(Part) /\ Bytes(<<x>>) = 0 + Size(x) /\ FramesIn(<<x>>) = 0 + (IF IsFrame(x) THEN 1 ELSE 0)
  BY <1>1, AppendWeighs, EmptyWeighs
<1> QED BY <1>2, <1>3

(* How many items a turn takes whole, and that the one it splits is a      *)
(* frame with bytes on both sides of the cut.                              *)
LEMMA TurnFacts ==
    ASSUME NEW q \in Seq(Part)
    PROVE  /\ TurnItems(q) \in 0 .. Len(q)
           /\ Bytes(SubSeq(q, 1, TurnItems(q))) \in Nat
           /\ Bytes(SubSeq(q, 1, TurnItems(q))) <= TurnBytes
           /\ TurnSplits(q) => /\ q[TurnItems(q) + 1] \in FrameParts
                               /\ TurnCut(q) \in Nat
                               /\ q[TurnItems(q) + 1].from < TurnCut(q)
                               /\ TurnCut(q) < q[TurnItems(q) + 1].to
                               /\ TurnCut(q) - q[TurnItems(q) + 1].from
                                    = TurnBytes - Bytes(SubSeq(q, 1, TurnItems(q)))
<1> DEFINE S == {n \in 0 .. Len(q) : TurnWhole(q, n)}
           B(n) == Bytes(SubSeq(q, 1, n))
           n == TurnItems(q)
<1>0. Len(q) \in Nat
  OBVIOUS
<1>1. S \in SUBSET Nat /\ S # {} /\ IsFiniteSet(S)
  <2>1. S \in SUBSET (0 .. Len(q)) /\ IsFiniteSet(0 .. Len(q))
    BY <1>0, FS_Interval, 0 \in Int, Len(q) \in Int
  <2>2. 0 \in S
    BY DEF TurnWhole
  <2> QED BY <1>0, <2>1, <2>2, FS_Subset
<1>2. PICK top \in S : \A y \in S : top >= y
  <2> HIDE DEF S
  <2> QED BY <1>1, GreatestExists
<1>3. top \in 0 .. Len(q) /\ TurnWhole(q, top) /\ ~(top < Len(q) /\ TurnWhole(q, top + 1))
  <2>1. top \in 0 .. Len(q) /\ TurnWhole(q, top)
    BY <1>2
  <2>2. ASSUME top < Len(q), TurnWhole(q, top + 1) PROVE FALSE
    <3>1. top + 1 \in 0 .. Len(q) /\ top \in Nat
      BY <1>0, <2>1, <2>2
    <3>2. top >= top + 1
      BY <1>2, <2>2, <3>1
    <3> QED BY <3>1, <3>2
  <2> QED BY <2>1, <2>2
<1>4. n \in 0 .. Len(q) /\ TurnWhole(q, n) /\ ~(n < Len(q) /\ TurnWhole(q, n + 1))
  BY <1>3 DEF TurnItems
<1> HIDE DEF n
<1>5. ASSUME NEW j \in 0 .. Len(q) PROVE SubSeq(q, 1, j) \in Seq(Part) /\ B(j) \in Nat
  <2>1. SubSeq(q, 1, j) \in Seq(Part)
    BY SplitSequence
  <2> QED BY <2>1, SumsExist, BytesAreSums
<1>6. n \in Nat /\ n <= Len(q) /\ B(n) \in Nat /\ B(n) <= TurnBytes
  <2>1. n \in Nat /\ n <= Len(q) /\ B(n) \in Nat
    BY <1>4, <1>5
  <2>2. CASE n = 0
    <3>1. SubSeq(q, 1, n) = << >>
      BY <2>2
    <3>2. B(n) = 0
      BY <3>1, EmptyWeighs
    <3> HIDE DEF B
    <3> QED BY <2>1, <3>2, Limits
  <2>3. CASE n # 0
    BY <1>4, <2>1, <2>3 DEF TurnWhole
  <2> QED BY <2>1, <2>2, <2>3
<1>7. ASSUME TurnSplits(q)
      PROVE  /\ q[n + 1] \in FrameParts /\ TurnCut(q) \in Nat
             /\ q[n + 1].from < TurnCut(q) /\ TurnCut(q) < q[n + 1].to
             /\ TurnCut(q) - q[n + 1].from = TurnBytes - B(n)
  <2>1. n < Len(q) /\ B(n) < TurnBytes /\ TurnCut(q) = q[n + 1].from + (TurnBytes - B(n))
    BY <1>7 DEF TurnSplits, TurnCut, n
  <2>2. n + 1 \in 1 .. Len(q) /\ q[n + 1] \in Part /\ n + 1 \in 0 .. Len(q)
    BY <1>0, <1>6, <2>1
  <2>3. SubSeq(q, 1, n + 1) = Append(SubSeq(q, 1, n), q[n + 1])
    BY <1>6, <2>2
  <2>4. B(n + 1) = B(n) + Size(q[n + 1])
    BY <1>4, <1>5, <2>2, <2>3, AppendWeighs
  <2>5. B(n + 1) > TurnBytes
    <3> SUFFICES ASSUME ~(B(n + 1) > TurnBytes) PROVE TurnWhole(q, n + 1)
      BY <1>4, <2>1
    <3>1. B(n + 1) <= TurnBytes
      BY <1>5, <2>2, Limits
    <3> HIDE DEF B
    <3> SUFFICES ASSUME NEW j \in 1 .. n + 1 PROVE B(j - 1) < TurnBytes /\ B(j) <= TurnBytes
      BY DEF TurnWhole, B
    <3>2. CASE j = n + 1
      <4>1. j - 1 = n
        BY <1>6, <3>2
      <4> QED BY <2>1, <3>1, <3>2, <4>1
    <3>3. CASE j # n + 1
      <4>1. j \in 1 .. n
        BY <1>6, <3>3
      <4> QED BY <1>4, <4>1 DEF TurnWhole, B
    <3> QED BY <3>2, <3>3
  <2>6. Size(q[n + 1]) > TurnBytes - B(n) /\ Size(q[n + 1]) \in Nat
    <3>1. Size(q[n + 1]) \in Nat
      BY <2>2, PartFacts
    <3> HIDE DEF B
    <3> QED BY <1>6, <2>4, <2>5, <3>1, Limits
  <2>7. IsFrame(q[n + 1])
    <3> HIDE DEF B
    <3>1. ~IsFrame(q[n + 1]) => Size(q[n + 1]) = 0
      BY <2>2, PartFacts
    <3> QED BY <1>6, <2>1, <2>6, <3>1, Limits
  <2>8. Size(q[n + 1]) = q[n + 1].to - q[n + 1].from /\ q[n + 1].to \in Nat /\ q[n + 1].from \in Nat
    BY <2>2, <2>7, PartFacts
  <2> HIDE DEF B
  <2>9. q[n + 1] \in FrameParts
    BY <2>2, <2>7 DEF FrameParts
  <2> DEFINE x == q[n + 1]
             d == TurnBytes - B(n)
  <2>10. d \in Nat /\ d > 0
    BY <1>6, <2>1, Limits
  <2>11. x.from \in Nat /\ x.to \in Nat /\ x.to - x.from > d /\ TurnCut(q) = x.from + d
    BY <2>1, <2>6, <2>8
  <2> HIDE DEF x, d
  <2>12. TurnCut(q) \in Nat /\ x.from < TurnCut(q) /\ TurnCut(q) < x.to /\ TurnCut(q) - x.from = d
    BY <2>10, <2>11
  <2> QED BY <2>9, <2>12 DEF x, d
<1> QED BY <1>4, <1>6, <1>7 DEF n

(* A turn leaves the rest of the queue, and takes what it counts.          *)
LEMMA TurnParts ==
    ASSUME NEW q \in Seq(Part)
    PROVE  /\ TurnOut(q) \in Seq(Part) /\ TurnRest(q) \in Seq(Part)
           /\ Bytes(TurnOut(q)) + Bytes(TurnRest(q)) = Bytes(q)
           /\ FramesIn(SubSeq(q, 1, TurnItems(q))) + FramesIn(TurnRest(q)) = FramesIn(q)
           /\ Bytes(TurnOut(q)) \in Nat /\ Bytes(TurnRest(q)) \in Nat
           /\ FramesIn(SubSeq(q, 1, TurnItems(q))) \in Nat /\ FramesIn(TurnRest(q)) \in Nat
           /\ \A end : Chain(q, end) => Chain(TurnRest(q), end)
<1> DEFINE n == TurnItems(q)
           h == SubSeq(q, 1, n)
           r == SubSeq(q, n + 1, Len(q))
           r2 == SubSeq(q, n + 2, Len(q))
           x == q[n + 1]
           cut == TurnCut(q)
           x1 == Frame(x.from, cut)
           x2 == Frame(cut, x.to)
<1>1. n \in 0 .. Len(q) /\ n \in Nat /\ Len(q) \in Nat
  BY TurnFacts
<1>2. TurnSplits(q) => x \in FrameParts /\ cut \in Nat /\ x.from < cut /\ cut < x.to
  BY TurnFacts
<1>3. TurnOut(q) = h \o (IF TurnSplits(q) THEN <<x1>> ELSE << >>) /\ TurnRest(q) = (IF TurnSplits(q) THEN <<x2>> \o r2 ELSE r)
  BY DEF TurnOut, TurnRest
<1>3a. TurnSplits(q) => n < Len(q)
  BY DEF TurnSplits
<1> HIDE DEF n, cut
<1>4. h \in Seq(Part) /\ r \in Seq(Part) /\ q = h \o r
  BY <1>1, SplitSequence
<1>5. Len(r) = Len(q) - n /\ \A i \in 1 .. Len(r) : r[i] = q[n + i]
  BY <1>1
<1>6. /\ Bytes(q) = Bytes(h) + Bytes(r) /\ FramesIn(q) = FramesIn(h) + FramesIn(r)
      /\ Bytes(h) \in Nat /\ Bytes(r) \in Nat /\ FramesIn(h) \in Nat /\ FramesIn(r) \in Nat
  <2> HIDE DEF h, r
  <2> QED BY <1>4, ConcatWeighs, SumsExist, BytesAreSums, FramesArePlaces
<1>7. CASE ~TurnSplits(q)
  <2>1. TurnOut(q) = h /\ TurnRest(q) = r
    <3>1. h \o << >> = h
      BY <1>4
    <3> QED BY <1>3, <1>7, <3>1
  <2>2. ASSUME NEW end, Chain(q, end) PROVE Chain(r, end)
    <3>1. (\A i \in 1 .. Len(r) : r[i].to = q[n + i].to) /\ (\A i \in 2 .. Len(r) : r[i].from = q[n + i].from)
      BY <1>1, <1>5
    <3> HIDE DEF r
    <3> QED BY <1>1, <1>4, <1>5, <2>2, <3>1, ChainRest
  <2> HIDE DEF h, r
  <2>3. Bytes(h) + Bytes(r) = Bytes(q) /\ FramesIn(h) + FramesIn(r) = FramesIn(q)
    BY <1>6
  <2> QED BY <1>4, <1>6, <2>1, <2>2, <2>3 DEF h, n
<1>8. CASE TurnSplits(q)
  <2>1. /\ TurnOut(q) = h \o <<x1>> /\ TurnRest(q) = <<x2>> \o r2 /\ n < Len(q) /\ x \in FrameParts /\ cut \in Nat
        /\ x.from < cut /\ cut < x.to
    BY <1>2, <1>3, <1>3a, <1>8
  <2>2. x \in Part /\ x.from \in Nat /\ x.to \in Nat /\ x.to <= MaxOutput /\ IsFrame(x) /\ Size(x) = x.to - x.from
    BY <2>1, PartFacts DEF FrameParts
  <2>3. /\ x1 \in Part /\ IsFrame(x1) /\ Size(x1) = cut - x.from /\ x1.from = x.from /\ x1.to = cut
        /\ x2 \in Part /\ IsFrame(x2) /\ Size(x2) = x.to - cut /\ x2.from = cut /\ x2.to = x.to
    <3> HIDE DEF x
    <3> QED BY <2>1, <2>2, Limits DEF Frame, Part, Items, Offsets, IsFrame, Size
  <2>4. /\ r2 \in Seq(Part) /\ r = <<x>> \o r2 /\ Len(r2) = Len(r) - 1
        /\ \A i \in 1 .. Len(r2) : r2[i] = q[n + 1 + i]
    <3>1. n + 1 \in 0 .. Len(q) /\ (n + 1) + 1 = n + 2 /\ 1 \in 0 .. Len(r) /\ Len(r) \in Nat
      BY <1>1, <1>5, <2>1
    <3>2. SubSeq(q, (n + 1) + 1, Len(q)) \in Seq(Part)
      BY <3>1, SplitSequence
    <3>3. r2 \in Seq(Part)
      BY <3>1, <3>2
    <3>4. Len(r2) = Len(r) - 1 /\ \A i \in 1 .. Len(r2) : r2[i] = q[n + 1 + i]
      BY <1>1, <1>5, <2>1
    <3>5. SubSeq(r, 1, 1) = <<x>>
      <4>1. r[1] = x
        BY <1>5, <3>1 DEF x
      <4> HIDE DEF r, x
      <4>2. SubSeq(r, 1, 1) \in Seq(Part) /\ Len(SubSeq(r, 1, 1)) = 1 /\ SubSeq(r, 1, 1)[1] = r[1]
        BY <1>4, <3>1
      <4>3. <<x>> \in Seq(Part) /\ Len(<<x>>) = 1 /\ <<x>>[1] = x
        BY <2>2
      <4>4. \A i \in 1 .. Len(<<x>>) : SubSeq(r, 1, 1)[i] = <<x>>[i]
        BY <4>1, <4>2, <4>3
      <4> QED BY <4>2, <4>3, <4>4, SameSequence
    <3>6. SubSeq(r, 1 + 1, Len(r)) = r2
      <4> DEFINE w == SubSeq(r, 2, Len(r))
      <4>00. SubSeq(r, 1 + 1, Len(r)) = w
        <5> HIDE DEF r
        <5> QED OBVIOUS
      <4>0. w \in Seq(Part)
        <5> HIDE DEF r
        <5>1. SubSeq(r, 1 + 1, Len(r)) \in Seq(Part)
          BY <1>4, <3>1, SplitSequence
        <5> QED BY <5>1
      <4>1. Len(w) = Len(r) - 1 /\ \A i \in 1 .. Len(w) : w[i] = r[1 + i]
        <5> HIDE DEF r
        <5>1. /\ Len(SubSeq(r, 1 + 1, Len(r))) = Len(r) - 1
              /\ \A i \in 1 .. Len(r) - 1 : SubSeq(r, 1 + 1, Len(r))[i] = r[1 + i]
          BY <1>4, <3>1, RestMembers, Zenon
        <5> HIDE DEF w
        <5> QED BY <4>00, <5>1, Zenon
      <4>2. \A i \in 1 .. Len(w) : w[i] = r2[i]
        <5> HIDE DEF w, r, r2
        <5> TAKE i \in 1 .. Len(w)
        <5>1. i \in Nat /\ 1 + i \in 1 .. Len(r) /\ i \in 1 .. Len(r2) /\ n + (1 + i) = n + 1 + i
          BY <1>1, <3>1, <3>4, <4>1
        <5> QED BY <1>5, <3>4, <4>1, <5>1
      <4> HIDE DEF w, r, r2
      <4>3. w = r2
        BY <3>3, <3>4, <4>0, <4>1, <4>2, SameSequence
      <4> QED BY <4>00, <4>3
    <3>7. r = SubSeq(r, 1, 1) \o SubSeq(r, 1 + 1, Len(r))
      <4> HIDE DEF r
      <4> QED BY <1>4, <3>1, SplitSequence
    <3> HIDE DEF r, r2
    <3> QED BY <3>3, <3>4, <3>5, <3>6, <3>7
  <2> HIDE DEF x, x1, x2, h, r, r2
  <2> DEFINE y1 == <<x1>>
             y2 == <<x2>>
  <2>5. <<x>> \in Seq(Part) /\ Bytes(<<x>>) = Size(x) /\ FramesIn(<<x>>) = 1
    BY <2>2, SingleWeighs
  <2>6. y1 \in Seq(Part) /\ Bytes(y1) = Size(x1) /\ y2 \in Seq(Part) /\ Bytes(y2) = Size(x2) /\ FramesIn(y2) = 1
    BY <2>3, SingleWeighs
  <2>6a. TurnOut(q) = h \o y1 /\ TurnRest(q) = y2 \o r2 /\ Len(y2) = 1 /\ y2[1] = x2
    BY <2>1
  <2> HIDE DEF y1, y2
  <2>7. Bytes(r) = Size(x) + Bytes(r2) /\ FramesIn(r) = 1 + FramesIn(r2)
    BY <2>4, <2>5, ConcatWeighs
  <2>8. TurnOut(q) \in Seq(Part) /\ Bytes(TurnOut(q)) = Bytes(h) + Size(x1)
    BY <1>4, <2>6, <2>6a, ConcatWeighs
  <2>9. TurnRest(q) \in Seq(Part) /\ Bytes(TurnRest(q)) = Size(x2) + Bytes(r2) /\ FramesIn(TurnRest(q)) = 1 + FramesIn(r2)
    BY <2>4, <2>6, <2>6a, ConcatWeighs
  <2>10. Bytes(r2) \in Nat /\ FramesIn(r2) \in Nat /\ Size(x1) \in Nat /\ Size(x2) \in Nat
    BY <2>3, <2>4, SumsExist, BytesAreSums, FramesArePlaces, PartFacts
  <2>11. Bytes(TurnOut(q)) + Bytes(TurnRest(q)) = Bytes(q)
    <3>1. Size(x) = Size(x1) + Size(x2)
      BY <2>1, <2>2, <2>3
    <3>2. Bytes(q) = Bytes(h) + ((Size(x1) + Size(x2)) + Bytes(r2)) /\ Bytes(h) \in Nat
      BY <1>6, <2>7, <3>1
    <3>3. Bytes(TurnOut(q)) = Bytes(h) + Size(x1) /\ Bytes(TurnRest(q)) = Size(x2) + Bytes(r2)
      BY <2>8, <2>9
    <3>4. Bytes(r2) \in Nat /\ Size(x1) \in Nat /\ Size(x2) \in Nat
      BY <2>10
    <3> QED BY <3>2, <3>3, <3>4
  <2>12. FramesIn(h) + FramesIn(TurnRest(q)) = FramesIn(q) /\ FramesIn(TurnRest(q)) \in Nat
    <3>1. FramesIn(TurnRest(q)) = FramesIn(r)
      BY <2>7, <2>9
    <3> QED BY <1>6, <3>1
  <2>12a. Bytes(TurnOut(q)) \in Nat /\ Bytes(TurnRest(q)) \in Nat
    BY <2>8, <2>9, SumsExist, BytesAreSums
  <2>13. ASSUME NEW end, Chain(q, end) PROVE Chain(TurnRest(q), end)
    <3> DEFINE w == TurnRest(q)
    <3>1. Len(r2) \in Nat /\ Len(w) = 1 + Len(r2) /\ w[1] = x2 /\ \A i \in 2 .. Len(w) : w[i] = r2[i - 1]
      <4>1. w = y2 \o r2 /\ Len(y2) = 1 /\ y2[1] = x2 /\ Len(r2) \in Nat
        BY <2>4, <2>6, <2>6a
      <4> HIDE DEF w
      <4>2. Len(w) = 1 + Len(r2) /\ w[1] = x2
        <5>1. Len(y2 \o r2) = Len(y2) + Len(r2) /\ (y2 \o r2)[1] = y2[1]
          <6>1. 1 \in DOMAIN y2
            BY <2>6, <4>1
          <6>2. Len(y2 \o r2) = Len(y2) + Len(r2)
            BY <2>4, <2>6
          <6>3. \A a \in DOMAIN y2 : (y2 \o r2)[a] = y2[a]
            BY <2>4, <2>6
          <6> QED BY <6>1, <6>2, <6>3
        <5> QED BY <4>1, <5>1
      <4>3. ASSUME NEW i \in 2 .. Len(w) PROVE w[i] = r2[i - 1]
        <5>1. i - 1 \in 1 .. Len(r2) /\ 1 + (i - 1) = i
          BY <4>1, <4>2
        <5>2. (y2 \o r2)[Len(y2) + (i - 1)] = r2[i - 1]
          BY <2>4, <2>6, <5>1, ConcatParts
        <5> QED BY <4>1, <5>1, <5>2
      <4> QED BY <4>1, <4>2, <4>3
    <3>2. Len(w) = Len(q) - n /\ Len(w) \in Nat
      BY <1>1, <1>5, <2>4, <3>1
    <3>3. ASSUME NEW i \in 2 .. Len(w) PROVE w[i] = q[n + i]
      <4>1. i - 1 \in 1 .. Len(r2) /\ n + 1 + (i - 1) = n + i
        BY <1>1, <3>1
      <4> QED BY <2>4, <3>1, <4>1
    <3>4. ASSUME NEW i \in 1 .. Len(w) PROVE w[i].to = q[n + i].to
      <4>1. CASE i = 1
        <5>1. q[n + i] = x
          BY <4>1 DEF x
        <5> QED BY <2>3, <3>1, <4>1, <5>1
      <4>2. CASE i # 1
        <5>1. i \in 2 .. Len(w)
          BY <3>2, <4>2
        <5> QED BY <3>3, <5>1
      <4> QED BY <4>1, <4>2
    <3> HIDE DEF w
    <3>5. w \in Seq(Part)
      BY <2>9 DEF w
    <3>6. Chain(w, end)
      BY <1>1, <2>13, <3>2, <3>3, <3>4, <3>5, ChainRest
    <3> QED BY <3>6 DEF w
  <2> QED BY <1>6, <2>8, <2>9, <2>11, <2>12, <2>12a, <2>13 DEF h, n
<1> QED BY <1>7, <1>8

(* A flush turn leaves a tap that accounts for the same output, and sends  *)
(* frames and gaps.                                                        *)
LEMMA DrainedTiles ==
    ASSUME NEW t, NEW end \in Offsets, Tiles(t, end)
    PROVE  /\ Tiles(Drained(t).tap, end) /\ Drained(t).out \in Seq(Part) /\ Drained(t).more \in BOOLEAN
<1> DEFINE u == TurnTap(t)
           q == u.queue
           w == TurnLeft(u)
           d == Drained(t).tap
<1>0. /\ t \in Taps /\ t.queue \in Seq(Part) /\ t.dropping \in BOOLEAN /\ t.bytes \in Nat /\ t.frames \in Nat
      /\ t.anchor \in Offsets /\ t.dropped \in Offsets /\ t.cutoff \in Offsets
  BY TapFacts DEF Tiles, Taps
<1>1. u \in Taps /\ Queued(u) = Queued(t) /\ u.dropping = t.dropping /\ u.dropped = t.dropped /\ u.anchor = t.anchor
      /\ u.cutoff = t.cutoff /\ u.bytes = t.bytes /\ u.frames = t.frames /\ OpenGap(u) = OpenGap(t)
  <2>1. CASE u = t
    BY <1>0, <2>1
  <2>2. CASE u # t
    <3>1. u = Finalized(t) /\ t.pending # None
      BY <2>2 DEF TurnTap, Finalized
    <3>2. t.pending \in Part /\ Append(t.queue, t.pending) \in Seq(Part)
      BY <1>0, <3>1, TapFacts DEF FrameParts
    <3>3. u = [t EXCEPT !.queue = Append(t.queue, t.pending), !.pending = None]
      BY <3>1 DEF Finalized
    <3> HIDE DEF u
    <3>4. u \in Taps /\ u.queue = Append(t.queue, t.pending) /\ u.pending = None /\ u.dropping = t.dropping
          /\ u.dropped = t.dropped /\ u.anchor = t.anchor /\ u.cutoff = t.cutoff /\ u.bytes = t.bytes
          /\ u.frames = t.frames
      BY <1>0, <3>2, <3>3 DEF Taps
    <3>5. Queued(u) = Queued(t)
      BY <1>0, <3>1, <3>4, TapFacts
    <3> QED BY <3>4, <3>5 DEF OpenGap
  <2> QED BY <2>1, <2>2
<1> HIDE DEF u
<1>2. q \in Seq(Part) /\ u.pending \in FrameParts \cup {None}
  BY <1>1, TapFacts
<1> DEFINE r == TurnRest(q)
           o == TurnOut(q)
           h == SubSeq(q, 1, TurnItems(q))
<1>3. /\ o \in Seq(Part) /\ r \in Seq(Part) /\ Bytes(o) + Bytes(r) = Bytes(q)
      /\ FramesIn(h) + FramesIn(r) = FramesIn(q) /\ Bytes(o) \in Nat /\ Bytes(r) \in Nat
      /\ FramesIn(h) \in Nat /\ FramesIn(r) \in Nat /\ \A e : Chain(q, e) => Chain(r, e)
  BY <1>2, TurnParts
<1>4. /\ w.queue = r /\ w.pending = u.pending /\ w.bytes = u.bytes - Bytes(o) /\ w.frames = u.frames - FramesIn(h)
      /\ w.dropping = u.dropping /\ w.dropped = u.dropped /\ w.anchor = u.anchor /\ w.cutoff = u.cutoff
  BY <1>1 DEF TurnLeft, Taps
<1>4a. w = [queue |-> w.queue, pending |-> w.pending, frames |-> w.frames, bytes |-> w.bytes,
            dropping |-> w.dropping, anchor |-> w.anchor, dropped |-> w.dropped, cutoff |-> w.cutoff]
  <2> DEFINE b == u.bytes - Bytes(o)
             c == u.frames - FramesIn(h)
  <2>1. w = [u EXCEPT !.queue = r, !.bytes = b, !.frames = c]
    BY DEF TurnLeft
  <2> HIDE DEF w, r, b, c
  <2> QED BY <1>1, <2>1 DEF Taps
<1>5. d = (IF TurnMore(u) THEN w ELSE Closed(w)) /\ Drained(t).more = TurnMore(u)
      /\ Drained(t).out = (IF TurnMore(u) THEN o ELSE o \o OpenGap(t))
      /\ (TurnMore(u) <=> r # << >> \/ u.pending # None)
  BY DrainedParts DEF TurnMore, u
<1> HIDE DEF o, r, h, w, d, q
<1>6. Drained(t).out \in Seq(Part) /\ Drained(t).more \in BOOLEAN
  <2>1. OpenGap(t) \in Seq(Part)
    <3>1. CASE t.dropping
      BY <3>1, GapPart, SingleWeighs
    <3>2. CASE ~t.dropping
      BY <3>2 DEF OpenGap
    <3> QED BY <3>1, <3>2
  <2>2. o \o OpenGap(t) \in Seq(Part)
    BY <1>3, <2>1, ConcatWeighs
  <2> QED BY <1>3, <1>5, <2>2 DEF TurnMore
(* The queue with its pending frame, before and after.                     *)
<1>7. PICK p \in Part \cup {None} : p = u.pending /\ (p # None => IsFrame(p) /\ p \in Part)
  BY <1>2 DEF FrameParts
<1> DEFINE stop == IF t.dropping THEN t.anchor ELSE end
           r2 == IF p = None THEN r ELSE Append(r, p)
<1>8. /\ Queued(u) = (IF p = None THEN q ELSE Append(q, p)) /\ Chain(Queued(u), stop)
      /\ u.frames = FramesIn(Queued(u)) /\ u.bytes = Bytes(Queued(u))
  BY <1>1, <1>7, TapFacts DEF Tiles, q
<1>9. /\ r2 \in Seq(Part) /\ Chain(r2, stop)
      /\ Bytes(r2) = u.bytes - Bytes(o) /\ FramesIn(r2) = u.frames - FramesIn(h)
      /\ Bytes(r2) <= u.bytes /\ FramesIn(r2) <= u.frames /\ Bytes(r2) \in Nat /\ FramesIn(r2) \in Nat
  <2> HIDE DEF stop
  <2>0. Bytes(q) \in Nat /\ FramesIn(q) \in Nat
    BY <1>3
  <2>1. CASE p = None
    BY <1>3, <1>8, <2>0, <2>1
  <2>2. CASE p # None
    <3>1. r2 = Append(r, p) /\ Queued(u) = Append(q, p) /\ p \in Part /\ IsFrame(p) /\ Size(p) \in Nat
      BY <1>7, <1>8, <2>2, PartFacts
    <3>2. r2 \in Seq(Part) /\ Bytes(r2) = Bytes(r) + Size(p) /\ FramesIn(r2) = FramesIn(r) + 1
      BY <1>3, <3>1, AppendWeighs
    <3>3. u.bytes = Bytes(q) + Size(p) /\ u.frames = FramesIn(q) + 1
      BY <1>2, <1>8, <3>1, AppendWeighs DEF q
    <3>4. Chain(q, p.from) /\ p.to = stop
      BY <1>2, <1>8, <3>1, ChainAppend DEF q
    <3>5. Chain(r2, stop)
      BY <1>3, <3>1, <3>4, ChainAppend
    <3> HIDE DEF r2
    <3>6. Bytes(r2) = u.bytes - Bytes(o) /\ Bytes(r2) <= u.bytes /\ Bytes(r2) \in Nat
      BY <1>3, <3>1, <3>2, <3>3
    <3>7. FramesIn(r2) = u.frames - FramesIn(h) /\ FramesIn(r2) <= u.frames /\ FramesIn(r2) \in Nat
      BY <1>3, <3>2, <3>3
    <3> QED BY <3>2, <3>5, <3>6, <3>7
  <2> QED BY <2>1, <2>2
<1>10. w \in Taps
  <2> HIDE DEF stop
  <2>1. w.frames \in Nat /\ w.bytes \in Nat
    <3> HIDE DEF r2
    <3> QED BY <1>4, <1>9
  <2>2. w.dropping \in BOOLEAN /\ w.anchor \in Offsets /\ w.dropped \in Offsets /\ w.cutoff \in Offsets
    BY <1>0, <1>1, <1>4
  <2> QED BY <1>2, <1>3, <1>4, <1>4a, <2>1, <2>2 DEF Taps
<1>11. Queued(w) = r2 /\ w.frames = FramesIn(r2) /\ w.bytes = Bytes(r2)
  <2>1. Queued(w) = r2
    BY <1>4, <1>7, <1>10, TapFacts
  <2> HIDE DEF r2, stop
  <2> QED BY <1>4, <1>9, <2>1
<1>12. w.frames <= QueueDepth /\ w.bytes <= QueueBytes
  <2>1. u.frames <= QueueDepth /\ u.bytes <= QueueBytes
    BY <1>1 DEF Tiles
  <2> HIDE DEF r2, stop
  <2> QED BY <1>0, <1>1, <1>9, <1>11, <2>1, Limits
<1>13. r2 # << >> => Queued(t) # << >>
  <2>1. CASE p = None
    <3>1. q = << >> => r = << >>
      <4> SUFFICES ASSUME q = << >> PROVE r = << >>
        OBVIOUS
      <4>1. Len(q) = 0 /\ TurnItems(q) \in 0 .. Len(q)
        BY <1>2, TurnFacts DEF q
      <4>2. ~TurnSplits(q)
        BY <4>1 DEF TurnSplits
      <4>3. r = SubSeq(q, TurnItems(q) + 1, Len(q))
        BY <4>2 DEF r, TurnRest
      <4>4. TurnItems(q) = 0
        BY <4>1
      <4> QED BY <4>1, <4>3, <4>4
    <3> QED BY <1>1, <1>8, <2>1, <3>1
  <2>2. CASE p # None
    <3>1. Queued(u) = Append(q, p)
      BY <1>8, <2>2
    <3>2. Queued(u) # << >>
      BY <1>2, <1>7, <3>1 DEF q
    <3> QED BY <1>1, <3>2
  <2> QED BY <2>1, <2>2
<1>14. Tiles(w, end)
  <2>1. /\ (t.dropping => t.dropped > 0 /\ t.anchor + t.dropped = end) /\ (~t.dropping => t.dropped = 0)
        /\ ((Queued(t) # << >> \/ t.dropping) => t.cutoff < end)
    BY DEF Tiles
  <2>2. (w.dropping <=> t.dropping) /\ w.dropped = t.dropped /\ w.anchor = t.anchor /\ w.cutoff = t.cutoff
    BY <1>1, <1>4
  <2>3. Chain(Queued(w), IF w.dropping THEN w.anchor ELSE end)
    BY <1>9, <1>11, <2>2
  <2> HIDE DEF r2, stop
  <2>4. (Queued(w) # << >> \/ w.dropping) => w.cutoff < end
    BY <1>11, <1>13, <2>1, <2>2
  <2> QED BY <1>10, <1>11, <1>12, <2>1, <2>2, <2>3, <2>4 DEF Tiles
<1>15. CASE TurnMore(u)
  <2>1. d = w
    BY <1>5, <1>15
  <2> QED BY <1>6, <1>14, <2>1 DEF d
<1>16. CASE ~TurnMore(u)
  <2>1. r = << >> /\ u.pending = None /\ d = Closed(w)
    BY <1>5, <1>16
  <2>2. w.queue = << >> /\ w.pending = None
    BY <1>4, <2>1
  <2>3. /\ d.queue = w.queue /\ d.pending = w.pending /\ d.frames = w.frames /\ d.bytes = w.bytes
        /\ d.dropping = FALSE /\ d.dropped = 0 /\ d.anchor = w.anchor /\ d.cutoff = w.cutoff /\ d \in Taps
    <3>1. 0 \in Offsets
      BY Limits DEF Offsets
    <3> QED BY <1>10, <2>1, <3>1 DEF Closed, Taps
  <2>4. Queued(d) = << >> /\ Queued(w) = << >>
    BY <1>10, <2>2, <2>3, TapFacts
  <2>5. Tiles(d, end)
    <3>1. d.frames = FramesIn(Queued(d)) /\ d.bytes = Bytes(Queued(d)) /\ d.frames <= QueueDepth /\ d.bytes <= QueueBytes
      BY <1>14, <2>3, <2>4 DEF Tiles
    <3> QED BY <2>3, <2>4, <3>1, EmptyChain DEF Tiles
  <2> QED BY <1>6, <2>5 DEF d
<1> QED BY <1>15, <1>16

-----------------------------------------------------------------------------
(* The pane                                                                *)

Panes ==
    [synced : BOOLEAN, cursor : Offsets, pending : Seq(Items), catchup : BOOLEAN,
     awaiting : BOOLEAN, overflow : BOOLEAN, skip : BOOLEAN, shown : BOOLEAN,
     sent : Nat, known : BOOLEAN]

Screens == [from : Offsets, to : Offsets, whole : BOOLEAN]

Messages == Items \cup [kind : {"reply"}, attempt : Nat, body : Snapshots \cup Replays]

(* An attach, as the pane sends it and is after it.                        *)
LEMMA AttachingTypes ==
    ASSUME NEW p \in Panes, NEW resume \in BOOLEAN
    PROVE  /\ Attaching(p) \in Panes /\ Unsynced(p) \in Panes /\ AttachMsg(p, resume) \in Attaches
           /\ Attaching(p).sent = p.sent + 1 /\ Unsynced(p).sent = p.sent
<1>1. Wants(p) \in BOOLEAN /\ 0 \in Offsets /\ << >> \in Seq(Items) /\ p.sent + 1 \in Nat
  BY PaneStreamAssumption, Limits DEF Wants, Panes, Offsets
<1>2. Attaching(p) \in Panes /\ Attaching(p).sent = p.sent + 1
  BY <1>1 DEF Attaching, Panes
<1>3. Unsynced(p) \in Panes /\ Unsynced(p).sent = p.sent
  BY <1>1 DEF Unsynced, Panes
<1>4. AttachMsg(p, resume) \in Attaches
  BY <1>1 DEF AttachMsg, Attaches, Panes
<1> QED BY <1>2, <1>3, <1>4

(* Painting.                                                               *)
LEMMA PaintedTypes ==
    ASSUME NEW s \in Screens, NEW a \in Offsets, NEW b \in Offsets
    PROVE  Painted(s, a, b) \in Screens
BY DEF Painted, Screens

(* The larger of two offsets, and where a write starts, are offsets.       *)
LEMMA MaxOfTypes ==
    ASSUME NEW a \in Offsets, NEW b \in Offsets
    PROVE  MaxOf(a, b) \in Offsets /\ WriteStart(a, b) \in Offsets
BY DEF MaxOf, WriteStart

(* Where the pane's writes of its held frames can lead: whatever set each  *)
(* of them stays in.                                                       *)
LEMMA SyncedStays ==
    ASSUME NEW S, NEW p, NEW cursor, NEW s, NEW pending \in Seq(Items),
           [cursor |-> cursor, screen |-> s] \in S,
           \A w \in S : \A k \in 1 .. Len(pending) : WriteExempt(w, pending[k]) \in S,
           SyncedAt(p, cursor, s, pending)
    PROVE  \E w \in S : /\ pane' = [p EXCEPT !.synced = TRUE, !.catchup = FALSE, !.pending = << >>,
                                             !.cursor = w.cursor]
                        /\ screen' = w.screen
<1> DEFINE C == Len(pending)
           first == [cursor |-> cursor, screen |-> s]
           step == [x \in Nat \X S |-> IF x[1] \in 1 .. C THEN WriteExempt(x[2], pending[x[1]]) ELSE x[2]]
           Solves(g) == g = [n \in 0 .. C |-> IF n = 0 THEN first ELSE WriteExempt(g[n - 1], pending[n])]
           g == CHOOSE h : Solves(h)
<1>1. C \in Nat
  OBVIOUS
<1> HIDE DEF C
<1>2. step \in [Nat \X S -> S]
  BY DEF C
<1>3. \E f : Iteration(f, S, first, step, C)
  <2> HIDE DEF step
  <2> QED BY <1>1, <1>2, Iterates
<1>4. PICK f \in [0 .. C -> S] : f[0] = first /\ \A k \in 1 .. C : f[k] = step[<<k, f[k - 1]>>]
  <2> HIDE DEF step, first
  <2> QED BY <1>3 DEF Iteration
<1>5. Solves(f)
  <2> HIDE DEF first
  <2>1. ASSUME NEW n \in 0 .. C, n # 0 PROVE f[n] = WriteExempt(f[n - 1], pending[n])
    <3>1. n \in 1 .. C /\ n - 1 \in 0 .. C /\ n \in Nat /\ f[n - 1] \in S
      BY <1>1, <1>4, <2>1
    <3>2. f[n] = step[<<n, f[n - 1]>>]
      BY <1>4, <3>1
    <3> QED BY <3>1, <3>2
  <2>2. \A n \in 0 .. C : f[n] = IF n = 0 THEN first ELSE WriteExempt(f[n - 1], pending[n])
    BY <1>4, <2>1
  <2> QED BY <1>4, <2>2, f = [n \in 0 .. C |-> f[n]]
<1>6. Solves(g)
  BY <1>5
<1>7. /\ pane' = [p EXCEPT !.synced = TRUE, !.catchup = FALSE, !.pending = << >>, !.cursor = g[C].cursor]
      /\ screen' = g[C].screen
  BY DEF SyncedAt, C
<1> HIDE DEF g, first
<1> DEFINE T == {k \in Nat : k \in 0 .. C => g[k] \in S}
<1>8. 0 \in T
  BY <1>1, <1>6 DEF first
<1>9. ASSUME NEW k \in Nat, k \in T PROVE k + 1 \in T
  <2> SUFFICES ASSUME k + 1 \in 0 .. C PROVE g[k + 1] \in S
    OBVIOUS
  <2>1. k \in 0 .. C /\ k + 1 # 0 /\ (k + 1) - 1 = k /\ k + 1 \in 1 .. C
    BY <1>1
  <2>2. g[k] \in S /\ g[k + 1] = WriteExempt(g[k], pending[k + 1])
    BY <1>6, <1>9, <2>1
  <2> QED BY <2>1, <2>2 DEF C
<1> HIDE DEF T
<1>10. g[C] \in S
  <2>1. C \in T
    BY <1>1, <1>8, <1>9, SetInduction
  <2> QED BY <1>1, <2>1 DEF T
<1> QED BY <1>7, <1>10

(* Held frames written: the pane and its screen keep their shapes.         *)
LEMMA SyncedTypes ==
    ASSUME NEW p \in Panes, NEW cursor \in Offsets, NEW s \in Screens, NEW pending \in Seq(Items),
           SyncedAt(p, cursor, s, pending)
    PROVE  pane' \in Panes /\ screen' \in Screens /\ pane'.sent = p.sent
<1> DEFINE S == [cursor : Offsets, screen : Screens]
<1>1. [cursor |-> cursor, screen |-> s] \in S
  OBVIOUS
<1>2. ASSUME NEW w \in S, NEW k \in 1 .. Len(pending) PROVE WriteExempt(w, pending[k]) \in S
  <2>1. pending[k] \in Items /\ w.cursor \in Offsets /\ w.screen \in Screens
    OBVIOUS
  <2>2. pending[k].from \in Offsets /\ pending[k].to \in Offsets
    BY <2>1 DEF Items
  <2>3. WriteStart(pending[k].from, w.cursor) \in Offsets
    BY <2>1, <2>2, MaxOfTypes
  <2>4. Painted(w.screen, WriteStart(pending[k].from, w.cursor), pending[k].to) \in Screens
    BY <2>1, <2>2, <2>3, PaintedTypes
  <2> QED BY <2>2, <2>4 DEF WriteExempt
<1> HIDE DEF S
<1>3. \E w \in S : /\ pane' = [p EXCEPT !.synced = TRUE, !.catchup = FALSE, !.pending = << >>,
                                        !.cursor = w.cursor]
                   /\ screen' = w.screen
  BY <1>1, <1>2, SyncedStays
<1>4. PICK w \in S : /\ pane' = [p EXCEPT !.synced = TRUE, !.catchup = FALSE, !.pending = << >>,
                                          !.cursor = w.cursor]
                     /\ screen' = w.screen
  BY <1>3
<1>5. w.cursor \in Offsets /\ w.screen \in Screens /\ << >> \in Seq(Items)
  BY DEF S
<1> QED BY <1>4, <1>5 DEF Panes

-----------------------------------------------------------------------------
(* The shape of every variable                                             *)

Requests == {[kind |-> "show"], [kind |-> "hide"]} \cup Attaches
Replies == [kind : {"reply"}, attempt : Nat, body : Snapshots \cup Replays]
Landings == {NoLanding} \cup Attaches \cup Snapshots \cup Replays

(* The ring, and the chunk pushed last if it is not offered yet.           *)
RingShape ==
    /\ ring \in [start : Offsets, seen : Offsets] /\ ring.start <= ring.seen
    /\ fresh \in FrameParts \cup {None} /\ (fresh # None => fresh.to = ring.seen)

LoopShape ==
    /\ visible \in BOOLEAN /\ held \in BOOLEAN /\ wake \in BOOLEAN
    /\ attempts \in Nat /\ landing \in Landings

LinkShape == inbox \in Seq(Requests) /\ wire \in Seq(Messages)

PaneShape == pane \in Panes /\ screen \in Screens /\ faults \subseteq Faults \cup Leaks

Shapes == RingShape /\ LoopShape /\ LinkShape /\ PaneShape

(* What the kind of a message says of it.                                  *)
LEMMA KindFacts ==
    /\ \A x \in Requests : x.kind = "attach" => x \in Attaches
    /\ \A x \in Landings : x.kind = "attach" => x \in Attaches
    /\ \A x \in Landings : x.kind \in {"snapshot", "replay"} => x \in Snapshots \cup Replays /\ x.to \in Offsets
    /\ \A x \in Landings : x # NoLanding => x.kind # "none"
    /\ \A x \in Messages : x.kind \in {"frame", "gap"} => x \in Items /\ x.from \in Offsets /\ x.to \in Offsets
    /\ \A x \in Messages : x.kind = "reply" => x \in Replies /\ x.attempt \in Nat /\ x.body \in Snapshots \cup Replays
    /\ \A x \in Snapshots \cup Replays : x.kind = "replay" => x \in Replays /\ x.from \in Offsets /\ x.to \in Offsets
    /\ \A x \in Snapshots \cup Replays : x.kind = "snapshot" => x.to \in Offsets
<1>1. \A x \in Requests : x.kind = "attach" => x \in Attaches
  BY DEF Requests, Attaches
<1>2. \A x \in Landings : x.kind = "attach" => x \in Attaches
  BY DEF Landings, NoLanding, Snapshots, Replays
<1>3. \A x \in Landings : x.kind \in {"snapshot", "replay"} => x \in Snapshots \cup Replays /\ x.to \in Offsets
  BY DEF Landings, NoLanding, Attaches, Snapshots, Replays
<1>4. \A x \in Landings : x # NoLanding => x.kind # "none"
  BY DEF Landings, Attaches, Snapshots, Replays
<1>5. \A x \in Messages : x.kind \in {"frame", "gap"} => x \in Items /\ x.from \in Offsets /\ x.to \in Offsets
  BY DEF Messages, Items
<1>6. \A x \in Messages : x.kind = "reply" => x \in Replies /\ x.attempt \in Nat /\ x.body \in Snapshots \cup Replays
  BY DEF Messages, Items, Replies
<1>7. \A x \in Snapshots \cup Replays : x.kind = "replay" => x \in Replays /\ x.from \in Offsets /\ x.to \in Offsets
  BY DEF Snapshots, Replays
<1>8. \A x \in Snapshots \cup Replays : x.kind = "snapshot" => x.to \in Offsets
  BY DEF Snapshots, Replays
<1> QED BY <1>1, <1>2, <1>3, <1>4, <1>5, <1>6, <1>7, <1>8

(* A push leaves the ring with its last byte, and the chunk to be offered. *)
LEMMA PushShape ==
    ASSUME RingShape, NEW n \in Chunks, Push(n)
    PROVE  RingShape' /\ fresh' # None /\ fresh'.from = ring.seen /\ ring.seen \in Nat
<1> DEFINE seen == ring.seen + n
<1>1. n \in Nat /\ n # 0 /\ ring.seen \in Nat /\ ring.start \in Nat /\ ring.start <= ring.seen
  BY Limits DEF RingShape, Offsets
<1>2. seen \in Nat /\ seen <= MaxOutput /\ ring.seen < seen /\ fresh' = Frame(ring.seen, seen)
  BY <1>1, Limits DEF Push
<1> HIDE DEF seen
<1>3. fresh' \in FrameParts /\ fresh'.from = ring.seen /\ fresh'.to = seen
  BY <1>1, <1>2, Limits DEF Frame, FrameParts, Part, Items, Offsets, IsFrame
<1>4. ring' \in [start : Offsets, seen : Offsets] /\ ring'.start <= ring'.seen /\ ring'.seen = seen
  <2>1. CASE seen - ring.start > RingCap + TrimSlack
    <3>1. PICK cut \in SafeCut(seen - RingCap, seen) : ring' = [start |-> cut, seen |-> seen]
      BY <2>1 DEF Push, seen
    <3>2. seen - RingCap \in Nat
      BY <1>1, <1>2, <2>1, Limits
    <3>3. cut \in Nat /\ cut <= seen
      BY <1>2, <3>2, Limits DEF SafeCut
    <3> QED BY <1>2, <3>1, <3>3, Limits DEF Offsets
  <2>2. CASE ~(seen - ring.start > RingCap + TrimSlack)
    <3>1. ring' = [ring EXCEPT !.seen = seen]
      BY <2>2 DEF Push, seen
    <3>2. ring \in [start : Offsets, seen : Offsets] /\ seen \in Offsets
      BY <1>2, Limits DEF RingShape, Offsets
    <3> QED BY <1>1, <1>2, <3>1, <3>2 DEF Offsets
  <2> QED BY <2>1, <2>2
<1>5. fresh' # None
  BY <1>3, NoneIsNoItem
<1> QED BY <1>1, <1>3, <1>4, <1>5 DEF RingShape

(* The other steps leave the ring.                                         *)
LEMMA RingStep ==
    ASSUME RingShape, [Next]_vars
    PROVE  RingShape'
<1>1. CASE UNCHANGED <<ring, fresh>>
  BY <1>1 DEF RingShape
<1>2. CASE \E n \in Chunks : Push(n)
  BY <1>2, PushShape
<1>3. CASE Offer
  <2>1. ring' = ring /\ fresh' = None
    BY <1>3 DEF Offer
  <2> QED BY <2>1 DEF RingShape
<1>4. CASE Loop
  BY <1>1, <1>4 DEF Loop, HandleShow, HandleHide, HandleAttach, Prepare, Land, LandError, Flush
<1>5. CASE Receive
  BY <1>1, <1>5 DEF Receive, FrameLive, FrameHeld, ReceiveGap, ReceiveStale, ReceiveReplay, ReceiveSnapshot, server
<1>6. CASE Hide \/ Show \/ Reconnect
  BY <1>1, <1>6 DEF Hide, Show, Reconnect, server
<1>7. CASE UNCHANGED vars
  BY <1>1, <1>7 DEF vars, server
<1> QED BY <1>2, <1>3, <1>4, <1>5, <1>6, <1>7 DEF Next

(* The replies prepare_attach makes.                                       *)
LEMMA PreparedShape ==
    ASSUME RingShape, LoopShape, Prepare
    PROVE  landing' \in Snapshots \cup Replays
<1>1. landing \in Attaches /\ landing.from \in Nat /\ landing.from \in Offsets
  <2>1. landing \in Attaches
    BY KindFacts DEF Prepare, LoopShape
  <2> QED BY <2>1 DEF Attaches, Offsets
<1>2. ring.seen \in Nat /\ ring.start \in Nat /\ ring.start <= ring.seen /\ ring.seen <= MaxOutput
  BY Limits DEF RingShape, Offsets
<1>3. ASSUME NEW a \in Nat, a <= ring.seen, NEW d \in Nat, d <= ring.seen + SgrLen
      PROVE  Replay(a, d) \in Replays
  BY <1>2, <1>3, Limits DEF Replay, Replays, Offsets
<1>4. ASSUME NEW a \in Nat, a <= ring.seen PROVE Partial(a) \in Replays
  BY <1>2, <1>3, <1>4, Limits DEF Partial
<1>5. CASE landing' = [kind |-> "snapshot", to |-> ring.seen]
  BY <1>2, <1>5, Limits DEF Snapshots, Offsets
<1>6. CASE Resumable /\ landing' = Replay(landing.from, ring.seen - landing.from)
  <2>1. landing.from <= ring.seen
    BY <1>6 DEF Resumable
  <2> QED BY <1>1, <1>2, <1>3, <1>6, <2>1, Limits
<1>7. CASE ring.seen - ring.start > ReplayBytes
           /\ \E cut \in SafeCut(ring.seen - ReplayBytes, ring.seen) : landing' = Partial(cut)
  <2>1. PICK cut \in SafeCut(ring.seen - ReplayBytes, ring.seen) : landing' = Partial(cut)
    BY <1>7
  <2>2. cut \in Nat /\ cut <= ring.seen
    BY <1>2, <1>7, Limits DEF SafeCut
  <2> QED BY <1>4, <2>1, <2>2
<1>8. CASE landing' = Partial(ring.start)
  BY <1>2, <1>4, <1>8
<1> QED BY <1>5, <1>6, <1>7, <1>8 DEF Prepare

(* The loop's own variables.                                               *)
LEMMA LoopStep ==
    ASSUME Shapes, Tiles(tap, IF fresh # None THEN fresh.from ELSE ring.seen), [Next]_vars
    PROVE  LoopShape'
<1> USE DEF LoopShape
<1>0. Shapes => LoopShape /\ RingShape /\ inbox \in Seq(Requests)
  BY DEF Shapes, LinkShape
<1>1. CASE UNCHANGED <<visible, held, wake, attempts, landing>>
  BY <1>0, <1>1
<1>2. CASE \E n \in Chunks : Push(n)
  BY <1>1, <1>2 DEF Push
<1>3. CASE Offer
  BY <1>0, <1>3 DEF Offer
<1>4. CASE HandleShow \/ HandleHide
  BY <1>0, <1>4 DEF HandleShow, HandleHide
<1>5. CASE HandleAttach
  <2>1. landing' = Head(inbox) /\ Head(inbox) \in Requests /\ Head(inbox).kind = "attach"
    BY <1>0, <1>5 DEF HandleAttach, Request
  <2>2. landing' \in Attaches
    BY <2>1, KindFacts
  <2> QED BY <1>0, <1>5, <2>2 DEF HandleAttach, Landings
<1>6. CASE Prepare
  <2>1. landing' \in Snapshots \cup Replays
    BY <1>0, <1>6, PreparedShape
  <2> QED BY <1>0, <1>6, <2>1 DEF Prepare, Landings
<1>7. CASE Land \/ LandError
  <2>1. /\ visible' = visible /\ held' = FALSE /\ wake' = TRUE /\ attempts' = attempts + 1 /\ landing' = NoLanding
    BY <1>7 DEF Land, LandError
  <2>2. attempts' \in Nat /\ landing' \in Landings
    BY <1>0, <2>1 DEF Landings
  <2>3. visible \in BOOLEAN
    BY <1>0
  <2> QED BY <2>1, <2>2, <2>3, Zenon
<1>8. CASE Flush
  <2>1. CASE visible /\ ~held
    <3>1. wake' = Drained(tap).more
      BY <1>8, <2>1 DEF Flush
    <3>2. (IF fresh # None THEN fresh.from ELSE ring.seen) \in Offsets
      BY <1>0 DEF RingShape, FrameParts, Part, Items
    <3>3. Drained(tap).more \in BOOLEAN
      BY <3>2, DrainedTiles
    <3> QED BY <1>0, <1>8, <3>1, <3>3 DEF Flush
  <2>2. CASE ~(visible /\ ~held)
    BY <1>0, <1>8, <2>2 DEF Flush
  <2> QED BY <2>1, <2>2
<1>9. CASE Receive
  BY <1>1, <1>9 DEF Receive, FrameLive, FrameHeld, ReceiveGap, ReceiveStale, ReceiveReplay, ReceiveSnapshot, server
<1>10. CASE Hide \/ Show
  BY <1>1, <1>10 DEF Hide, Show, server
<1>11. CASE Reconnect
  BY <1>0, <1>11 DEF Reconnect, Landings
<1>12. CASE UNCHANGED vars
  BY <1>1, <1>12 DEF vars, server
<1> QED BY <1>2, <1>3, <1>4, <1>5, <1>6, <1>7, <1>8, <1>9, <1>10, <1>11, <1>12 DEF Next, Loop

(* A pane that starts over.                                                *)
LEMMA ResetShape ==
    ASSUME NEW p \in Panes, inbox \in Seq(Requests), ResetAndReattach(p)
    PROVE  inbox' \in Seq(Requests) /\ pane' \in Panes /\ screen' \in Screens
<1>1. Unsynced(p) \in Panes
  BY AttachingTypes
<1>2. Attaching(Unsynced(p)) \in Panes /\ AttachMsg(Unsynced(p), FALSE) \in Attaches
  BY <1>1, AttachingTypes
<1>3. BlankScreen \in Screens
  BY Limits DEF BlankScreen, Screens, Offsets
<1> DEFINE m == AttachMsg(Unsynced(p), FALSE)
<1>4. m \in Requests
  BY <1>2 DEF Requests
<1>5. inbox' = Append(inbox, m) /\ pane' = Attaching(Unsynced(p)) /\ screen' = BlankScreen
  BY DEF ResetAndReattach
<1> HIDE DEF m
<1>6. inbox' \in Seq(Requests)
  BY <1>4, <1>5
<1> QED BY <1>2, <1>3, <1>5, <1>6

(* The messages on their way.                                              *)
LEMMA LinkStep ==
    ASSUME Shapes, Tiles(tap, IF fresh # None THEN fresh.from ELSE ring.seen), [Next]_vars
    PROVE  LinkShape'
<1> USE DEF LinkShape
<1>0. RingShape /\ LoopShape /\ inbox \in Seq(Requests) /\ wire \in Seq(Messages) /\ pane \in Panes
  BY DEF Shapes, PaneShape
<1>1. CASE UNCHANGED <<inbox, wire>>
  BY <1>0, <1>1
<1>2. CASE (\E n \in Chunks : Push(n)) \/ Offer \/ Prepare \/ LandError
  BY <1>1, <1>2 DEF Push, Offer, Prepare, LandError
<1>3. CASE HandleShow \/ HandleHide \/ HandleAttach
  <2>1. inbox # << >> /\ inbox' = Tail(inbox) /\ wire' = wire
    BY <1>3 DEF HandleShow, HandleHide, HandleAttach, Request
  <2> QED BY <1>0, <2>1
<1>4. CASE Land
  <2>1. landing \in Snapshots \cup Replays /\ attempts + 1 \in Nat
    BY <1>0, <1>4, KindFacts DEF Land, LoopShape
  <2>2. [kind |-> "reply", attempt |-> attempts + 1, body |-> landing] \in Messages
    BY <2>1 DEF Messages
  <2> QED BY <1>0, <1>4, <2>2 DEF Land
<1>5. CASE Flush
  <2>1. CASE visible /\ ~held
    <3>1. wire' = wire \o Drained(tap).out /\ inbox' = inbox
      BY <1>5, <2>1 DEF Flush
    <3>2. (IF fresh # None THEN fresh.from ELSE ring.seen) \in Offsets
      BY <1>0 DEF RingShape, FrameParts, Part, Items
    <3>3. Drained(tap).out \in Seq(Part)
      BY <3>2, DrainedTiles
    <3>4. Drained(tap).out \in Seq(Messages)
      <4>1. Part \subseteq Messages
        BY DEF Part, Messages
      <4> QED BY <3>3, <4>1
    <3> QED BY <1>0, <3>1, <3>4
  <2>2. CASE ~(visible /\ ~held)
    BY <1>0, <1>5, <2>2 DEF Flush
  <2> QED BY <2>1, <2>2
<1>6. CASE Receive
  <2>1. wire # << >> /\ wire' = Tail(wire)
    BY <1>6 DEF Receive, FrameLive, FrameHeld, ReceiveGap, ReceiveStale, ReceiveReplay, ReceiveSnapshot, Received, Reply
  <2>2. wire' \in Seq(Messages)
    BY <1>0, <2>1
  <2>3. ASSUME NEW p \in Panes, ResetAndReattach(p) PROVE inbox' \in Seq(Requests)
    BY <1>0, <2>3, ResetShape
  <2>4. inbox' \in Seq(Requests)
    <3>1. CASE FrameLive
      <4>1. AttachMsg(pane, FALSE) \in Requests
        BY <1>0, AttachingTypes DEF Requests
      <4>2. \/ inbox' = inbox \/ ResetAndReattach(pane)
            \/ inbox' = Append(inbox, AttachMsg(pane, FALSE))
        BY <3>1 DEF FrameLive
      <4>3. Append(inbox, AttachMsg(pane, FALSE)) \in Seq(Requests)
        <5> DEFINE m == AttachMsg(pane, FALSE)
        <5>1. m \in Requests
          BY <4>1
        <5> HIDE DEF m
        <5>2. Append(inbox, m) \in Seq(Requests)
          BY <1>0, <5>1
        <5> QED BY <5>2 DEF m
      <4> QED BY <1>0, <2>3, <4>2, <4>3
    <3>2. CASE FrameHeld
      BY <1>0, <2>3, <3>2 DEF FrameHeld
    <3>3. CASE ReceiveGap
      BY <1>0, <2>3, <3>3 DEF ReceiveGap
    <3>4. CASE ReceiveStale
      BY <1>0, <3>4 DEF ReceiveStale
    <3> DEFINE answered == [pane EXCEPT !.known = TRUE, !.awaiting = FALSE, !.overflow = FALSE]
    <3>5. answered \in Panes /\ [answered EXCEPT !.skip = TRUE] \in Panes
      BY <1>0 DEF Panes
    <3>6. CASE ReceiveReplay
      <4>1. inbox' = inbox \/ ResetAndReattach(answered)
        BY <3>6 DEF ReceiveReplay
      <4> HIDE DEF answered
      <4> QED BY <1>0, <2>3, <3>5, <4>1
    <3>7. CASE ReceiveSnapshot
      <4>1. inbox' = inbox \/ ResetAndReattach([answered EXCEPT !.skip = TRUE])
        BY <3>7 DEF ReceiveSnapshot
      <4> HIDE DEF answered
      <4> QED BY <1>0, <2>3, <3>5, <4>1
    <3> QED BY <1>6, <3>1, <3>2, <3>3, <3>4, <3>6, <3>7 DEF Receive
  <2> QED BY <2>2, <2>4
<1>7. CASE Hide
  <2>1. [kind |-> "hide"] \in Requests
    BY DEF Requests
  <2> QED BY <1>0, <1>7, <2>1 DEF Hide
<1>8. CASE Show
  <2> DEFINE resume == pane.synced /\ KeepsScreen
             p == [pane EXCEPT !.catchup = TRUE, !.skip = @ \/ resume, !.shown = TRUE]
  <2>1. resume \in BOOLEAN /\ p \in Panes
    BY <1>0, PaneStreamAssumption DEF Panes
  <2>2. inbox' = inbox \o <<[kind |-> "show"], AttachMsg(p, resume)>> /\ wire' = wire
    BY <1>8 DEF Show
  <2> HIDE DEF p, resume
  <2>3. AttachMsg(p, resume) \in Requests /\ [kind |-> "show"] \in Requests
    BY <2>1, AttachingTypes DEF Requests
  <2> DEFINE m == AttachMsg(p, resume)
             s == [kind |-> "show"]
  <2>4. s \in Requests /\ m \in Requests /\ inbox' = inbox \o <<s, m>>
    BY <2>2, <2>3
  <2> HIDE DEF m, s
  <2> QED BY <1>0, <2>2, <2>4
<1>9. CASE Reconnect
  <2> DEFINE p == Unsynced([pane EXCEPT !.sent = 0, !.known = FALSE])
  <2>1. [pane EXCEPT !.sent = 0, !.known = FALSE] \in Panes
    BY <1>0 DEF Panes
  <2>2. p \in Panes
    BY <2>1, AttachingTypes
  <2>3. inbox' = <<AttachMsg(p, FALSE)>> /\ wire' = << >>
    BY <1>9 DEF Reconnect
  <2> HIDE DEF p
  <2>4. AttachMsg(p, FALSE) \in Requests
    BY <2>2, AttachingTypes DEF Requests
  <2> DEFINE m == AttachMsg(p, FALSE)
  <2>5. m \in Requests /\ inbox' = <<m>>
    BY <2>3, <2>4
  <2> HIDE DEF m
  <2>6. <<m>> \in Seq(Requests) /\ << >> \in Seq(Messages)
    BY <2>5
  <2> QED BY <2>3, <2>5, <2>6
<1>10. CASE UNCHANGED vars
  BY <1>1, <1>10 DEF vars
<1> QED BY <1>2, <1>3, <1>4, <1>5, <1>6, <1>7, <1>8, <1>9, <1>10 DEF Next, Loop

(* The pane and what it shows.                                             *)
LEMMA PaneStep ==
    ASSUME Shapes, [Next]_vars
    PROVE  PaneShape'
<1>0. /\ pane \in Panes /\ screen \in Screens /\ faults \subseteq Faults \cup Leaks
      /\ inbox \in Seq(Requests) /\ wire \in Seq(Messages)
  BY DEF Shapes, LinkShape, PaneShape
<1>1. faults' \subseteq Faults \cup Leaks
  BY <1>0 DEF Next, vars, client, Push, Offer, Loop, HandleShow, HandleHide, HandleAttach, Prepare, Land, LandError,
              Flush, Receive, FrameLive, FrameHeld, ReceiveGap, ReceiveStale, ReceiveReplay, ReceiveSnapshot, Hide,
              Show, Reconnect, Fault, Faults, Leaks
<1>2. CASE UNCHANGED <<pane, screen>>
  BY <1>0, <1>1, <1>2 DEF PaneShape
<1>3. CASE (\E n \in Chunks : Push(n)) \/ Offer \/ Loop \/ UNCHANGED vars
  BY <1>2, <1>3 DEF vars, client, Push, Offer, Loop, HandleShow, HandleHide, HandleAttach, Prepare, Land, LandError, Flush
<1> SUFFICES ASSUME Receive \/ Hide \/ Show \/ Reconnect PROVE pane' \in Panes /\ screen' \in Screens
  BY <1>1, <1>3 DEF Next, PaneShape
<1>4. ASSUME NEW p \in Panes, ResetAndReattach(p) PROVE pane' \in Panes /\ screen' \in Screens
  BY <1>0, <1>4, ResetShape
<1>5. ASSUME Receive PROVE wire # << >> /\ Head(wire) \in Messages
  <2>1. wire # << >>
    BY <1>5 DEF Receive, FrameLive, FrameHeld, ReceiveGap, ReceiveStale, ReceiveReplay, ReceiveSnapshot, Received, Reply
  <2> QED BY <1>0, <2>1
<1>5a. pane.cursor \in Offsets /\ pane.pending \in Seq(Items)
  BY <1>0 DEF Panes
<1> DEFINE f == Head(wire)
           answered == [pane EXCEPT !.known = TRUE, !.awaiting = FALSE, !.overflow = FALSE]
<1>6. answered \in Panes /\ [answered EXCEPT !.skip = TRUE] \in Panes /\ [pane EXCEPT !.known = TRUE] \in Panes
  BY <1>0 DEF Panes
<1>6a. BlankScreen \in Screens
  BY Limits DEF BlankScreen, Screens, Offsets
<1>7. CASE FrameLive
  <2>1. f \in Items /\ f.from \in Offsets /\ f.to \in Offsets
    BY <1>5, <1>7, KindFacts DEF FrameLive, Received, Receive
  <2>2. Painted(screen, WriteStart(f.from, pane.cursor), f.to) \in Screens
    BY <1>0, <1>5a, <2>1, MaxOfTypes, PaintedTypes
  <2> DEFINE p == [pane EXCEPT !.catchup = TRUE, !.pending = << >>, !.overflow = TRUE]
  <2>3. p \in Panes
    BY <1>0, << >> \in Seq(Items) DEF Panes
  <2>4. Attaching(p) \in Panes
    <3> HIDE DEF p
    <3> QED BY <2>3, AttachingTypes
  <2>5. [Attaching(p) EXCEPT !.cursor = f.to] \in Panes /\ [pane EXCEPT !.cursor = f.to] \in Panes
    <3> HIDE DEF p, f
    <3> QED BY <1>0, <2>1, <2>4 DEF Panes
  <2>6. \/ UNCHANGED client \/ ResetAndReattach(pane)
        \/ /\ pane' = [pane EXCEPT !.cursor = f.to]
           /\ screen' = Painted(screen, WriteStart(f.from, pane.cursor), f.to)
        \/ pane' = [Attaching(p) EXCEPT !.cursor = f.to] /\ screen' = screen
    BY <1>7 DEF FrameLive
  <2> HIDE DEF p, f
  <2> QED BY <1>0, <1>4, <2>2, <2>5, <2>6 DEF client
<1>8. CASE FrameHeld
  <2>1. f \in Items
    BY <1>5, <1>8, KindFacts DEF FrameHeld, Received, Receive
  <2> DEFINE pending == Append(pane.pending, f)
  <2>2. pending \in Seq(Items)
    <3> HIDE DEF f
    <3> QED BY <1>5a, <2>1
  <2>3. \/ pane' = [pane EXCEPT !.pending = pending] /\ screen' = screen
        \/ ResetAndReattach(pane)
        \/ SyncedAt(pane, pane.cursor, screen, pending)
    BY <1>8 DEF FrameHeld
  <2> HIDE DEF pending
  <2>4. [pane EXCEPT !.pending = pending] \in Panes
    BY <1>0, <2>2 DEF Panes
  <2>5. SyncedAt(pane, pane.cursor, screen, pending) => pane' \in Panes /\ screen' \in Screens
    BY <1>0, <1>5a, <2>2, SyncedTypes
  <2> QED BY <1>0, <1>4, <2>3, <2>4, <2>5
<1>9. CASE ReceiveGap \/ ReceiveStale
  BY <1>0, <1>4, <1>9 DEF ReceiveGap, ReceiveStale, client
<1>10. CASE ReceiveReplay
  <2> DEFINE r == f.body
             base == IF pane.overflow THEN BlankScreen ELSE screen
  <2>1. r \in Replays /\ r.from \in Offsets /\ r.to \in Offsets
    <3>1. f \in Messages /\ f.kind = "reply" /\ r.kind = "replay"
      BY <1>5, <1>10 DEF ReceiveReplay, Reply, Received, Receive
    <3> QED BY <3>1, KindFacts
  <2>2. \/ pane' = [pane EXCEPT !.known = TRUE] /\ screen' = screen
        \/ SyncedAt(answered, pane.cursor, screen, pane.pending)
        \/ SyncedAt(answered, r.to, Painted(screen, MaxOf(r.from, pane.cursor), r.to), pane.pending)
        \/ ResetAndReattach(answered)
        \/ SyncedAt(answered, r.to, Painted(base, r.from, r.to), pane.pending)
    BY <1>10 DEF ReceiveReplay
  <2> HIDE DEF r, answered, f
  <2>3. base \in Screens /\ MaxOf(r.from, pane.cursor) \in Offsets
    BY <1>0, <1>5a, <1>6a, <2>1, MaxOfTypes
  <2> HIDE DEF base
  <2>4. Painted(screen, MaxOf(r.from, pane.cursor), r.to) \in Screens /\ Painted(base, r.from, r.to) \in Screens
    BY <1>0, <2>1, <2>3, PaintedTypes
  <2>5. ASSUME NEW c \in Offsets, NEW s \in Screens, SyncedAt(answered, c, s, pane.pending)
        PROVE  pane' \in Panes /\ screen' \in Screens
    BY <1>5a, <1>6, <2>5, SyncedTypes
  <2> QED BY <1>0, <1>4, <1>5a, <1>6, <2>1, <2>2, <2>4, <2>5
<1>11. CASE ReceiveSnapshot
  <2> DEFINE r == f.body
             s == [from |-> 0, to |-> r.to, whole |-> TRUE]
  <2>1. r.to \in Offsets
    <3>1. f \in Messages /\ f.kind = "reply" /\ r.kind = "snapshot"
      BY <1>5, <1>11 DEF ReceiveSnapshot, Reply, Received, Receive
    <3> QED BY <3>1, KindFacts
  <2>2. SyncedAt(answered, r.to, s, pane.pending) \/ ResetAndReattach([answered EXCEPT !.skip = TRUE])
    BY <1>11 DEF ReceiveSnapshot
  <2>3. s \in Screens
    BY <2>1, Limits DEF Screens, Offsets
  <2> HIDE DEF r, s, answered
  <2>4. SyncedAt(answered, r.to, s, pane.pending) => pane' \in Panes /\ screen' \in Screens
    BY <1>5a, <1>6, <2>1, <2>3, SyncedTypes
  <2> QED BY <1>4, <1>6, <2>2, <2>4
<1>12. CASE Hide
  BY <1>0, <1>12 DEF Hide, Panes
<1>13. CASE Show
  <2> DEFINE resume == pane.synced /\ KeepsScreen
             p == [pane EXCEPT !.catchup = TRUE, !.skip = @ \/ resume, !.shown = TRUE]
  <2>1. p \in Panes
    BY <1>0, PaneStreamAssumption DEF Panes
  <2>2. pane' = Attaching(p) /\ screen' = screen
    BY <1>13 DEF Show
  <2> HIDE DEF p
  <2> QED BY <1>0, <2>1, <2>2, AttachingTypes
<1>14. CASE Reconnect
  <2> DEFINE q == [pane EXCEPT !.sent = 0, !.known = FALSE]
             p == Unsynced(q)
  <2>1. q \in Panes
    BY <1>0 DEF Panes
  <2>2. pane' = Attaching(p) /\ screen' = BlankScreen
    BY <1>14 DEF Reconnect
  <2> HIDE DEF q
  <2>3. p \in Panes
    BY <2>1, AttachingTypes
  <2> HIDE DEF p
  <2> QED BY <1>6a, <2>2, <2>3, AttachingTypes
<1> QED BY <1>7, <1>8, <1>9, <1>10, <1>11, <1>12, <1>13, <1>14 DEF Receive

-----------------------------------------------------------------------------
(* The inductive invariant                                                 *)

(* Where the tap's account ends: before the chunk that is not offered yet. *)
End == IF fresh # None THEN fresh.from ELSE ring.seen

TapInv ==
    /\ Tiles(tap, End)
    /\ ~visible => tap = NewTap
    /\ landing # NoLanding => visible

StreamInv == Shapes /\ TapInv

(* The end of what the taps were given: before a frame that is read and not*)
(* offered yet, and the ring's end otherwise.                              *)
LEMMA EndFacts ==
    ASSUME RingShape
    PROVE  /\ End \in Offsets /\ End \in Nat /\ ring.seen \in Offsets /\ ring.seen \in Nat
           /\ fresh # None => fresh \in FrameParts /\ End = fresh.from /\ fresh.to = ring.seen /\ End < ring.seen
           /\ fresh = None => End = ring.seen
<1>1. ring.seen \in Offsets /\ ring.seen \in Nat
  BY DEF RingShape, Offsets
<1>2. CASE fresh = None
  BY <1>1, <1>2 DEF End
<1>3. CASE fresh # None
  <2>1. fresh \in FrameParts /\ fresh.to = ring.seen
    BY <1>3 DEF RingShape
  <2>2. fresh \in Part
    BY <2>1 DEF FrameParts
  <2>3. fresh.from \in Nat /\ fresh.from < fresh.to /\ fresh.from \in Offsets
    BY <2>2, PartFacts DEF Part, Items
  <2> QED BY <1>1, <1>3, <2>1, <2>3 DEF End
<1> QED BY <1>2, <1>3

(* An offer takes the account to the last byte the session wrote.          *)
LEMMA OfferTap ==
    ASSUME Shapes, TapInv, Offer
    PROVE  TapInv'
<1>0. RingShape /\ landing' = landing /\ visible' = visible /\ fresh # None /\ fresh' = None /\ ring' = ring
  BY DEF Shapes, Offer
<1>1. /\ fresh \in FrameParts /\ End = fresh.from /\ fresh.to = ring.seen /\ End \in Offsets /\ End \in Nat
      /\ ring.seen \in Nat /\ End < ring.seen
  BY <1>0, EndFacts
<1>2. End' = ring.seen
  BY <1>0 DEF End
<1>3. Tiles(tap, End) /\ (~visible => tap = NewTap) /\ (landing # NoLanding => visible)
  BY DEF TapInv
<1>4. CASE ~visible /\ tap' = tap
  <2>1. Tiles(NewTap, ring.seen)
    BY <1>1, NewTapTiles
  <2> QED BY <1>0, <1>2, <1>3, <1>4, <2>1 DEF TapInv
<1>5. CASE visible /\ Covered(tap, fresh) /\ tap' = tap
  <2>1. tap.cutoff \in Nat /\ ~(tap.cutoff < End)
    BY <1>1, <1>3, <1>5, TapFacts DEF Covered, Tiles
  <2>2. Queued(tap) = << >> /\ ~tap.dropping
    BY <1>3, <2>1 DEF Tiles
  <2>3. Tiles(tap, ring.seen)
    BY <1>3, <2>2, EmptyChain DEF Tiles
  <2> QED BY <1>0, <1>2, <1>3, <1>5, <2>3 DEF TapInv
<1>6. CASE visible /\ ~Covered(tap, fresh) /\ Full(tap, fresh) /\ tap' = RecordDrop(tap, fresh)
  <2>1. Tiles(RecordDrop(tap, fresh), fresh.to)
    BY <1>1, <1>3, <1>6, DropTiles
  <2> QED BY <1>0, <1>1, <1>2, <1>3, <1>6, <2>1 DEF TapInv
<1>7. CASE visible /\ ~Covered(tap, fresh) /\ ~Full(tap, fresh) /\ tap' = Accept(tap, fresh)
  <2>1. Tiles(Accept(tap, fresh), fresh.to)
    BY <1>1, <1>3, <1>7, AcceptTiles, MergeTiles
  <2> QED BY <1>0, <1>1, <1>2, <1>3, <1>7, <2>1 DEF TapInv
<1> QED BY <1>4, <1>5, <1>6, <1>7 DEF Offer

(* Every other step leaves the end of the account where it is.             *)
LEMMA EndStep ==
    ASSUME Shapes, [Next]_vars, ~Offer
    PROVE  End' = End
<1>0. RingShape
  BY DEF Shapes
<1>1. CASE \E n \in Chunks : Push(n)
  <2>1. PICK n \in Chunks : Push(n)
    BY <1>1
  <2>2. fresh = None /\ fresh' # None /\ fresh'.from = ring.seen
    BY <1>0, <2>1, PushShape DEF Push
  <2> QED BY <2>2 DEF End
<1>2. CASE UNCHANGED <<ring, fresh>>
  BY <1>2 DEF End
<1>3. CASE Loop
  BY <1>2, <1>3 DEF Loop, HandleShow, HandleHide, HandleAttach, Prepare, Land, LandError, Flush
<1>4. CASE Receive
  BY <1>2, <1>4 DEF Receive, FrameLive, FrameHeld, ReceiveGap, ReceiveStale, ReceiveReplay, ReceiveSnapshot, server
<1>5. CASE Hide \/ Show \/ Reconnect
  BY <1>2, <1>5 DEF Hide, Show, Reconnect, server
<1>6. CASE UNCHANGED vars
  BY <1>2, <1>6 DEF vars, server
<1> QED BY <1>1, <1>3, <1>4, <1>5, <1>6 DEF Next

(* No step leaves a connection's tap untiled.                              *)
LEMMA TapStep ==
    ASSUME Shapes, TapInv, [Next]_vars
    PROVE  TapInv'
<1>1. CASE Offer
  BY <1>1, OfferTap
<1> SUFFICES ASSUME ~Offer PROVE TapInv'
  BY <1>1
<1>2. End' = End /\ End \in Offsets /\ End \in Nat
  BY EndStep, EndFacts DEF Shapes
<1>3. Tiles(tap, End) /\ (~visible => tap = NewTap) /\ (landing # NoLanding => visible)
  BY DEF TapInv
<1>4. Tiles(NewTap, End)
  BY <1>2, NewTapTiles
<1>5. CASE UNCHANGED <<tap, visible, landing>>
  BY <1>2, <1>3, <1>5 DEF TapInv
<1>6. CASE \E n \in Chunks : Push(n)
  BY <1>5, <1>6 DEF Push
<1>7. CASE HandleShow \/ HandleAttach
  <2>1. visible' = TRUE /\ tap' = Inserted
    BY <1>7 DEF HandleShow, HandleAttach
  <2>2. Tiles(Inserted, End)
    BY <1>3, <1>4 DEF Inserted
  <2> QED BY <1>2, <2>1, <2>2 DEF TapInv
<1>8. CASE HandleHide
  <2>1. landing' = NoLanding /\ tap' = NewTap
    BY <1>8 DEF HandleHide, Request
  <2> QED BY <1>2, <1>4, <2>1 DEF TapInv
<1>9. CASE Prepare
  <2>1. landing # NoLanding /\ tap' = tap /\ visible' = visible
    <3>1. landing.kind = "attach" /\ tap' = tap /\ visible' = visible
      BY <1>9 DEF Prepare
    <3> QED BY <3>1 DEF NoLanding
  <2> QED BY <1>2, <1>3, <2>1 DEF TapInv
<1>10. CASE Land
  <2>1. landing # NoLanding /\ tap' = Attached(tap, landing.to) /\ visible' = visible /\ landing' = NoLanding
    BY <1>10 DEF Land, NoLanding
  <2>2. landing.to \in Offsets
    BY <1>10, KindFacts DEF Land, Shapes, LoopShape
  <2>3. Tiles(tap', End)
    BY <1>2, <1>3, <2>1, <2>2, AttachedTiles
  <2> QED BY <1>2, <1>3, <2>1, <2>3 DEF TapInv
<1>11. CASE LandError
  <2>1. tap' = tap /\ visible' = visible /\ landing' = NoLanding
    BY <1>11 DEF LandError
  <2> QED BY <1>2, <1>3, <2>1 DEF TapInv
<1>12. CASE Flush
  <2>1. visible' = visible /\ landing' = landing /\ (tap' = tap \/ (visible /\ tap' = Drained(tap).tap))
    BY <1>12 DEF Flush
  <2>2. Tiles(Drained(tap).tap, End)
    BY <1>2, <1>3, DrainedTiles
  <2> QED BY <1>2, <1>3, <2>1, <2>2 DEF TapInv
<1>13. CASE Receive
  BY <1>5, <1>13 DEF Receive, FrameLive, FrameHeld, ReceiveGap, ReceiveStale, ReceiveReplay, ReceiveSnapshot, server
<1>14. CASE Hide \/ Show
  BY <1>5, <1>14 DEF Hide, Show, server
<1>15. CASE Reconnect
  <2>1. landing' = NoLanding /\ tap' = NewTap
    BY <1>15 DEF Reconnect
  <2> QED BY <1>2, <1>4, <2>1 DEF TapInv
<1>16. CASE UNCHANGED vars
  BY <1>5, <1>16 DEF vars, server
<1> QED BY <1>6, <1>7, <1>8, <1>9, <1>10, <1>11, <1>12, <1>13, <1>14, <1>15, <1>16 DEF Next, Loop

(* The first state.                                                        *)
LEMMA StreamInit == Init => StreamInv
<1> SUFFICES ASSUME Init PROVE StreamInv
  OBVIOUS
<1>0. 0 \in Offsets /\ 0 \in Nat /\ 0 <= 0
  BY Limits DEF Offsets
<1>1. NewPane \in Panes
  BY <1>0, << >> \in Seq(Items) DEF NewPane, Panes
<1>2. pane \in Panes /\ AttachMsg(NewPane, FALSE) \in Requests /\ [kind |-> "show"] \in Requests
  BY <1>1, AttachingTypes DEF Init, Requests
<1>3. inbox \in Seq(Requests)
  <2> DEFINE m == AttachMsg(NewPane, FALSE)
             s == [kind |-> "show"]
  <2>1. m \in Requests /\ s \in Requests /\ inbox = <<s, m>>
    BY <1>2 DEF Init
  <2> HIDE DEF m, s
  <2> QED BY <2>1
<1>4. RingShape
  BY <1>0 DEF Init, RingShape
<1>5. LoopShape
  BY DEF Init, LoopShape, Landings
<1>6. LinkShape
  <2>1. wire = << >> /\ << >> \in Seq(Messages)
    BY DEF Init
  <2> QED BY <1>3, <2>1 DEF LinkShape
<1>7. PaneShape
  BY <1>0, <1>2 DEF Init, PaneShape, BlankScreen, Screens
<1>8. TapInv
  <2>1. End \in Nat
    BY <1>4, EndFacts
  <2>2. Tiles(NewTap, End)
    BY <2>1, NewTapTiles
  <2> QED BY <2>2 DEF Init, TapInv
<1> QED BY <1>4, <1>5, <1>6, <1>7, <1>8 DEF StreamInv, Shapes

(* The invariant is inductive.                                             *)
LEMMA StreamStep == StreamInv /\ [Next]_vars => StreamInv'
<1> SUFFICES ASSUME StreamInv, [Next]_vars PROVE StreamInv'
  OBVIOUS
<1>1. Shapes /\ TapInv /\ Tiles(tap, IF fresh # None THEN fresh.from ELSE ring.seen)
  BY DEF StreamInv, TapInv, End
<1>2. RingShape'
  BY <1>1, RingStep DEF Shapes
<1>3. LoopShape' /\ LinkShape'
  BY <1>1, LoopStep, LinkStep
<1>4. PaneShape' /\ TapInv'
  BY <1>1, PaneStep, TapStep
<1> QED BY <1>2, <1>3, <1>4 DEF StreamInv, Shapes

(* The inductive invariant holds in every reachable state.                 *)
LEMMA StreamInvariant == Spec => []StreamInv
BY StreamInit, StreamStep, PTL DEF Spec

-----------------------------------------------------------------------------
(* What follows from it                                                    *)

(* Every variable keeps its shape: offsets never pass what the session     *)
(* wrote, and every message is one the other side can read.                *)
THEOREM TypeCorrect == Spec => []TypeOK
<1>1. StreamInv => TypeOK
  <2> SUFFICES ASSUME StreamInv PROVE TypeOK
    OBVIOUS
  <2>1. RingShape /\ LoopShape /\ LinkShape /\ PaneShape /\ tap \in Taps
    BY DEF StreamInv, Shapes, TapInv, Tiles
  <2>2. Part \subseteq Items /\ FrameParts \subseteq Items
    BY DEF Part, FrameParts
  <2>3. tap \in [queue : Seq(Items), pending : Items \cup {None}, frames : Nat, bytes : Nat,
                 dropping : BOOLEAN, anchor : Offsets, dropped : Offsets, cutoff : Offsets]
    <3>1. tap.queue \in Seq(Items) /\ tap.pending \in Items \cup {None}
      <4>1. tap.queue \in Seq(Part) /\ tap.pending \in FrameParts \cup {None}
        BY <2>1, TapFacts
      <4> QED BY <2>2, <4>1
    <3> QED BY <2>1, <3>1 DEF Taps
  <2>4. ring \in [start : Offsets, seen : Offsets] /\ fresh \in Items \cup {None}
    BY <2>1, <2>2 DEF RingShape
  <2>5. {visible, held, wake} \subseteq BOOLEAN /\ attempts \in Nat
        /\ landing \in {NoLanding} \cup Attaches \cup Snapshots \cup Replays
    BY <2>1 DEF LoopShape, Landings
  <2>6. /\ inbox \in Seq({[kind |-> "show"], [kind |-> "hide"]} \cup Attaches)
        /\ wire \in Seq(Items \cup [kind : {"reply"}, attempt : Nat, body : Snapshots \cup Replays])
    BY <2>1 DEF LinkShape, Requests, Messages
  <2>7. pane \in Panes /\ screen \in Screens /\ faults \subseteq Faults \cup Leaks
    BY <2>1 DEF PaneShape
  <2> QED BY <2>3, <2>4, <2>5, <2>6, <2>7 DEF TypeOK, Panes, Screens
<1> QED BY <1>1, StreamInvariant, PTL

(* A registered tap accounts for every byte the session wrote: frames and  *)
(* gaps follow each other without a hole or an overlap up to the last one, *)
(* whatever offers, merges, drops, attaches and partial drains made of     *)
(* them.                                                                   *)
THEOREM TapAccounts == Spec => []TapTiles
<1>1. StreamInv => TapTiles
  <2> SUFFICES ASSUME StreamInv, visible
               PROVE  /\ \A i \in 1 .. Len(Unsent) - 1 : Unsent[i].to = Unsent[i + 1].from
                      /\ Unsent # << >> => Last(Unsent).to = ring.seen
    BY DEF TapTiles
  <2>1. RingShape /\ Tiles(tap, End) /\ tap \in Taps
    BY DEF StreamInv, Shapes, TapInv, Tiles
  <2>2. /\ End \in Offsets /\ End \in Nat /\ ring.seen \in Nat
        /\ (fresh # None => fresh \in FrameParts /\ End = fresh.from /\ fresh.to = ring.seen /\ End < ring.seen)
        /\ (fresh = None => End = ring.seen)
    BY <2>1, EndFacts
  <2>3. Queued(tap) \in Seq(Part) /\ tap.cutoff \in Nat
    BY <2>1, TapFacts
  <2> DEFINE g == Queued(tap) \o OpenGap(tap)
             e == IF fresh # None /\ visible /\ ~Covered(tap, fresh) THEN <<fresh>> ELSE << >>
  <2>4. g \in Seq(Part) /\ Chain(g, End) /\ (g # << >> => tap.cutoff < End)
    <3>1. CASE tap.dropping
      <4> DEFINE x == Gap(tap.anchor, tap.dropped)
      <4>1. x \in Part /\ x.from = tap.anchor /\ x.to = End /\ OpenGap(tap) = <<x>>
        BY <2>1, <2>2, <3>1, GapPart
      <4> HIDE DEF x
      <4>2. g = Append(Queued(tap), x)
        BY <2>3, <4>1
      <4>3. Chain(Queued(tap), x.from) /\ tap.cutoff < End
        BY <2>1, <3>1, <4>1 DEF Tiles
      <4>4. g \in Seq(Part)
        BY <2>3, <4>1, <4>2
      <4> HIDE DEF g
      <4> QED BY <2>3, <4>1, <4>2, <4>3, <4>4, ChainAppend
    <3>2. CASE ~tap.dropping
      <4>1. g = Queued(tap)
        BY <2>3, <3>2 DEF OpenGap
      <4> QED BY <2>1, <2>3, <3>2, <4>1 DEF Tiles
    <3> QED BY <3>1, <3>2
  <2>5. Unsent = g \o e
    BY DEF Unsent, Queued
  <2> HIDE DEF g
  <2>6. Chain(Unsent, ring.seen)
    <3>1. CASE fresh # None /\ ~Covered(tap, fresh)
      <4>1. fresh \in Part /\ e = <<fresh>>
        BY <2>2, <3>1 DEF FrameParts
      <4>2. Unsent = Append(g, fresh)
        BY <2>4, <2>5, <4>1
      <4> QED BY <2>2, <2>4, <3>1, <4>1, <4>2, ChainAppend
    <3>2. CASE fresh = None
      <4>1. Unsent = g
        BY <2>4, <2>5, <3>2
      <4> QED BY <2>2, <2>4, <3>2, <4>1
    <3>3. CASE fresh # None /\ Covered(tap, fresh)
      <4>1. ring.seen <= tap.cutoff
        BY <2>2, <3>3 DEF Covered
      <4>2. g = << >>
        BY <2>2, <2>3, <2>4, <3>3, <4>1
      <4>3. Unsent = << >>
        BY <2>5, <3>3, <4>2
      <4> QED BY <4>3, EmptyChain
    <3> QED BY <3>1, <3>2, <3>3
  <2> QED BY <2>6 DEF Chain, Tiling
<1> QED BY <1>1, StreamInvariant, PTL

(* The counters of frames and bytes are what the queue holds, and stay     *)
(* within FRAME_QUEUE_DEPTH and FRAME_QUEUE_BYTES, however long the        *)
(* connection stalls.                                                      *)
THEOREM TapCounted == Spec => []TapCounts
<1>1. StreamInv => TapCounts
  BY DEF StreamInv, TapInv, Tiles, TapCounts, Queued
<1> QED BY <1>1, StreamInvariant, PTL

(* An offer that comes while a drop episode is open is never merged into a *)
(* frame from before the loss.                                             *)
THEOREM GapsKept == Spec => []NoMergeAcrossGap
<1>1. StreamInv => NoMergeAcrossGap
  <2> SUFFICES ASSUME StreamInv, fresh # None, tap.dropping PROVE ~Merges(tap, fresh)
    BY DEF NoMergeAcrossGap
  <2>1. RingShape /\ Tiles(tap, End)
    BY DEF StreamInv, Shapes, TapInv
  <2> QED BY <2>1, EndFacts, NoMerge
<1> QED BY <1>1, StreamInvariant, PTL

-----------------------------------------------------------------------------
(* The numbers of attaches                                                 *)

(* Attaches on their way to the loop.                                      *)
Asked(s) == Cardinality(Places(s, Attaches))

(* The attaches on their way are counted by their places; an attach        *)
(* appended is one more and another request none.                          *)
LEMMA AskedFacts ==
    ASSUME NEW s \in Seq(Requests)
    PROVE  /\ Asked(s) = Cardinality({i \in DOMAIN s : s[i].kind = "attach"}) /\ Asked(s) \in Nat
           /\ \A m \in Attaches : Append(s, m) \in Seq(Requests) /\ Asked(Append(s, m)) = Asked(s) + 1
           /\ \A m \in Requests : m.kind # "attach" =>
                Append(s, m) \in Seq(Requests) /\ Asked(Append(s, m)) = Asked(s)
<1>1. \A x \in Requests : x.kind = "attach" <=> x \in Attaches
  BY KindFacts DEF Attaches
<1>2. {i \in DOMAIN s : s[i].kind = "attach"} = Places(s, Attaches)
  BY <1>1 DEF Places
<1>3. Asked(s) \in Nat
  BY PlacesFinite DEF Asked
<1>4. ASSUME NEW m \in Requests
      PROVE  Append(s, m) \in Seq(Requests) /\ Asked(Append(s, m)) = Asked(s) + (IF m \in Attaches THEN 1 ELSE 0)
  BY CountAppend DEF Asked
<1>5. Attaches \subseteq Requests
  BY DEF Requests
<1>6. Asked(s) = Cardinality({i \in DOMAIN s : s[i].kind = "attach"})
  BY <1>2 DEF Asked
<1>7. ASSUME NEW m \in Attaches PROVE Append(s, m) \in Seq(Requests) /\ Asked(Append(s, m)) = Asked(s) + 1
  BY <1>4, <1>5
<1>8. ASSUME NEW m \in Requests, m.kind # "attach"
      PROVE  Append(s, m) \in Seq(Requests) /\ Asked(Append(s, m)) = Asked(s)
  <2>1. m \notin Attaches
    BY <1>1, <1>8
  <2> QED BY <1>3, <1>4, <2>1
<1> QED BY <1>3, <1>6, <1>7, <1>8

(* A request taken from the channel takes its own attach off the count.    *)
LEMMA AskedTail ==
    ASSUME NEW s \in Seq(Requests), s # << >>
    PROVE  Asked(s) = Asked(Tail(s)) + (IF Head(s).kind = "attach" THEN 1 ELSE 0) /\ Asked(Tail(s)) \in Nat
<1>1. Head(s) \in Requests /\ Tail(s) \in Seq(Requests)
  OBVIOUS
<1>2. Head(s).kind = "attach" <=> Head(s) \in Attaches
  BY <1>1, KindFacts DEF Attaches
<1> QED BY <1>1, <1>2, CountTail, AskedFacts DEF Asked

(* What the pane does on a message: it leaves its requests, or counts one  *)
(* attach and sends it.                                                    *)
AsksOnce ==
    \/ inbox' = inbox /\ pane'.sent = pane.sent
    \/ \E m \in Attaches : inbox' = Append(inbox, m) /\ pane'.sent = pane.sent + 1

(* A pane that resets and attaches again counts one attempt and sends one  *)
(* attach.                                                                 *)
LEMMA ResetAsks ==
    ASSUME NEW p \in Panes, ResetAndReattach(p), p.sent = pane.sent
    PROVE  AsksOnce
<1>1. Unsynced(p) \in Panes /\ Unsynced(p).sent = p.sent
  BY AttachingTypes
<1>2. Attaching(Unsynced(p)).sent = p.sent + 1 /\ AttachMsg(Unsynced(p), FALSE) \in Attaches
  BY <1>1, AttachingTypes
<1> QED BY <1>2 DEF ResetAndReattach, AsksOnce

(* Whatever the pane receives, it counts as many attempts as it sends      *)
(* attaches.                                                               *)
LEMMA ReceiveAsks ==
    ASSUME Shapes, Receive
    PROVE  AsksOnce
<1>0. pane \in Panes /\ screen \in Screens /\ wire \in Seq(Messages) /\ pane.cursor \in Offsets
      /\ pane.pending \in Seq(Items)
  BY DEF Shapes, PaneShape, LinkShape, Panes
<1> DEFINE f == Head(wire)
           answered == [pane EXCEPT !.known = TRUE, !.awaiting = FALSE, !.overflow = FALSE]
<1>1. f \in Messages
  <2>1. wire # << >>
    BY DEF Receive, FrameLive, FrameHeld, ReceiveGap, ReceiveStale, ReceiveReplay, ReceiveSnapshot, Received, Reply
  <2> QED BY <1>0, <2>1
<1>2. /\ answered \in Panes /\ answered.sent = pane.sent
      /\ [answered EXCEPT !.skip = TRUE] \in Panes /\ [answered EXCEPT !.skip = TRUE].sent = pane.sent
  BY <1>0 DEF Panes
<1>3. ASSUME NEW p \in Panes, p.sent = pane.sent, NEW c \in Offsets, NEW s \in Screens,
             NEW pending \in Seq(Items), SyncedAt(p, c, s, pending), inbox' = inbox
      PROVE  AsksOnce
  BY <1>3, SyncedTypes DEF AsksOnce
<1>4. CASE FrameLive
  <2> DEFINE p == [pane EXCEPT !.catchup = TRUE, !.pending = << >>, !.overflow = TRUE]
  <2>1. p \in Panes /\ p.sent = pane.sent
    BY <1>0, << >> \in Seq(Items) DEF Panes
  <2>2. Attaching(p) \in Panes /\ Attaching(p).sent = p.sent + 1 /\ AttachMsg(pane, FALSE) \in Attaches
    <3> HIDE DEF p
    <3> QED BY <1>0, <2>1, AttachingTypes
  <2>3. [Attaching(p) EXCEPT !.cursor = f.to].sent = pane.sent + 1 /\ [pane EXCEPT !.cursor = f.to].sent = pane.sent
    <3> HIDE DEF p, f
    <3> QED BY <1>0, <2>1, <2>2 DEF Panes
  <2>4. \/ pane' = pane /\ inbox' = inbox
        \/ ResetAndReattach(pane)
        \/ pane' = [pane EXCEPT !.cursor = f.to] /\ inbox' = inbox
        \/ pane' = [Attaching(p) EXCEPT !.cursor = f.to] /\ inbox' = Append(inbox, AttachMsg(pane, FALSE))
    BY <1>4 DEF FrameLive, client
  <2> HIDE DEF p, f
  <2> QED BY <1>0, <2>2, <2>3, <2>4, ResetAsks DEF AsksOnce
<1>5. CASE FrameHeld
  <2> DEFINE pending == Append(pane.pending, f)
  <2>1. f \in Items
    BY <1>1, <1>5, KindFacts DEF FrameHeld, Received
  <2>2. pending \in Seq(Items)
    <3> HIDE DEF f
    <3> QED BY <1>0, <2>1
  <2>3. \/ pane' = [pane EXCEPT !.pending = pending] /\ inbox' = inbox
        \/ ResetAndReattach(pane)
        \/ SyncedAt(pane, pane.cursor, screen, pending) /\ inbox' = inbox
    BY <1>5 DEF FrameHeld
  <2> HIDE DEF pending
  <2>4. [pane EXCEPT !.pending = pending].sent = pane.sent
    BY <1>0 DEF Panes
  <2> QED BY <1>0, <1>3, <2>2, <2>3, <2>4, ResetAsks DEF AsksOnce
<1>6. CASE ReceiveGap \/ ReceiveStale
  <2>1. ResetAndReattach(pane) \/ (pane' = pane /\ inbox' = inbox)
    BY <1>6 DEF ReceiveGap, ReceiveStale, client
  <2> QED BY <1>0, <2>1, ResetAsks DEF AsksOnce
<1>7. CASE ReceiveReplay
  <2> DEFINE r == f.body
             base == IF pane.overflow THEN BlankScreen ELSE screen
  <2>1. r.from \in Offsets /\ r.to \in Offsets
    <3>1. f.kind = "reply" /\ r.kind = "replay"
      BY <1>7 DEF ReceiveReplay, Reply, Received
    <3> QED BY <1>1, <3>1, KindFacts
  <2>2. \/ pane' = [pane EXCEPT !.known = TRUE] /\ inbox' = inbox
        \/ SyncedAt(answered, pane.cursor, screen, pane.pending) /\ inbox' = inbox
        \/ /\ SyncedAt(answered, r.to, Painted(screen, MaxOf(r.from, pane.cursor), r.to), pane.pending)
           /\ inbox' = inbox
        \/ ResetAndReattach(answered)
        \/ SyncedAt(answered, r.to, Painted(base, r.from, r.to), pane.pending) /\ inbox' = inbox
    BY <1>7 DEF ReceiveReplay
  <2>3. BlankScreen \in Screens
    BY Limits DEF BlankScreen, Screens, Offsets
  <2> HIDE DEF r, answered, f
  <2>4. base \in Screens /\ MaxOf(r.from, pane.cursor) \in Offsets
    BY <1>0, <2>1, <2>3, MaxOfTypes
  <2> HIDE DEF base
  <2>5. Painted(screen, MaxOf(r.from, pane.cursor), r.to) \in Screens /\ Painted(base, r.from, r.to) \in Screens
    BY <1>0, <2>1, <2>4, PaintedTypes
  <2>6. [pane EXCEPT !.known = TRUE].sent = pane.sent
    BY <1>0 DEF Panes
  <2> QED BY <1>0, <1>2, <1>3, <2>1, <2>2, <2>5, <2>6, ResetAsks DEF AsksOnce
<1>8. CASE ReceiveSnapshot
  <2> DEFINE r == f.body
             s == [from |-> 0, to |-> r.to, whole |-> TRUE]
  <2>1. r.to \in Offsets
    <3>1. f.kind = "reply" /\ r.kind = "snapshot"
      BY <1>8 DEF ReceiveSnapshot, Reply, Received
    <3> QED BY <1>1, <3>1, KindFacts
  <2>2. \/ SyncedAt(answered, r.to, s, pane.pending) /\ inbox' = inbox
        \/ ResetAndReattach([answered EXCEPT !.skip = TRUE])
    BY <1>8 DEF ReceiveSnapshot
  <2>3. s \in Screens
    BY <2>1, Limits DEF Screens, Offsets
  <2> HIDE DEF r, s, answered
  <2> QED BY <1>0, <1>2, <1>3, <2>1, <2>2, <2>3, ResetAsks
<1> QED BY <1>4, <1>5, <1>6, <1>7, <1>8 DEF Receive

(* The loop's count, the attach under way and those on their way.          *)
Agreed == attempts + Asked(inbox) + (IF landing = NoLanding THEN 0 ELSE 1) = pane.sent

(* Every step keeps the two counts of attempts in agreement, the attaches  *)
(* on their way included.                                                  *)
LEMMA AgreedStep ==
    ASSUME Shapes, Agreed, [Next]_vars
    PROVE  Agreed'
<1>0. attempts \in Nat /\ inbox \in Seq(Requests) /\ landing \in Landings /\ pane \in Panes /\ pane.sent \in Nat
  BY DEF Shapes, LoopShape, LinkShape, PaneShape, Panes
<1>1. Asked(inbox) \in Nat
  BY <1>0, AskedFacts
<1>2. CASE UNCHANGED <<attempts, inbox, landing, pane>>
  BY <1>2 DEF Agreed
<1>3. CASE (\E n \in Chunks : Push(n)) \/ Offer \/ Flush \/ UNCHANGED vars
  BY <1>2, <1>3 DEF Push, Offer, Flush, vars, server, client
<1>4. CASE HandleShow \/ HandleHide
  <2>1. /\ inbox # << >> /\ Head(inbox).kind # "attach" /\ inbox' = Tail(inbox)
        /\ attempts' = attempts /\ landing' = landing /\ pane' = pane
    BY <1>4 DEF HandleShow, HandleHide, Request, client
  <2>2. Asked(inbox') = Asked(inbox)
    BY <1>0, <1>1, <2>1, AskedTail
  <2> QED BY <2>1, <2>2 DEF Agreed
<1>5. CASE HandleAttach
  <2>1. /\ inbox # << >> /\ Head(inbox).kind = "attach" /\ inbox' = Tail(inbox)
        /\ attempts' = attempts /\ landing = NoLanding /\ landing' = Head(inbox) /\ pane' = pane
    BY <1>5 DEF HandleAttach, Request, client
  <2>2. Asked(inbox) = Asked(inbox') + 1 /\ Asked(inbox') \in Nat
    BY <1>0, <2>1, AskedTail
  <2>3. landing' # NoLanding
    BY <2>1 DEF NoLanding
  <2> QED BY <1>0, <2>1, <2>2, <2>3 DEF Agreed
<1>6. CASE Prepare
  <2>1. landing.kind = "attach" /\ attempts' = attempts /\ inbox' = inbox /\ pane' = pane
    BY <1>6 DEF Prepare, client
  <2>2. landing' \in Snapshots \cup Replays
    BY <1>6, PreparedShape DEF Shapes
  <2>3. landing # NoLanding /\ landing' # NoLanding
    BY <2>1, <2>2 DEF NoLanding, Snapshots, Replays
  <2> QED BY <2>1, <2>3 DEF Agreed
<1>7. CASE Land \/ LandError
  <2>1. landing.kind \in {"snapshot", "replay", "attach"} /\ attempts' = attempts + 1 /\ inbox' = inbox
        /\ pane' = pane /\ landing' = NoLanding
    BY <1>7 DEF Land, LandError, client
  <2>2. landing # NoLanding
    BY <2>1 DEF NoLanding
  <2> QED BY <1>0, <1>1, <2>1, <2>2 DEF Agreed
<1>8. CASE Receive
  <2>1. attempts' = attempts /\ landing' = landing
    BY <1>8 DEF Receive, FrameLive, FrameHeld, ReceiveGap, ReceiveStale, ReceiveReplay, ReceiveSnapshot, server
  <2>2. AsksOnce
    BY <1>8, ReceiveAsks
  <2>3. CASE inbox' = inbox /\ pane'.sent = pane.sent
    BY <2>1, <2>3 DEF Agreed
  <2>4. CASE \E m \in Attaches : inbox' = Append(inbox, m) /\ pane'.sent = pane.sent + 1
    <3>1. Asked(inbox') = Asked(inbox) + 1 /\ pane'.sent = pane.sent + 1
      BY <1>0, <2>4, AskedFacts
    <3> QED BY <1>0, <1>1, <2>1, <3>1 DEF Agreed
  <2> QED BY <2>2, <2>3, <2>4 DEF AsksOnce
<1>9. CASE Hide
  <2>1. attempts' = attempts /\ landing' = landing /\ inbox' = Append(inbox, [kind |-> "hide"])
        /\ pane' = [pane EXCEPT !.shown = FALSE]
    BY <1>9 DEF Hide, server
  <2>2. [kind |-> "hide"] \in Requests /\ [kind |-> "hide"].kind # "attach" /\ pane'.sent = pane.sent
    BY <1>0, <2>1 DEF Requests, Panes
  <2>3. Asked(inbox') = Asked(inbox)
    BY <1>0, <2>1, <2>2, AskedFacts
  <2> QED BY <2>1, <2>2, <2>3 DEF Agreed
<1>10. CASE Show
  <2> DEFINE resume == pane.synced /\ KeepsScreen
             p == [pane EXCEPT !.catchup = TRUE, !.skip = @ \/ resume, !.shown = TRUE]
             m == AttachMsg(p, resume)
             s == [kind |-> "show"]
  <2>1. p \in Panes /\ p.sent = pane.sent /\ resume \in BOOLEAN
    BY <1>0, PaneStreamAssumption DEF Panes
  <2>2. pane' = Attaching(p) /\ inbox' = inbox \o <<s, m>> /\ attempts' = attempts /\ landing' = landing
    BY <1>10 DEF Show, server
  <2>3. s \in Requests /\ s.kind # "attach"
    BY DEF Requests
  <2> HIDE DEF p, resume
  <2>4. m \in Attaches /\ pane'.sent = pane.sent + 1
    BY <2>1, <2>2, AttachingTypes
  <2>5. m \in Requests
    BY <2>4 DEF Requests
  <2> HIDE DEF s, m
  <2>6. inbox' = Append(Append(inbox, s), m)
    BY <1>0, <2>2, <2>3, <2>5
  <2>7. Append(inbox, s) \in Seq(Requests) /\ Asked(Append(inbox, s)) = Asked(inbox)
    BY <1>0, <2>3, AskedFacts
  <2>8. Asked(inbox') = Asked(inbox) + 1
    BY <2>4, <2>6, <2>7, AskedFacts
  <2> QED BY <1>0, <1>1, <2>2, <2>4, <2>8 DEF Agreed
<1>11. CASE Reconnect
  <2> DEFINE q == [pane EXCEPT !.sent = 0, !.known = FALSE]
             p == Unsynced(q)
             m == AttachMsg(p, FALSE)
  <2>1. q \in Panes /\ q.sent = 0
    BY <1>0 DEF Panes
  <2>2. pane' = Attaching(p) /\ inbox' = <<m>> /\ attempts' = 0 /\ landing' = NoLanding
    BY <1>11 DEF Reconnect
  <2> HIDE DEF q
  <2>3. p \in Panes /\ p.sent = 0
    BY <2>1, AttachingTypes
  <2> HIDE DEF p
  <2>4. pane'.sent = 1 /\ m \in Attaches
    <3>1. Attaching(p).sent = p.sent + 1 /\ AttachMsg(p, FALSE) \in Attaches
      BY <2>3, AttachingTypes
    <3>2. pane'.sent = p.sent + 1
      BY <2>2, <3>1, Zenon
    <3>3. pane'.sent = 1
      BY <2>3, <3>2
    <3>4. m \in Attaches
      BY <3>1
    <3> QED BY <3>3, <3>4
  <2> HIDE DEF m
  <2>5. << >> \in Seq(Requests) /\ Append(<< >>, m) = <<m>>
    OBVIOUS
  <2>6. Asked(<< >>) = 0
    <3>1. Places(<< >>, Attaches) = {}
      BY DEF Places
    <3> QED BY <3>1, FS_EmptySet DEF Asked
  <2>7. Asked(<<m>>) = 0 + 1
    BY <2>4, <2>5, <2>6, AskedFacts
  <2> QED BY <2>2, <2>4, <2>7 DEF Agreed
<1> QED BY <1>3, <1>4, <1>5, <1>6, <1>7, <1>8, <1>9, <1>10, <1>11 DEF Next, Loop

(* The first state.                                                        *)
LEMMA AgreedInit == Init => Agreed
<1> SUFFICES ASSUME Init PROVE Agreed
  OBVIOUS
<1> DEFINE m == AttachMsg(NewPane, FALSE)
           s == [kind |-> "show"]
<1>1. NewPane \in Panes /\ NewPane.sent = 0
  <2>1. 0 \in Offsets /\ << >> \in Seq(Items)
    BY Limits DEF Offsets
  <2> QED BY <2>1 DEF NewPane, Panes
<1>2. m \in Attaches /\ pane.sent = 0 + 1
  BY <1>1, AttachingTypes DEF Init
<1>3. s \in Requests /\ s.kind # "attach"
  BY DEF Requests
<1>4. inbox = <<s, m>> /\ attempts = 0 /\ landing = NoLanding
  BY DEF Init
<1>5. m \in Requests
  BY <1>2 DEF Requests
<1> HIDE DEF m, s
<1>6. << >> \in Seq(Requests) /\ inbox = Append(Append(<< >>, s), m)
  BY <1>3, <1>4, <1>5
<1>7. Asked(<< >>) = 0
  <2>1. Places(<< >>, Attaches) = {}
    BY DEF Places
  <2> QED BY <2>1, FS_EmptySet DEF Asked
<1>8. Append(<< >>, s) \in Seq(Requests) /\ Asked(Append(<< >>, s)) = 0
  BY <1>3, <1>6, <1>7, AskedFacts
<1>9. Asked(inbox) = 0 + 1
  BY <1>2, <1>6, <1>8, AskedFacts
<1> QED BY <1>2, <1>4, <1>9 DEF Agreed

(* The counts agree in every reachable state.                              *)
LEMMA AgreedInvariant == Spec => [](StreamInv /\ Agreed)
<1>1. StreamInv /\ Agreed /\ [Next]_vars => Agreed'
  BY AgreedStep DEF StreamInv
<1> QED BY <1>1, AgreedInit, StreamInvariant, PTL DEF Spec

(* Both ends number attaches alike, through hides, errors, lost            *)
(* connections and attaches the pane sends over each other, so a pane      *)
(* never takes an old reply for the one it waits for nor drops the newest. *)
THEOREM BothCount == Spec => []AttemptsAgree
<1>1. StreamInv /\ Agreed => AttemptsAgree
  BY AskedFacts DEF StreamInv, Shapes, LinkShape, Agreed, AttemptsAgree
<1> QED BY <1>1, AgreedInvariant, PTL

-----------------------------------------------------------------------------
(* What is painted                                                         *)

(* A frame or a gap, and not the reply to an attach.                       *)
IsItem(m) == m.kind # "reply"

(* One of the two leaks that can let a hole through has happened.          *)
Leaked == faults \cap Leaks # {}

(* Nothing on its way to the pane or held by it is ahead of the ring, and  *)
(* no reply is ahead of the loop's count.                                  *)
Sent ==
    /\ \A i \in DOMAIN wire : IF IsItem(wire[i]) THEN wire[i] \in Part /\ wire[i].to <= ring.seen
                              ELSE wire[i].attempt <= attempts
    /\ \A k \in DOMAIN pane.pending : pane.pending[k] \in Part /\ pane.pending[k].to <= ring.seen

(* A reply covers what was sent before it and comes after the replies to   *)
(* earlier attaches.                                                       *)
InOrder ==
    /\ \A i, j \in DOMAIN wire : i < j /\ ~IsItem(wire[j]) =>
         IF IsItem(wire[i]) THEN wire[i].to <= wire[j].body.to ELSE wire[i].attempt < wire[j].attempt
    /\ \A k \in DOMAIN pane.pending : \A j \in DOMAIN wire :
         ~IsItem(wire[j]) => pane.pending[k].to <= wire[j].body.to

(* The landing in progress has copied what it will answer with.            *)
IsReady == landing.kind \in {"snapshot", "replay"}

(* The tap is held while an attach is under way, and what is copied for it *)
(* covers what was sent before.                                            *)
Ready ==
    /\ landing # NoLanding => held
    /\ IsReady =>
         /\ landing.to <= ring.seen
         /\ \A i \in DOMAIN wire : IsItem(wire[i]) => wire[i].to <= landing.to
         /\ \A k \in DOMAIN pane.pending : pane.pending[k].to <= landing.to

(* No reply on its way is ahead of the ring.                               *)
Bounded == \A i \in DOMAIN wire : ~IsItem(wire[i]) => wire[i].body.to <= ring.seen

(* The screen shows a run that the cursor has not left behind, except      *)
(* after a full write queue.                                               *)
Shown ==
    /\ screen = BlankScreen \/ screen.from < screen.to
    /\ screen.to <= ring.seen /\ screen.to <= pane.cursor
    /\ ~pane.synced => pane.cursor = 0 /\ screen = BlankScreen
    /\ ~pane.overflow => screen = BlankScreen \/ screen.to = pane.cursor \/ Leaked
    /\ pane.overflow => pane.catchup
    /\ pane.awaiting => ~Live
    /\ screen.whole \/ Leaked

(* A snapshot, or an attach that asks for one.                             *)
Snaps(m) == m.kind = "snapshot" \/ (m.kind = "attach" /\ m.snapshot)

(* The answer to the attach the pane sent last ends no earlier than what   *)
(* the pane shows, and is no snapshot the pane does not wait for.          *)
Newest ==
    /\ \A i \in DOMAIN wire : ~IsItem(wire[i]) /\ wire[i].attempt = pane.sent =>
         (Live \/ screen.to <= wire[i].body.to) /\ (Snaps(wire[i].body) => pane.awaiting)
    /\ landing # NoLanding /\ attempts + 1 = pane.sent =>
         (IsReady => Live \/ screen.to <= landing.to) /\ (Snaps(landing) => pane.awaiting)
    /\ \A i \in DOMAIN inbox :
         Snaps(inbox[i]) /\ (\A j \in DOMAIN inbox : i < j => inbox[j].kind # "attach") => pane.awaiting

(* What is on its way fits together, the screen apart.                     *)
Wired == Sent /\ InOrder /\ Ready /\ Bounded

(* The inductive invariant of the refinement.                              *)
ViewInv == Wired /\ Shown /\ Newest

(* What the pane shows, as PaneView sees it, and that as an interval.      *)
Seen == IF screen.whole \/ faults \cap Leaks # {} THEN [from |-> screen.from, to |-> screen.to] ELSE screen

Run == [from |-> screen.from, to |-> screen.to]

ViewStep == [View!Next]_<<ring.seen, Seen>>

(* What the kinds on the wire and in the pane's hold say.                  *)
LEMMA WireFacts ==
    ASSUME Shapes
    PROVE  /\ DOMAIN wire = 1 .. Len(wire) /\ Len(wire) \in Nat /\ ring.seen \in Nat /\ attempts \in Nat
           /\ \A i \in DOMAIN wire : IsItem(wire[i]) => wire[i] \in Items /\ wire[i].to \in Nat
           /\ \A i \in DOMAIN wire : ~IsItem(wire[i]) =>
                wire[i].attempt \in Nat /\ wire[i].body \in Snapshots \cup Replays /\ wire[i].body.to \in Nat
           /\ \A k \in DOMAIN pane.pending : pane.pending[k] \in Items /\ pane.pending[k].to \in Nat
           /\ IsReady => landing \in Snapshots \cup Replays /\ landing.to \in Nat /\ landing # NoLanding
<1>1. /\ wire \in Seq(Messages) /\ pane.pending \in Seq(Items) /\ ring.seen \in Offsets /\ attempts \in Nat
      /\ landing \in Landings
  BY DEF Shapes, LinkShape, PaneShape, Panes, RingShape, LoopShape
<1>2. Offsets \subseteq Nat
  BY DEF Offsets
<1>3. ASSUME NEW x \in Messages
      PROVE  /\ IsItem(x) => x \in Items
             /\ ~IsItem(x) => x.attempt \in Nat /\ x.body \in Snapshots \cup Replays
  BY KindFacts DEF Messages, IsItem, Items
<1>4. \A x \in Items : x.to \in Nat
  BY <1>2 DEF Items
<1>5. \A x \in Snapshots \cup Replays : x.to \in Nat
  BY <1>2 DEF Snapshots, Replays
<1>6. IsReady => landing \in Snapshots \cup Replays /\ landing # NoLanding
  BY <1>1, KindFacts DEF IsReady, NoLanding
<1>7. DOMAIN wire = 1 .. Len(wire) /\ Len(wire) \in Nat /\ \A i \in DOMAIN wire : wire[i] \in Messages
  BY <1>1
<1>8. \A k \in DOMAIN pane.pending : pane.pending[k] \in Items
  BY <1>1
<1> QED BY <1>1, <1>2, <1>3, <1>4, <1>5, <1>6, <1>7, <1>8

(* Members of a sequence without its head, and with one more.              *)
LEMMA SequenceMembers ==
    ASSUME NEW X, NEW s \in Seq(X)
    PROVE  /\ s # << >> => /\ 1 \in DOMAIN s /\ Head(s) = s[1]
                          /\ \A i \in DOMAIN Tail(s) : i + 1 \in DOMAIN s /\ Tail(s)[i] = s[i + 1]
           /\ \A x \in X : \A i \in DOMAIN Append(s, x) :
                 (i \in DOMAIN s /\ i # Len(s) + 1 /\ Append(s, x)[i] = s[i]) \/ (i = Len(s) + 1 /\ Append(s, x)[i] = x)
OBVIOUS

(* What a message the pane takes moves: the rest of the wire, and the      *)
(* message itself into the pane's hold.                                    *)
Moved(d) ==
    /\ \A i \in DOMAIN wire' : i + d \in DOMAIN wire /\ wire'[i] = wire[i + d]
    /\ \A k \in DOMAIN pane'.pending :
         \/ k \in DOMAIN pane.pending /\ pane'.pending[k] = pane.pending[k]
         \/ d = 1 /\ 1 \in DOMAIN wire /\ IsItem(wire[1]) /\ pane'.pending[k] = wire[1]

(* Taking a message keeps what is on its way in bounds and in order.       *)
LEMMA MovedWired ==
    ASSUME Shapes, Shapes', Wired, NEW d \in {0, 1}, Moved(d), UNCHANGED <<ring, held, attempts, landing>>
    PROVE  Wired'
<1>0. DOMAIN wire = 1 .. Len(wire) /\ Len(wire) \in Nat
  BY WireFacts
<1>1. /\ ring' = ring /\ held' = held /\ attempts' = attempts /\ landing' = landing
  OBVIOUS
<1>2. DOMAIN wire' \subseteq Nat
  <2>1. wire' \in Seq(Messages)
    BY DEF Shapes, LinkShape
  <2> QED BY <2>1
<1>3. Sent'
  BY <1>1 DEF Wired, Sent, Moved
<1>4. Bounded'
  BY <1>1 DEF Wired, Bounded, Moved
<1>5. Ready'
  BY <1>1 DEF Wired, Ready, Moved, IsReady
<1>6. InOrder'
  <2>0. InOrder
    BY DEF Wired
  <2>1. ASSUME NEW i \in DOMAIN wire', NEW j \in DOMAIN wire', i < j, ~IsItem(wire'[j])
        PROVE  IF IsItem(wire'[i]) THEN wire'[i].to <= wire'[j].body.to ELSE wire'[i].attempt < wire'[j].attempt
    <3>1. i + d \in DOMAIN wire /\ j + d \in DOMAIN wire /\ wire'[i] = wire[i + d] /\ wire'[j] = wire[j + d]
      BY DEF Moved
    <3>2. i + d < j + d
      BY <1>2, <2>1
    <3> QED BY <2>0, <2>1, <3>1, <3>2 DEF InOrder
  <2>2. ASSUME NEW k \in DOMAIN pane'.pending, NEW j \in DOMAIN wire', ~IsItem(wire'[j])
        PROVE  pane'.pending[k].to <= wire'[j].body.to
    <3>1. j + d \in DOMAIN wire /\ wire'[j] = wire[j + d] /\ (d = 1 => 1 < j + d)
      BY <1>0, <1>2, <2>2 DEF Moved
    <3> QED BY <2>0, <2>2, <3>1 DEF InOrder, Moved
  <2> QED BY <2>1, <2>2 DEF InOrder, IsItem
<1> QED BY <1>3, <1>4, <1>5, <1>6 DEF Wired

(* A turn of the drain sends nothing past the end of the tap's account.    *)
LEMMA DrainedBound ==
    ASSUME NEW t, NEW end \in Offsets, Tiles(t, end)
    PROVE  \A i \in DOMAIN Drained(t).out : Drained(t).out[i].to <= end
<1> DEFINE S == {x \in Part : x.to <= end}
           u == TurnTap(t)
           q == u.queue
           stop == IF t.dropping THEN t.anchor ELSE end
<1>0. t \in Taps /\ end \in Nat /\ Chain(Queued(t), stop)
  BY DEF Tiles, Offsets
<1>1. t.queue \in Seq(Part) /\ Queued(t) \in Seq(Part) /\ stop <= end /\ stop \in Nat
  BY <1>0, TapFacts DEF Tiles
<1>2. Queued(t) \in Seq(S)
  <2> DEFINE r == Queued(t)
  <2> HIDE DEF stop
  <2>1. ASSUME NEW i \in 1 .. Len(r) PROVE r[i] \in S
    <3>1. Len(r) \in 1 .. Len(r) /\ i <= Len(r) /\ r # << >> /\ r \in Seq(Part)
      BY <1>1
    <3>2. r[i].to <= r[Len(r)].to /\ r[Len(r)].to = stop
      <4> HIDE DEF r
      <4>1. Chain(r, stop)
        BY <1>0 DEF r
      <4> QED BY <3>1, <4>1, ChainOrder DEF Chain, Last
    <3>3. r[i] \in Part /\ r[i].to \in Nat
      BY <3>1, PartFacts
    <3> QED BY <1>0, <1>1, <3>2, <3>3
  <2> QED BY <1>1, <2>1
<1>3. q \in Seq(S)
  <2>1. u = t \/ q = Queued(t)
    BY DEF TurnTap, Queued
  <2>2. Queued(t) = (IF t.pending = None THEN t.queue ELSE Append(t.queue, t.pending))
    BY <1>0, TapFacts
  <2>3. t.queue \in Seq(S)
    <3>1. CASE t.pending = None
      BY <1>2, <2>2, <3>1
    <3>2. CASE t.pending # None
      <4>1. Queued(t) = Append(t.queue, t.pending) /\ t.pending \in Part
        BY <1>0, <2>2, <3>2, TapFacts DEF FrameParts
      <4> HIDE DEF S
      <4>2. \A i \in 1 .. Len(t.queue) : t.queue[i] = Queued(t)[i] /\ i \in 1 .. Len(Queued(t))
        BY <1>1, <4>1
      <4> QED BY <1>1, <1>2, <4>2
    <3> QED BY <3>1, <3>2
  <2> HIDE DEF S
  <2> QED BY <1>2, <2>1, <2>3
<1>4. q \in Seq(Part) /\ Len(q) \in Nat
  <2> HIDE DEF q
  <2> QED BY <1>3
<1> DEFINE n == TurnItems(q)
           x == Frame(q[n + 1].from, TurnCut(q))
<1>5. TurnOut(q) \in Seq(S)
  <2>1. n \in 0 .. Len(q)
    BY <1>4, TurnFacts
  <2>2. SubSeq(q, 1, n) \in Seq(S)
    <3> HIDE DEF q, n, S
    <3> QED BY <1>3, <2>1
  <2>3. ASSUME TurnSplits(q) PROVE x \in S
    <3>1. /\ n + 1 \in 1 .. Len(q) /\ q[n + 1] \in S /\ TurnCut(q) \in Nat /\ q[n + 1].from < TurnCut(q)
          /\ TurnCut(q) < q[n + 1].to
      <4>1. n < Len(q)
        BY <2>3 DEF TurnSplits
      <4>2. n + 1 \in 1 .. Len(q)
        BY <1>4, <2>1, <4>1
      <4>3. TurnCut(q) \in Nat /\ q[n + 1].from < TurnCut(q) /\ TurnCut(q) < q[n + 1].to
        BY <1>4, <2>3, TurnFacts
      <4>4. q[n + 1] \in S
        <5> HIDE DEF q, n, S
        <5> QED BY <1>3, <4>2
      <4> QED BY <4>2, <4>3, <4>4
    <3> DEFINE y == q[n + 1]
    <3>2. y \in Part /\ y.to <= end /\ y.from \in Nat /\ y.to \in Nat /\ y.to <= MaxOutput
      BY <3>1, PartFacts
    <3> HIDE DEF y
    <3>3. x = Frame(y.from, TurnCut(q)) /\ y.from < TurnCut(q) /\ TurnCut(q) < y.to /\ TurnCut(q) \in Nat
      BY <3>1 DEF y
    <3> DEFINE cut == TurnCut(q)
    <3> HIDE DEF cut, x
    <3>4. x = [kind |-> "frame", from |-> y.from, to |-> cut] /\ cut \in Nat /\ y.from < cut /\ cut < y.to
      BY <3>3 DEF cut, Frame
    <3>5. cut \in Offsets /\ y.from \in Offsets /\ cut <= end
      BY <1>0, <3>2, <3>4, Limits DEF Offsets
    <3> QED BY <3>4, <3>5 DEF Part, Items
  <2> HIDE DEF S, x
  <2>4. TurnSplits(q) => <<x>> \in Seq(S)
    BY <2>3
  <2>5. TurnOut(q) = SubSeq(q, 1, n) \o (IF TurnSplits(q) THEN <<x>> ELSE << >>)
    BY DEF TurnOut, x
  <2> HIDE DEF q, n
  <2> QED BY <2>2, <2>4, <2>5
<1>6. OpenGap(t) \in Seq(S)
  <2>1. CASE t.dropping
    <3> DEFINE g == Gap(t.anchor, t.dropped)
    <3>1. g \in Part /\ g.to = end /\ OpenGap(t) = <<g>>
      BY <2>1, GapPart
    <3> HIDE DEF g
    <3>2. g \in S
      BY <1>0, <3>1
    <3> HIDE DEF S
    <3> QED BY <3>1, <3>2
  <2>2. CASE ~t.dropping
    BY <2>2 DEF OpenGap
  <2> QED BY <2>1, <2>2
<1>7. Drained(t).out = TurnOut(q) \/ Drained(t).out = TurnOut(q) \o OpenGap(t)
  BY DrainedParts
<1> HIDE DEF S, q
<1>8. Drained(t).out \in Seq(S)
  <2> DEFINE a == TurnOut(q)
             b == OpenGap(t)
             o == Drained(t).out
  <2>1. a \in Seq(S) /\ b \in Seq(S) /\ (o = a \/ o = a \o b)
    BY <1>5, <1>6, <1>7
  <2> HIDE DEF a, b, o
  <2>2. a \o b \in Seq(S)
    BY <2>1
  <2>3. o \in Seq(S)
    BY <2>1, <2>2
  <2> QED BY <2>3 DEF o
<1>9. \A i \in DOMAIN Drained(t).out : Drained(t).out[i] \in S
  BY <1>8
<1> QED BY <1>9 DEF S

(* The session's reader and the loop keep what is on its way in bounds and *)
(* in order: frames are sent only while no attach is under way.            *)
LEMMA LoopWired ==
    ASSUME StreamInv, Shapes', Wired, (\E n \in Chunks : Push(n)) \/ Offer \/ Loop
    PROVE  Wired'
<1>0. Shapes /\ TapInv
  BY DEF StreamInv
<1>1. /\ DOMAIN wire = 1 .. Len(wire) /\ Len(wire) \in Nat /\ ring.seen \in Nat /\ attempts \in Nat
      /\ wire \in Seq(Messages) /\ pane' = pane /\ ring'.seen \in Nat
  <2>1. pane' = pane
    BY DEF Push, Offer, Loop, HandleShow, HandleHide, HandleAttach, Prepare, Land, LandError, Flush, client
  <2>2. wire \in Seq(Messages) /\ ring'.seen \in Nat
    BY <1>0 DEF Shapes, LinkShape, RingShape, Offsets
  <2> QED BY <1>0, <2>1, <2>2, WireFacts
<1>2. /\ \A i \in DOMAIN wire : IsItem(wire[i]) => wire[i].to \in Nat
      /\ \A i \in DOMAIN wire : ~IsItem(wire[i]) => wire[i].attempt \in Nat /\ wire[i].body.to \in Nat
      /\ \A k \in DOMAIN pane.pending : pane.pending[k].to \in Nat
      /\ IsReady => landing \in Snapshots \cup Replays /\ landing.to \in Nat /\ landing # NoLanding
  BY <1>0, WireFacts
<1>3. Sent /\ InOrder /\ Ready /\ Bounded
  BY DEF Wired
<1>4. ASSUME wire' = wire, ring.seen <= ring'.seen, attempts' \in Nat, attempts <= attempts'
      PROVE  Sent' /\ InOrder' /\ Bounded'
  <2>1. Sent'
    BY <1>1, <1>2, <1>3, <1>4 DEF Sent
  <2>2. Bounded'
    BY <1>1, <1>2, <1>3, <1>4 DEF Bounded
  <2>3. InOrder'
    BY <1>1, <1>3, <1>4 DEF InOrder, IsItem
  <2> QED BY <2>1, <2>2, <2>3
<1>5. CASE \E n \in Chunks : Push(n)
  <2>1. PICK n \in Chunks : Push(n)
    BY <1>5
  <2>2. n \in Nat /\ ring'.seen = ring.seen + n /\ wire' = wire /\ held' = held /\ attempts' = attempts
        /\ landing' = landing
    <3>1. ring \in [start : Offsets, seen : Offsets] /\ n \in Nat
      BY <1>0, Limits DEF Shapes, RingShape
    <3> QED BY <2>1, <3>1 DEF Push
  <2>3. ring.seen <= ring'.seen
    BY <1>1, <2>2
  <2>4. Ready'
    BY <1>1, <1>2, <1>3, <2>2, <2>3 DEF Ready, IsReady
  <2> QED BY <1>1, <1>4, <2>2, <2>3, <2>4 DEF Wired
<1>6. CASE Offer \/ HandleShow \/ HandleHide
  <2>1. ring' = ring /\ wire' = wire /\ held' = held /\ attempts' = attempts /\ landing' = landing
    BY <1>6 DEF Offer, HandleShow, HandleHide
  <2>2. Ready'
    BY <1>1, <1>3, <2>1 DEF Ready, IsReady
  <2> QED BY <1>1, <1>4, <2>1, <2>2 DEF Wired
<1>7. CASE HandleAttach
  <2>1. /\ ring' = ring /\ wire' = wire /\ held' = TRUE /\ attempts' = attempts
        /\ landing' = Head(inbox) /\ Head(inbox).kind = "attach"
    BY <1>7 DEF HandleAttach, Request
  <2>2. Ready'
    BY <2>1 DEF Ready, IsReady
  <2> QED BY <1>1, <1>4, <2>1, <2>2 DEF Wired
<1>8. CASE Prepare
  <2>1. /\ ring' = ring /\ wire' = wire /\ held' = held /\ attempts' = attempts /\ landing.kind = "attach"
        /\ landing'.to = ring.seen
    <3>1. ASSUME NEW a, NEW b PROVE Replay(a, b).to = ring.seen /\ Partial(a).to = ring.seen
      BY DEF Replay, Partial
    <3>2. \/ landing' = [kind |-> "snapshot", to |-> ring.seen]
          \/ \E a, b : landing' = Replay(a, b)
          \/ \E a : landing' = Partial(a)
      BY <1>8 DEF Prepare
    <3>3. landing'.to = ring.seen
      BY <3>1, <3>2
    <3> QED BY <1>8, <3>3 DEF Prepare
  <2>2. held = TRUE
    <3>1. landing # NoLanding /\ held \in BOOLEAN
      BY <1>0, <2>1 DEF NoLanding, Shapes, LoopShape
    <3> QED BY <1>3, <3>1 DEF Ready
  <2>3. Ready'
    BY <1>1, <1>3, <2>1, <2>2 DEF Ready, Sent, Bounded
  <2> QED BY <1>1, <1>4, <2>1, <2>3 DEF Wired
<1>9. CASE LandError
  <2>1. ring' = ring /\ wire' = wire /\ attempts' = attempts + 1 /\ landing' = NoLanding
    BY <1>9 DEF LandError
  <2>2. Ready'
    BY <2>1 DEF Ready, IsReady, NoLanding
  <2> QED BY <1>1, <1>4, <2>1, <2>2 DEF Wired
<1>10. CASE Land
  <2> DEFINE m == [kind |-> "reply", attempt |-> attempts + 1, body |-> landing]
  <2>1. ring' = ring /\ wire' = Append(wire, m) /\ attempts' = attempts + 1 /\ landing' = NoLanding /\ IsReady
    BY <1>10 DEF Land, IsReady
  <2>2. ~IsItem(m) /\ m.attempt = attempts + 1 /\ m.body = landing
    BY DEF IsItem
  <2>3. m \in Messages
    BY <1>1, <1>2, <2>1 DEF Messages
  <2> HIDE DEF m
  <2>4. \A i \in DOMAIN wire' : \/ i \in DOMAIN wire /\ i # Len(wire) + 1 /\ wire'[i] = wire[i]
                                \/ i = Len(wire) + 1 /\ wire'[i] = m
    BY <1>1, <2>1, <2>3, SequenceMembers
  <2>5. Ready'
    BY <2>1 DEF Ready, IsReady, NoLanding
  <2>6. Sent'
    <3>1. ASSUME NEW i \in DOMAIN wire, ~IsItem(wire[i]) PROVE wire[i].attempt <= attempts + 1
      BY <1>1, <1>2, <1>3, <3>1 DEF Sent
    <3> QED BY <1>1, <1>3, <2>1, <2>2, <2>4, <3>1 DEF Sent
  <2>7. Bounded'
    BY <1>3, <2>1, <2>2, <2>4 DEF Bounded, Ready
  <2>8. InOrder'
    <3>1. ASSUME NEW i \in DOMAIN wire', NEW j \in DOMAIN wire', i < j, ~IsItem(wire'[j])
          PROVE  IF IsItem(wire'[i]) THEN wire'[i].to <= wire'[j].body.to ELSE wire'[i].attempt < wire'[j].attempt
      <4>1. i \in DOMAIN wire /\ wire'[i] = wire[i]
        BY <1>1, <2>4, <3>1
      <4>2. CASE j \in DOMAIN wire /\ wire'[j] = wire[j]
        BY <1>3, <3>1, <4>1, <4>2 DEF InOrder
      <4>3. CASE wire'[j] = m
        <5>1. ~IsItem(wire[i]) => wire[i].attempt < attempts + 1
          BY <1>1, <1>2, <1>3, <4>1 DEF Sent
        <5> QED BY <1>3, <2>1, <2>2, <4>1, <4>3, <5>1 DEF Ready
      <4> QED BY <2>4, <4>2, <4>3
    <3>2. ASSUME NEW k \in DOMAIN pane.pending, NEW j \in DOMAIN wire', ~IsItem(wire'[j])
          PROVE  pane.pending[k].to <= wire'[j].body.to
      BY <1>3, <2>1, <2>2, <2>4, <3>2 DEF InOrder, Ready
    <3> QED BY <1>1, <3>1, <3>2 DEF InOrder, IsItem
  <2> QED BY <2>5, <2>6, <2>7, <2>8 DEF Wired
<1>11. CASE Flush
  <2>1. ring' = ring /\ held' = held /\ attempts' = attempts /\ landing' = landing
    BY <1>11 DEF Flush
  <2>2. CASE wire' = wire
    <3>1. Ready'
      BY <1>1, <1>3, <2>1, <2>2 DEF Ready, IsReady
    <3> QED BY <1>1, <1>4, <2>1, <2>2, <3>1 DEF Wired
  <2>3. CASE visible /\ ~held /\ wire' = wire \o Drained(tap).out
    <3> DEFINE o == Drained(tap).out
    <3>1. landing = NoLanding /\ ~IsReady
      BY <1>3, <2>3 DEF Ready, IsReady, NoLanding
    <3>2. o \in Seq(Part) /\ \A i \in DOMAIN o : o[i].to <= ring.seen /\ o[i] \in Part /\ IsItem(o[i])
      <4>1. End \in Offsets /\ End \in Nat /\ End <= ring.seen /\ Tiles(tap, End)
        BY <1>0, EndFacts DEF Shapes, TapInv
      <4>2. o \in Seq(Part) /\ \A i \in DOMAIN o : o[i].to <= End
        BY <4>1, DrainedTiles, DrainedBound
      <4> HIDE DEF o
      <4>3. ASSUME NEW i \in DOMAIN o PROVE o[i].to <= ring.seen /\ o[i] \in Part /\ IsItem(o[i])
        <5>1. o[i] \in Part /\ o[i].to \in Nat /\ o[i].kind \in {"frame", "gap"}
          BY <4>2, PartFacts
        <5> QED BY <1>1, <4>1, <4>2, <5>1 DEF IsItem
      <4> QED BY <4>2, <4>3
    <3>3. wire' = wire \o o
      BY <2>3
    <3> HIDE DEF o
    <3>4. \A i \in DOMAIN wire' :
            \/ i \in DOMAIN wire /\ wire'[i] = wire[i]
            \/ i > Len(wire) /\ wire'[i] \in Part /\ wire'[i].to <= ring.seen /\ IsItem(wire'[i])
      <4> TAKE i \in DOMAIN wire'
      <4>1. Len(o) \in Nat /\ DOMAIN wire' = 1 .. Len(wire) + Len(o)
        BY <1>1, <3>2, <3>3
      <4>2. CASE i <= Len(wire)
        BY <1>1, <3>2, <3>3, <4>1, <4>2
      <4>3. CASE i > Len(wire)
        <5>1. i - Len(wire) \in DOMAIN o /\ wire'[i] = o[i - Len(wire)]
          BY <1>1, <3>2, <3>3, <4>1, <4>3
        <5> QED BY <3>2, <4>3, <5>1
      <4> QED BY <1>1, <4>1, <4>2, <4>3
    <3>5. Sent' /\ Bounded' /\ Ready'
      BY <1>1, <1>3, <2>1, <3>1, <3>4 DEF Sent, Bounded, Ready, IsReady
    <3>6. InOrder'
      <4>1. DOMAIN wire' \subseteq Nat
        BY <1>1, <3>2, <3>3
      <4>2. ASSUME NEW i \in DOMAIN wire', NEW j \in DOMAIN wire', i < j, ~IsItem(wire'[j])
            PROVE  i \in DOMAIN wire /\ j \in DOMAIN wire /\ wire'[i] = wire[i] /\ wire'[j] = wire[j]
        BY <1>1, <3>4, <4>1, <4>2
      <4>3. ASSUME NEW j \in DOMAIN wire', ~IsItem(wire'[j]) PROVE j \in DOMAIN wire /\ wire'[j] = wire[j]
        BY <3>4, <4>3
      <4> QED BY <1>1, <1>3, <4>2, <4>3 DEF InOrder, IsItem
    <3> QED BY <3>5, <3>6 DEF Wired
  <2> QED BY <1>11, <2>2, <2>3 DEF Flush
<1> QED BY <1>5, <1>6, <1>7, <1>8, <1>9, <1>10, <1>11 DEF Loop

-----------------------------------------------------------------------------
(* What the pane does with a message                                       *)

(* Paint on a run or a blank screen.                                       *)
LEMMA PaintedRun ==
    ASSUME NEW s \in Screens, s = BlankScreen \/ s.from < s.to, NEW a \in Offsets, NEW b \in Offsets, a < b
    PROVE  /\ Painted(s, a, b) \in Screens /\ Painted(s, a, b).to = b
           /\ s = BlankScreen => Painted(s, a, b).from = a /\ Painted(s, a, b).whole
           /\ s # BlankScreen => /\ Painted(s, a, b).from = s.from
                                 /\ Painted(s, a, b).whole <=> s.whole /\ a = s.to
<1>1. ~(a >= b) /\ (s.from = s.to <=> s = BlankScreen)
  BY DEF Screens, Offsets, BlankScreen
<1>2. CASE s = BlankScreen
  <2>1. Painted(s, a, b) = [s EXCEPT !.from = a, !.to = b]
    BY <1>1, <1>2 DEF Painted
  <2> QED BY <1>2, <2>1 DEF Screens, BlankScreen
<1>3. CASE s # BlankScreen
  <2>1. Painted(s, a, b) = [s EXCEPT !.to = b, !.whole = s.whole /\ a = s.to]
    BY <1>1, <1>3 DEF Painted
  <2> QED BY <1>3, <2>1 DEF Screens
<1> QED BY <1>2, <1>3

(* Steps of the view: nothing, a clear, a paint, a rebuild.                *)
LEMMA ViewSteps ==
    ASSUME ring.seen \in Nat, ring'.seen = ring.seen, screen \in Screens, screen' \in Screens,
           screen = BlankScreen \/ screen.from < screen.to, screen.whole \/ Leaked, screen'.whole \/ Leaked'
    PROVE  /\ screen' = screen => ViewStep
           /\ screen' = BlankScreen => ViewStep
           /\ (/\ screen'.from < screen'.to /\ screen'.to <= ring.seen
               /\ screen # BlankScreen => screen'.from = screen.from /\ screen.to < screen'.to) => ViewStep
           /\ (screen'.from < screen'.to /\ screen'.to <= ring.seen /\ screen.to <= screen'.to) => ViewStep
<1>1. Seen = Run /\ Seen' = Run'
  BY DEF Seen, Run, Leaked
<1>2. /\ screen.from \in Nat /\ screen.to \in Nat /\ screen'.from \in Nat /\ screen'.to \in Nat
      /\ Run.from = screen.from /\ Run.to = screen.to /\ Run'.from = screen'.from /\ Run'.to = screen'.to
  BY DEF Screens, Offsets, Run
<1>3. ViewStep <=> \/ /\ ring'.seen \in Nat /\ ring'.seen > ring.seen /\ Run' = Run
                   \/ /\ Run' \in View!Runs(ring.seen) /\ ring'.seen = ring.seen
                      /\ Run # View!Blank => Run'.from = Run.from /\ Run'.to > Run.to
                   \/ Run' \in View!Runs(ring.seen) /\ Run'.to >= Run.to /\ ring'.seen = ring.seen
                   \/ Run' = View!Blank /\ ring'.seen = ring.seen
                   \/ Run' = Run /\ ring'.seen = ring.seen
  <2>1. ViewStep <=> \/ /\ ring'.seen \in Nat /\ ring'.seen > ring.seen /\ Seen' = Seen
                     \/ /\ Seen' \in View!Runs(ring.seen) /\ ring'.seen = ring.seen
                        /\ Seen # View!Blank => Seen'.from = Seen.from /\ Seen'.to > Seen.to
                     \/ Seen' \in View!Runs(ring.seen) /\ Seen'.to >= Seen.to /\ ring'.seen = ring.seen
                     \/ Seen' = View!Blank /\ ring'.seen = ring.seen
                     \/ Seen' = Seen /\ ring'.seen = ring.seen
    BY DEF ViewStep, View!Next, View!Produce, View!Paint, View!Rebuild, View!Clear, Seen
  <2> QED BY <1>1, <2>1
<1>4. ASSUME screen'.from < screen'.to, screen'.to <= ring.seen PROVE Run' \in View!Runs(ring.seen)
  BY <1>2, <1>4 DEF View!Runs, Run
<1>5. screen' = screen => Run' = Run
  BY DEF Run
<1>6. screen' = BlankScreen => Run' = View!Blank
  BY DEF Run, View!Blank, BlankScreen
<1>7. Run # View!Blank => screen # BlankScreen
  BY DEF Run, View!Blank, BlankScreen
<1> QED BY <1>2, <1>3, <1>4, <1>5, <1>6, <1>7

(* The pane goes on waiting.                                               *)
Waits ==
    /\ pane'.sent = pane.sent /\ (pane.awaiting => pane'.awaiting) /\ (Live => Live') /\ screen' = screen
    /\ inbox' = inbox \/ inbox' = Append(inbox, [kind |-> "hide"])

(* It attaches.                                                            *)
Asks ==
    /\ pane'.sent = pane.sent + 1
    /\ \E m \in Attaches : /\ m.snapshot => pane'.awaiting
                           /\ inbox' = Append(inbox, m) \/ inbox' = Append(Append(inbox, [kind |-> "show"]), m)

(* It is live, with its attach answered or without.                        *)
Lives ==
    /\ Live' /\ pane'.sent = pane.sent /\ inbox' = inbox
    /\ (pane.awaiting => pane'.awaiting)
         \/ (1 \in DOMAIN wire /\ ~IsItem(wire[1]) /\ wire[1].attempt = pane.sent)

Outcome ==
    \/ \E d \in {0, 1} : Moved(d) /\ (Waits \/ Asks)
    \/ Moved(1) /\ Lives

(* What every step of the pane shows and does.                             *)
Responds == Shown' /\ ViewStep /\ Outcome

(* A message taken, held or dropped.                                       *)
LEMMA TakenMoves ==
    ASSUME Shapes, wire # << >>, wire' = Tail(wire),
           \/ pane'.pending = pane.pending \/ pane'.pending = << >>
           \/ IsItem(Head(wire)) /\ pane'.pending = Append(pane.pending, Head(wire))
    PROVE  Moved(1) /\ 1 \in DOMAIN wire /\ Head(wire) = wire[1]
<1>0. wire \in Seq(Messages) /\ pane.pending \in Seq(Items) /\ Head(wire) \in Messages
  BY DEF Shapes, LinkShape, PaneShape, Panes
<1>1. /\ 1 \in DOMAIN wire /\ Head(wire) = wire[1]
      /\ \A i \in DOMAIN wire' : i + 1 \in DOMAIN wire /\ wire'[i] = wire[i + 1]
  BY <1>0, SequenceMembers
<1>2. ASSUME IsItem(Head(wire)), pane'.pending = Append(pane.pending, Head(wire))
      PROVE  Moved(1)
  <2>1. Head(wire) \in Items
    BY <1>0, <1>2 DEF Messages, IsItem
  <2>2. \A i \in DOMAIN pane'.pending : \/ i \in DOMAIN pane.pending /\ pane'.pending[i] = pane.pending[i]
                                        \/ pane'.pending[i] = Head(wire)
    <3> DEFINE h == Head(wire)
    <3> HIDE DEF h
    <3>1. h \in Items /\ pane'.pending = Append(pane.pending, h)
      BY <1>2, <2>1 DEF h
    <3>2. \A i \in DOMAIN pane'.pending : \/ i \in DOMAIN pane.pending /\ pane'.pending[i] = pane.pending[i]
                                          \/ pane'.pending[i] = h
      BY <1>0, <3>1, SequenceMembers
    <3> QED BY <3>2 DEF h
  <2> QED BY <1>1, <1>2, <2>2 DEF Moved
<1>3. ASSUME pane'.pending = pane.pending \/ pane'.pending = << >> PROVE Moved(1)
  BY <1>1, <1>3 DEF Moved
<1> QED BY <1>1, <1>2, <1>3

(* The pane after it attached.                                             *)
LEMMA AttachingFields ==
    ASSUME NEW p \in Panes, NEW resume \in BOOLEAN
    PROVE  /\ Attaching(p).synced = p.synced /\ Attaching(p).cursor = p.cursor /\ Attaching(p).pending = p.pending
           /\ Attaching(p).catchup = p.catchup /\ Attaching(p).overflow = p.overflow
           /\ Attaching(p).sent = p.sent + 1 /\ Attaching(p).awaiting = Wants(p)
           /\ AttachMsg(p, resume).snapshot = Wants(p)
BY DEF Attaching, AttachMsg, Panes

(* A pane that resets clears its screen and attaches.                      *)
LEMMA ResetResponds ==
    ASSUME Shapes, Shown, NEW p \in Panes, p.sent = pane.sent, ResetAndReattach(p), ring' = ring, wire # << >>,
           wire' = Tail(wire)
    PROVE  Responds
<1> DEFINE q == Unsynced(p)
           m == AttachMsg(q, FALSE)
<1>1. /\ q \in Panes /\ q.synced = FALSE /\ q.cursor = 0 /\ q.pending = << >> /\ q.catchup = FALSE
      /\ q.overflow = FALSE /\ q.sent = p.sent
  <2>1. q \in Panes
    BY AttachingTypes
  <2> QED BY <2>1 DEF Unsynced, Panes
<1>2. pane' = Attaching(q) /\ inbox' = Append(inbox, m) /\ screen' = BlankScreen
  BY DEF ResetAndReattach
<1> HIDE DEF q
<1>3. /\ pane'.synced = FALSE /\ pane'.cursor = 0 /\ pane'.pending = << >> /\ pane'.catchup = FALSE
      /\ pane'.overflow = FALSE /\ pane'.sent = pane.sent + 1 /\ pane'.awaiting = m.snapshot /\ m \in Attaches
  <2>1. FALSE \in BOOLEAN
    OBVIOUS
  <2>2. m \in Attaches
    BY <1>1, <2>1, AttachingTypes
  <2>3. Attaching(q).awaiting = Wants(q) /\ m.snapshot = Wants(q) /\ Attaching(q).sent = p.sent + 1
    BY <1>1, <2>1, AttachingFields
  <2>4. /\ Attaching(q).synced = FALSE /\ Attaching(q).cursor = 0 /\ Attaching(q).pending = << >>
        /\ Attaching(q).catchup = FALSE /\ Attaching(q).overflow = FALSE
    BY <1>1, <2>1, AttachingFields
  <2> HIDE DEF m
  <2> QED BY <1>2, <2>2, <2>3, <2>4
<1> HIDE DEF m
<1>4. ring.seen \in Nat /\ screen \in Screens /\ screen' \in Screens
  BY <1>2, Limits DEF Shapes, RingShape, PaneShape, Offsets, Screens, BlankScreen
<1>5. ViewStep
  BY <1>2, <1>4, ViewSteps DEF Shown, BlankScreen
<1>6. Shown'
  BY <1>2, <1>3, <1>4 DEF Shown, BlankScreen, Live
<1>7. Asks
  BY <1>2, <1>3 DEF Asks
<1>8. Moved(1)
  BY <1>3, TakenMoves
<1> QED BY <1>5, <1>6, <1>7, <1>8 DEF Responds, Outcome

(* Held frames that the cursor has passed paint nothing.                   *)
LEMMA SyncedSkips ==
    ASSUME NEW p, NEW c, NEW s, NEW pending \in Seq(Items), \A k \in DOMAIN pending : pending[k].to <= c,
           SyncedAt(p, c, s, pending)
    PROVE  /\ pane' = [p EXCEPT !.synced = TRUE, !.catchup = FALSE, !.pending = << >>, !.cursor = c]
           /\ screen' = s
<1> DEFINE w == [cursor |-> c, screen |-> s]
           S == {w}
<1>1. \A v \in S : \A k \in 1 .. Len(pending) : WriteExempt(v, pending[k]) \in S
  BY DEF WriteExempt
<1>2. w \in S
  OBVIOUS
<1> HIDE DEF S
<1>3. PICK v \in S : /\ pane' = [p EXCEPT !.synced = TRUE, !.catchup = FALSE, !.pending = << >>, !.cursor = v.cursor]
                     /\ screen' = v.screen
  BY <1>1, <1>2, SyncedStays
<1>4. v.cursor = c /\ v.screen = s
  BY DEF S
<1> QED BY <1>3, <1>4

(* A blank pane that goes live on its held frames paints a run up to the   *)
(* last one.                                                               *)
LEMMA SyncedPaints ==
    ASSUME NEW p, NEW pending \in Seq(Items), NEW end \in Nat,
           \A k \in DOMAIN pending : pending[k] \in Part /\ pending[k].to <= end,
           SyncedAt(p, 0, BlankScreen, pending)
    PROVE  \E c \in Nat :
             /\ pane' = [p EXCEPT !.synced = TRUE, !.catchup = FALSE, !.pending = << >>, !.cursor = c]
             /\ screen' \in Screens /\ screen'.to <= c
             /\ screen' = BlankScreen \/ (screen'.from < screen'.to /\ screen'.to = c /\ c <= end)
<1> DEFINE S == {w \in [cursor : Offsets, screen : Screens] :
                   \/ w.screen = BlankScreen
                   \/ w.screen.from < w.screen.to /\ w.screen.to = w.cursor /\ w.cursor <= end}
           first == [cursor |-> 0, screen |-> BlankScreen]
<1>0. BlankScreen \in Screens /\ 0 \in Offsets /\ BlankScreen.to = 0
  BY Limits DEF BlankScreen, Screens, Offsets
<1>1. first \in S
  BY <1>0
<1>2. ASSUME NEW w \in S, NEW k \in 1 .. Len(pending) PROVE WriteExempt(w, pending[k]) \in S
  <2> DEFINE f == pending[k]
             a == WriteStart(f.from, w.cursor)
  <2>1. f \in Part /\ f.to <= end /\ f.from \in Offsets /\ f.to \in Offsets /\ f.from < f.to
    BY DEF Part, Items
  <2>2. CASE f.to <= w.cursor
    BY <2>2 DEF WriteExempt
  <2>3. CASE ~(f.to <= w.cursor)
    <3>1. w.cursor \in Offsets /\ w.screen \in Screens /\ (w.screen = BlankScreen \/ w.screen.from < w.screen.to)
          /\ (w.screen # BlankScreen => w.screen.to = w.cursor)
      OBVIOUS
    <3> HIDE DEF f
    <3>2. a \in Offsets /\ a < f.to
      BY <2>1, <2>3, <3>1 DEF WriteStart, MaxOf, Offsets
    <3>3. WriteExempt(w, f) = [cursor |-> f.to, screen |-> Painted(w.screen, a, f.to)]
      BY <2>3 DEF WriteExempt
    <3> HIDE DEF S, a
    <3> DEFINE s == Painted(w.screen, a, f.to)
    <3>4. s \in Screens /\ s.to = f.to /\ (w.screen = BlankScreen => s.from = a)
          /\ (w.screen # BlankScreen => s.from = w.screen.from)
      BY <2>1, <3>1, <3>2, PaintedRun
    <3> HIDE DEF s
    <3>5. s.from < s.to
      <4>1. CASE w.screen = BlankScreen
        BY <3>2, <3>4, <4>1
      <4>2. CASE w.screen # BlankScreen
        BY <2>1, <2>3, <3>1, <3>4, <4>2 DEF Screens, Offsets
      <4> QED BY <4>1, <4>2
    <3>6. [cursor |-> f.to, screen |-> s] \in S
      BY <2>1, <3>4, <3>5 DEF S
    <3>7. WriteExempt(w, f) \in S
      BY <3>3, <3>6 DEF s
    <3> QED BY <3>7 DEF f
  <2> QED BY <2>2, <2>3
<1> HIDE DEF S
<1>3. PICK v \in S : /\ pane' = [p EXCEPT !.synced = TRUE, !.catchup = FALSE, !.pending = << >>, !.cursor = v.cursor]
                     /\ screen' = v.screen
  BY <1>1, <1>2, SyncedStays
<1>4. /\ v.cursor \in Nat /\ v.screen \in Screens
      /\ v.screen = BlankScreen \/ (v.screen.from < v.screen.to /\ v.screen.to = v.cursor /\ v.cursor <= end)
  BY DEF S, Offsets
<1>5. v.screen.to <= v.cursor
  BY <1>0, <1>4
<1> QED BY <1>3, <1>4, <1>5

(* A message that changes nothing the pane shows.                          *)
LEMMA RestsResponds ==
    ASSUME Shapes, Shown, NEW d \in {0, 1}, Moved(d), ring' = ring, screen' = screen, faults \subseteq faults',
           inbox' = inbox \/ inbox' = Append(inbox, [kind |-> "hide"]),
           pane'.synced = pane.synced, pane'.cursor = pane.cursor, pane'.catchup = pane.catchup,
           pane'.awaiting = pane.awaiting, pane'.overflow = pane.overflow, pane'.sent = pane.sent
    PROVE  Responds
<1>1. ring.seen \in Nat /\ screen \in Screens
  BY DEF Shapes, RingShape, PaneShape, Offsets
<1>2. (Leaked => Leaked') /\ (Live <=> Live')
  BY DEF Leaked, Live
<1>3. Shown'
  BY <1>2 DEF Shown
<1>4. ViewStep
  BY <1>1, <1>2, ViewSteps DEF Shown
<1>5. Waits
  BY <1>2 DEF Waits
<1> QED BY <1>3, <1>4, <1>5 DEF Responds, Outcome

(* The message the pane takes.                                             *)
LEMMA TakenFacts ==
    ASSUME Shapes, Wired, NEW kind, Received(kind)
    PROVE  /\ wire # << >> /\ wire' = Tail(wire) /\ 1 \in DOMAIN wire /\ Head(wire) = wire[1]
           /\ Head(wire).kind = kind
           /\ kind \in {"frame", "gap"} =>
                /\ IsItem(Head(wire)) /\ Head(wire) \in Part /\ Head(wire) \in Items /\ Head(wire).from < Head(wire).to
                /\ Head(wire).from \in Offsets /\ Head(wire).to \in Offsets /\ Head(wire).to <= ring.seen
           /\ kind = "reply" =>
                /\ ~IsItem(Head(wire)) /\ Head(wire).body \in Snapshots \cup Replays
                /\ Head(wire).body.to \in Offsets /\ Head(wire).body.to <= ring.seen
                /\ \A k \in DOMAIN pane.pending : pane.pending[k].to <= Head(wire).body.to
<1>1. wire # << >> /\ wire' = Tail(wire) /\ Head(wire).kind = kind /\ wire \in Seq(Messages)
  BY DEF Received, Shapes, LinkShape
<1>2. 1 \in DOMAIN wire /\ Head(wire) = wire[1] /\ Head(wire) \in Messages
  BY <1>1, SequenceMembers
<1>3. ASSUME kind \in {"frame", "gap"}
      PROVE  /\ IsItem(Head(wire)) /\ Head(wire) \in Part /\ Head(wire) \in Items /\ Head(wire).from < Head(wire).to
             /\ Head(wire).from \in Offsets /\ Head(wire).to \in Offsets /\ Head(wire).to <= ring.seen
  <2>1. IsItem(wire[1])
    BY <1>1, <1>2, <1>3 DEF IsItem
  <2>2. wire[1] \in Part /\ wire[1].to <= ring.seen
    BY <1>2, <2>1 DEF Wired, Sent
  <2> QED BY <1>2, <2>1, <2>2 DEF Part, Items
<1>4. ASSUME kind = "reply"
      PROVE  /\ ~IsItem(Head(wire)) /\ Head(wire).body \in Snapshots \cup Replays
             /\ Head(wire).body.to \in Offsets /\ Head(wire).body.to <= ring.seen
             /\ \A k \in DOMAIN pane.pending : pane.pending[k].to <= Head(wire).body.to
  <2>1. ~IsItem(wire[1])
    BY <1>1, <1>2, <1>4 DEF IsItem
  <2>2. wire[1].body \in Snapshots \cup Replays
    BY <1>2, <2>1, WireFacts
  <2>3. wire[1].body.to \in Offsets
    BY <2>2 DEF Snapshots, Replays
  <2> QED BY <1>2, <2>1, <2>2, <2>3 DEF Wired, InOrder, Bounded
<1> QED BY <1>1, <1>2, <1>3, <1>4

(* A frame while the pane is live.                                         *)
LEMMA FrameLiveResponds ==
    ASSUME Shapes, Wired, Shown, FrameLive
    PROVE  Responds
<1> DEFINE f == Head(wire)
           p == [pane EXCEPT !.catchup = TRUE, !.pending = << >>, !.overflow = TRUE]
<1>0. pane \in Panes /\ screen \in Screens /\ ring.seen \in Nat /\ pane.cursor \in Offsets /\ pane.sent \in Nat
  BY DEF Shapes, PaneShape, RingShape, Offsets, Panes
<1>1. Received("frame") /\ Live /\ ring' = ring
  BY DEF FrameLive, server
<1>2. /\ wire # << >> /\ wire' = Tail(wire) /\ f.from < f.to
      /\ f.from \in Offsets /\ f.to \in Offsets /\ f.to <= ring.seen
  BY <1>1, TakenFacts
<1>3. pane.synced /\ ~pane.catchup /\ ~pane.overflow /\ ~pane.awaiting
  BY <1>1 DEF Live, Shown
<1>4. CASE UNCHANGED <<client, inbox, faults>>
  <2>1. pane' = pane /\ screen' = screen
    BY <1>4 DEF client
  <2>2. Moved(1)
    BY <1>2, <2>1, TakenMoves
  <2> QED BY <1>1, <1>4, <2>1, <2>2, RestsResponds
<1>5. CASE ResetAndReattach(pane)
  BY <1>0, <1>1, <1>2, <1>5, ResetResponds
<1>6. CASE /\ f.from <= pane.cursor /\ f.to > pane.cursor
           /\ pane' = [pane EXCEPT !.cursor = f.to]
           /\ screen' = Painted(screen, WriteStart(f.from, pane.cursor), f.to)
           /\ UNCHANGED <<inbox, faults>>
  <2>1. WriteStart(f.from, pane.cursor) = pane.cursor /\ pane.cursor < f.to
    BY <1>0, <1>2, <1>6 DEF WriteStart, MaxOf, Offsets
  <2>2. screen' = Painted(screen, pane.cursor, f.to)
    BY <1>6, <2>1
  <2>3. /\ screen' \in Screens /\ screen'.to = f.to
        /\ screen = BlankScreen => screen'.from = pane.cursor /\ screen'.whole
        /\ screen # BlankScreen => /\ screen'.from = screen.from
                                   /\ screen'.whole <=> screen.whole /\ pane.cursor = screen.to
    <3> HIDE DEF f
    <3> QED BY <1>0, <1>2, <2>1, <2>2, PaintedRun DEF Shown
  <2>4. screen'.from < screen'.to /\ (screen # BlankScreen => screen.to < screen'.to)
    <3> HIDE DEF f
    <3> QED BY <1>0, <1>2, <2>1, <2>3 DEF Shown, Screens, Offsets
  <2>5. /\ pane'.synced /\ ~pane'.catchup /\ ~pane'.overflow /\ ~pane'.awaiting /\ pane'.cursor = f.to
        /\ pane'.pending = pane.pending /\ pane'.sent = pane.sent
    <3> HIDE DEF f
    <3> QED BY <1>0, <1>3, <1>6 DEF Panes
  <2>6. screen'.whole \/ Leaked'
    <3>1. Leaked' <=> Leaked
      BY <1>6 DEF Leaked
    <3> QED BY <1>3, <2>3, <3>1 DEF Shown
  <2> HIDE DEF f
  <2>7. Shown'
    <3>1. f.to <= f.to
      BY <1>2 DEF Offsets
    <3> QED BY <1>1, <1>2, <2>3, <2>4, <2>5, <2>6, <3>1 DEF Shown
  <2>8. ViewStep
    BY <1>0, <1>1, <1>2, <2>3, <2>4, <2>6, ViewSteps DEF Shown
  <2>9. Moved(1)
    BY <1>2, <2>5, TakenMoves
  <2>10. Lives
    BY <1>3, <1>6, <2>5 DEF Lives, Live
  <2> QED BY <2>7, <2>8, <2>9, <2>10 DEF Responds, Outcome
<1>7. CASE /\ f.from <= pane.cursor /\ f.to > pane.cursor
           /\ pane' = [Attaching(p) EXCEPT !.cursor = f.to]
           /\ inbox' = Append(inbox, AttachMsg(pane, FALSE))
           /\ faults \subseteq faults'
           /\ UNCHANGED screen
  <2>1. p \in Panes /\ p.synced /\ p.catchup /\ p.pending = << >> /\ p.overflow /\ p.sent = pane.sent
        /\ Wants(p) = Wants(pane)
    <3>1. << >> \in Seq(Items)
      OBVIOUS
    <3> QED BY <1>0, <1>3, <3>1 DEF Panes, Wants
  <2> DEFINE m == AttachMsg(pane, FALSE)
             q == Attaching(p)
  <2>2. m \in Attaches /\ m.snapshot = Wants(pane)
    <3>1. FALSE \in BOOLEAN
      OBVIOUS
    <3> QED BY <1>0, <3>1, AttachingTypes, AttachingFields
  <2>3. /\ q \in Panes /\ q.synced /\ q.catchup /\ q.pending = << >> /\ q.overflow /\ q.sent = pane.sent + 1
        /\ q.awaiting = Wants(pane)
    <3> HIDE DEF p
    <3>1. FALSE \in BOOLEAN
      OBVIOUS
    <3> QED BY <2>1, <3>1, AttachingTypes, AttachingFields
  <2> HIDE DEF f, q, m
  <2>4. /\ pane'.synced /\ pane'.catchup /\ pane'.pending = << >> /\ pane'.overflow /\ pane'.sent = pane.sent + 1
        /\ pane'.awaiting = Wants(pane) /\ pane'.cursor = f.to
    <3>1. pane' = [q EXCEPT !.cursor = f.to]
      BY <1>7 DEF q
    <3> HIDE DEF p
    <3> QED BY <2>3, <3>1 DEF Panes
  <2>5. Asks
    <3>1. inbox' = Append(inbox, m)
      BY <1>7 DEF m
    <3> QED BY <2>2, <2>4, <3>1 DEF Asks
  <2>6. Leaked => Leaked'
    BY <1>7 DEF Leaked
  <2>7. screen.to <= f.to
    BY <1>0, <1>2, <1>7 DEF Shown, Screens, Offsets, f
  <2>8. Shown'
    BY <1>1, <1>7, <2>4, <2>6, <2>7 DEF Shown, Live
  <2>9. ViewStep
    BY <1>0, <1>1, <1>7, <2>6, ViewSteps DEF Shown
  <2>10. Moved(1)
    BY <1>2, <2>4, TakenMoves
  <2> QED BY <2>5, <2>8, <2>9, <2>10 DEF Responds, Outcome
<1>8. CASE /\ f.from <= pane.cursor /\ f.to > pane.cursor
           /\ Wants(pane) /\ Fault("overflow")
           /\ pane' = [Attaching(p) EXCEPT !.cursor = f.to]
           /\ inbox' = Append(inbox, AttachMsg(pane, FALSE))
           /\ UNCHANGED screen
  BY <1>7, <1>8 DEF Fault
<1> QED BY <1>4, <1>5, <1>6, <1>8 DEF FrameLive

(* A frame while the pane waits.                                           *)
LEMMA FrameHeldResponds ==
    ASSUME Shapes, Wired, Shown, FrameHeld
    PROVE  Responds
<1> DEFINE f == Head(wire)
           pending == Append(pane.pending, f)
<1>0. pane \in Panes /\ screen \in Screens /\ ring.seen \in Nat /\ pane.pending \in Seq(Items)
  BY DEF Shapes, PaneShape, RingShape, Offsets, Panes
<1>1. Received("frame") /\ ~Live /\ ring' = ring
  BY DEF FrameHeld, server
<1>2. /\ wire # << >> /\ wire' = Tail(wire) /\ IsItem(f) /\ f \in Part /\ f \in Items /\ f.to <= ring.seen
  BY <1>1, TakenFacts
<1>3. pending \in Seq(Items) /\ \A k \in DOMAIN pending : pending[k] \in Part /\ pending[k].to <= ring.seen
  <2> HIDE DEF f
  <2>1. \A k \in DOMAIN pending : (k \in DOMAIN pane.pending /\ pending[k] = pane.pending[k]) \/ pending[k] = f
    BY <1>0, <1>2, SequenceMembers
  <2>2. pending \in Seq(Items)
    BY <1>0, <1>2
  <2> QED BY <1>2, <2>1, <2>2 DEF Wired, Sent
<1>4. CASE pane' = [pane EXCEPT !.pending = pending] /\ UNCHANGED <<screen, inbox, faults>>
  <2> HIDE DEF pending
  <2>1. /\ pane'.synced = pane.synced /\ pane'.cursor = pane.cursor /\ pane'.catchup = pane.catchup
        /\ pane'.awaiting = pane.awaiting /\ pane'.overflow = pane.overflow /\ pane'.sent = pane.sent
        /\ pane'.pending = pending
    BY <1>0, <1>4 DEF Panes
  <2>2. Moved(1)
    BY <1>2, <2>1, TakenMoves DEF pending
  <2> QED BY <1>1, <1>4, <2>1, <2>2, RestsResponds
<1>5. CASE ResetAndReattach(pane)
  BY <1>0, <1>1, <1>2, <1>5, ResetResponds
<1>6. CASE /\ ~pane.catchup /\ ~pane.awaiting /\ SyncedAt(pane, pane.cursor, screen, pending)
           /\ faults' = faults \cup {"cap"} /\ UNCHANGED inbox
  <2> HIDE DEF pending
  <2>1. ~pane.synced /\ pane.cursor = 0 /\ screen = BlankScreen /\ ~pane.overflow
    BY <1>1, <1>6 DEF Live, Shown
  <2>2. SyncedAt(pane, 0, BlankScreen, pending)
    BY <1>6, <2>1
  <2>3. PICK c \in Nat :
          /\ pane' = [pane EXCEPT !.synced = TRUE, !.catchup = FALSE, !.pending = << >>, !.cursor = c]
          /\ screen' \in Screens /\ screen'.to <= c
          /\ screen' = BlankScreen \/ (screen'.from < screen'.to /\ screen'.to = c /\ c <= ring.seen)
    BY <1>0, <1>3, <2>2, SyncedPaints
  <2>4. /\ pane'.synced /\ ~pane'.catchup /\ pane'.pending = << >> /\ pane'.cursor = c /\ ~pane'.overflow
        /\ ~pane'.awaiting /\ pane'.sent = pane.sent
    BY <1>0, <1>6, <2>1, <2>3 DEF Panes
  <2>5. Leaked'
    BY <1>6 DEF Leaked, Leaks
  <2>6. BlankScreen.to = 0 /\ 0 <= ring.seen
    BY <1>0 DEF BlankScreen
  <2>7. Shown'
    BY <1>1, <2>3, <2>4, <2>5, <2>6 DEF Shown
  <2>8. ViewStep
    BY <1>0, <1>1, <2>1, <2>3, <2>5, ViewSteps DEF Shown
  <2>9. Moved(1)
    BY <1>2, <2>4, TakenMoves
  <2>10. Lives
    BY <1>6, <2>4 DEF Lives, Live
  <2> QED BY <2>7, <2>8, <2>9, <2>10 DEF Responds, Outcome
<1> QED BY <1>4, <1>5, <1>6 DEF FrameHeld

(* A gap, and a reply that is no longer waited for.                        *)
LEMMA GapResponds ==
    ASSUME Shapes, Wired, Shown, ReceiveGap \/ ReceiveStale
    PROVE  Responds
<1>1. pane \in Panes /\ ring' = ring /\ faults' = faults
  BY DEF Shapes, PaneShape, ReceiveGap, ReceiveStale, server
<1>2. wire # << >> /\ wire' = Tail(wire)
  BY DEF ReceiveGap, ReceiveStale, Received
<1>3. CASE UNCHANGED <<client, inbox>>
  <2>1. pane' = pane /\ screen' = screen /\ inbox' = inbox
    BY <1>3 DEF client
  <2>2. Moved(1)
    BY <1>2, <2>1, TakenMoves
  <2> QED BY <1>1, <2>1, <2>2, RestsResponds
<1>4. CASE ResetAndReattach(pane)
  BY <1>1, <1>2, <1>4, ResetResponds
<1>5. UNCHANGED <<client, inbox>> \/ ResetAndReattach(pane)
  BY DEF ReceiveGap, ReceiveStale
<1> QED BY <1>3, <1>4, <1>5

(* A pane that has its answer goes live on what the answer ends with, its  *)
(* held frames being covered by it.                                        *)
LEMMA AnsweredResponds ==
    ASSUME Shapes, Wired, Shown, Received("reply"), Head(wire).attempt = pane.sent, ring' = ring, inbox' = inbox,
           NEW p \in Panes, p.sent = pane.sent, ~p.overflow, ~p.awaiting,
           NEW c \in Offsets, NEW s \in Screens, SyncedAt(p, c, s, pane.pending), Head(wire).body.to <= c,
           s = BlankScreen \/ s.from < s.to, s.to <= ring.seen, s.to <= c,
           s = BlankScreen \/ s.to = c \/ Leaked', s.whole \/ Leaked',
           s = screen \/ s = BlankScreen \/ screen.to <= s.to
    PROVE  Responds
<1> DEFINE f == Head(wire)
<1>1. /\ wire # << >> /\ wire' = Tail(wire) /\ 1 \in DOMAIN wire /\ f = wire[1] /\ ~IsItem(f)
      /\ \A k \in DOMAIN pane.pending : pane.pending[k].to <= f.body.to
      /\ f.body.to \in Nat /\ c \in Nat
  BY TakenFacts DEF Offsets
<1>2. ring.seen \in Nat /\ screen \in Screens /\ pane.pending \in Seq(Items)
      /\ \A k \in DOMAIN pane.pending : pane.pending[k].to \in Nat
  BY WireFacts DEF Shapes, PaneShape, RingShape, Offsets, Panes
<1>3. \A k \in DOMAIN pane.pending : pane.pending[k].to <= c
  <2> HIDE DEF f
  <2>1. f.body.to <= c
    BY DEF f
  <2> QED BY <1>1, <1>2, <2>1
<1>4. /\ pane' = [p EXCEPT !.synced = TRUE, !.catchup = FALSE, !.pending = << >>, !.cursor = c]
      /\ screen' = s
  BY <1>2, <1>3, SyncedSkips
<1>5. /\ pane'.synced /\ ~pane'.catchup /\ pane'.pending = << >> /\ pane'.cursor = c /\ pane'.sent = pane.sent
      /\ ~pane'.overflow /\ ~pane'.awaiting
  BY <1>4 DEF Panes
<1>6. Shown'
  BY <1>4, <1>5 DEF Shown
<1>7. ViewStep
  <2>1. screen' \in Screens /\ (screen'.whole \/ Leaked') /\ (screen.whole \/ Leaked)
        /\ (screen = BlankScreen \/ screen.from < screen.to) /\ ring'.seen = ring.seen
    BY <1>4 DEF Shown
  <2>2. CASE screen' = screen \/ screen' = BlankScreen
    BY <1>2, <2>1, <2>2, ViewSteps
  <2>3. CASE screen'.from < screen'.to /\ screen'.to <= ring.seen /\ screen.to <= screen'.to
    BY <1>2, <2>1, <2>3, ViewSteps
  <2> QED BY <1>4, <2>2, <2>3
<1>8. Moved(1)
  BY <1>1, <1>5, TakenMoves
<1>9. Lives
  BY <1>1, <1>5 DEF Lives, Live
<1> QED BY <1>6, <1>7, <1>8, <1>9 DEF Responds, Outcome

(* A replay: what follows the pane's cursor, or a screen of its own.       *)
LEMMA ReplayResponds ==
    ASSUME Shapes, Wired, Shown, Newest, ReceiveReplay
    PROVE  Responds
<1> DEFINE f == Head(wire)
           r == f.body
           p == [pane EXCEPT !.known = TRUE, !.awaiting = FALSE, !.overflow = FALSE]
           base == IF pane.overflow THEN BlankScreen ELSE screen
           appends == pane.synced /\ ~pane.overflow
           a == MaxOf(r.from, pane.cursor)
<1>0. pane \in Panes /\ screen \in Screens /\ ring.seen \in Nat /\ pane.cursor \in Offsets /\ pane.cursor \in Nat
      /\ BlankScreen \in Screens /\ BlankScreen.to = 0 /\ BlankScreen.whole /\ screen.to \in Nat
  BY Limits DEF Shapes, PaneShape, RingShape, Offsets, Panes, Screens, BlankScreen
<1>1. Received("reply") /\ f.attempt = pane.sent /\ r.kind = "replay" /\ ring' = ring
  BY DEF ReceiveReplay, Reply, server
<1>2. /\ wire # << >> /\ wire' = Tail(wire) /\ 1 \in DOMAIN wire /\ f = wire[1] /\ ~IsItem(f)
      /\ r \in Snapshots \cup Replays /\ r.to \in Offsets /\ r.to \in Nat /\ r.to <= ring.seen
  BY <1>1, TakenFacts DEF Offsets
<1>3. r.from \in Offsets /\ r.from \in Nat
  <2> HIDE DEF r
  <2>1. r \in Replays
    BY <1>1, <1>2, KindFacts
  <2> QED BY <2>1 DEF Replays, Offsets
<1>4. Live \/ screen.to <= r.to
  BY <1>1, <1>2 DEF Newest
<1>5. p \in Panes /\ p.sent = pane.sent /\ ~p.overflow /\ ~p.awaiting
  BY <1>0 DEF Panes
<1>6. a \in Offsets /\ a \in Nat /\ (r.from <= pane.cursor => a = pane.cursor) /\ (pane.cursor < r.from => a = r.from)
  <2> HIDE DEF r
  <2> QED BY <1>0, <1>3 DEF MaxOf, Offsets
<1>7. ASSUME NEW c \in Offsets, NEW s \in Screens, SyncedAt(p, c, s, pane.pending), inbox' = inbox, r.to <= c,
             s = BlankScreen \/ s.from < s.to, s.to <= ring.seen, s.to <= c,
             s = BlankScreen \/ s.to = c \/ Leaked', s.whole \/ Leaked',
             s = screen \/ s = BlankScreen \/ screen.to <= s.to
      PROVE  Responds
  <2> HIDE DEF p
  <2> QED BY <1>1, <1>5, <1>7, AnsweredResponds
<1>8. CASE Live /\ pane' = [pane EXCEPT !.known = TRUE] /\ UNCHANGED <<screen, inbox, faults>>
  <2>1. /\ pane'.synced = pane.synced /\ pane'.cursor = pane.cursor /\ pane'.catchup = pane.catchup
        /\ pane'.awaiting = pane.awaiting /\ pane'.overflow = pane.overflow /\ pane'.sent = pane.sent
        /\ pane'.pending = pane.pending
    BY <1>0, <1>8 DEF Panes
  <2>2. Moved(1)
    BY <1>2, <2>1, TakenMoves
  <2> QED BY <1>1, <1>8, <2>1, <2>2, RestsResponds
<1>9. CASE /\ ~Live /\ appends /\ r.to <= pane.cursor
           /\ SyncedAt(p, pane.cursor, screen, pane.pending)
           /\ UNCHANGED <<inbox, faults>>
  <2>1. Leaked' <=> Leaked
    BY <1>9 DEF Leaked
  <2> HIDE DEF p, r
  <2> QED BY <1>0, <1>7, <1>9, <2>1 DEF Shown
<1>10. CASE /\ ~Live /\ appends /\ r.to > pane.cursor
            /\ SyncedAt(p, r.to, Painted(screen, a, r.to), pane.pending)
            /\ faults' = IF pane.cursor < r.from THEN faults \cup {"prefix"} ELSE faults
            /\ UNCHANGED inbox
  <2> DEFINE s == Painted(screen, a, r.to)
  <2>1. Leaked => Leaked'
    BY <1>10 DEF Leaked
  <2>2. pane.cursor < r.from => Leaked'
    BY <1>10 DEF Leaked, Leaks
  <2>3. r.to <= r.to /\ screen.to <= r.to /\ screen.to <= ring.seen
    <3> HIDE DEF r
    <3> QED BY <1>2, <1>4, <1>10 DEF Shown
  <2>4. CASE a >= r.to
    <3>1. s = screen
      BY <2>4 DEF Painted
    <3>2. Leaked'
      <4> HIDE DEF r, a
      <4> QED BY <1>0, <1>2, <1>3, <1>6, <1>10, <2>2, <2>4
    <3> HIDE DEF p, r, s
    <3> QED BY <1>0, <1>2, <1>7, <1>10, <2>3, <3>1, <3>2 DEF Shown, s
  <2>5. CASE a < r.to
    <3>1. /\ s \in Screens /\ s.to = r.to
          /\ screen = BlankScreen => s.from = a /\ s.whole
          /\ screen # BlankScreen => s.from = screen.from /\ (s.whole <=> screen.whole /\ a = screen.to)
      <4> HIDE DEF r, a
      <4> QED BY <1>0, <1>2, <1>6, <2>5, PaintedRun DEF Shown
    <3> HIDE DEF a, r
    <3>2. s.from < s.to
      <4>1. CASE screen = BlankScreen
        BY <2>5, <3>1, <4>1
      <4>2. CASE screen # BlankScreen
        <5>1. screen.from < screen.to /\ screen.from \in Nat
          BY <1>0, <4>2 DEF Shown, Screens, Offsets
        <5> QED BY <1>0, <1>2, <2>3, <3>1, <4>2, <5>1
      <4> QED BY <4>1, <4>2
    <3>3. s.whole \/ Leaked'
      <4>1. CASE screen = BlankScreen \/ pane.cursor < r.from \/ Leaked
        BY <2>1, <2>2, <3>1, <4>1
      <4>2. CASE screen # BlankScreen /\ ~(pane.cursor < r.from) /\ ~Leaked
        <5>1. screen.to = pane.cursor /\ screen.whole /\ a = pane.cursor
          BY <1>0, <1>3, <1>6, <1>10, <4>2 DEF Shown
        <5> QED BY <3>1, <4>2, <5>1
      <4> QED BY <4>1, <4>2
    <3> HIDE DEF p, s
    <3>4. SyncedAt(p, r.to, s, pane.pending) /\ inbox' = inbox
      BY <1>10 DEF s
    <3>5. s.to <= ring.seen /\ s.to <= r.to /\ screen.to <= s.to
      BY <1>2, <2>3, <3>1
    <3> QED BY <1>2, <1>7, <2>3, <3>1, <3>2, <3>3, <3>4, <3>5
  <2> HIDE DEF r, a
  <2> QED BY <1>2, <1>6, <2>4, <2>5
<1>11. CASE ResetAndReattach(p)
  <2> HIDE DEF p
  <2> QED BY <1>1, <1>2, <1>5, <1>11, ResetResponds
<1>12. CASE /\ ~Live /\ ~appends
            /\ SyncedAt(p, r.to, Painted(base, r.from, r.to), pane.pending)
            /\ UNCHANGED <<inbox, faults>>
  <2> DEFINE s == Painted(base, r.from, r.to)
  <2>1. base = BlankScreen
    BY <1>12 DEF Shown
  <2>2. /\ s \in Screens /\ s.whole /\ (s = BlankScreen \/ (s.from < s.to /\ s.to = r.to))
    <3>1. CASE r.from >= r.to
      <4>1. s = base
        BY <3>1 DEF Painted
      <4> HIDE DEF s, base
      <4> QED BY <1>0, <2>1, <4>1
    <3>2. CASE r.from < r.to
      <4> HIDE DEF r, base
      <4> QED BY <1>0, <1>2, <1>3, <2>1, <3>2, PaintedRun
    <3> HIDE DEF r, base
    <3> QED BY <1>2, <1>3, <3>1, <3>2
  <2>3. screen.to <= r.to /\ r.to <= r.to /\ 0 <= r.to /\ 0 <= ring.seen
    <3> HIDE DEF r
    <3> QED BY <1>0, <1>2, <1>4, <1>12
  <2> HIDE DEF s, r, p
  <2>4. SyncedAt(p, r.to, s, pane.pending) /\ inbox' = inbox
    BY <1>12 DEF s
  <2> QED BY <1>0, <1>2, <1>7, <2>2, <2>3, <2>4
<1> QED BY <1>8, <1>9, <1>10, <1>11, <1>12 DEF ReceiveReplay

(* A snapshot comes to a pane that waits for it.                           *)
LEMMA SnapshotResponds ==
    ASSUME Shapes, Wired, Shown, Newest, ReceiveSnapshot
    PROVE  Responds
<1> DEFINE f == Head(wire)
           r == f.body
           p == [pane EXCEPT !.known = TRUE, !.awaiting = FALSE, !.overflow = FALSE]
           s == [from |-> 0, to |-> r.to, whole |-> TRUE]
<1>0. pane \in Panes
  BY DEF Shapes, PaneShape
<1>1. Received("reply") /\ f.attempt = pane.sent /\ r.kind = "snapshot" /\ ring' = ring
  BY DEF ReceiveSnapshot, Reply, server
<1>2. /\ wire # << >> /\ wire' = Tail(wire) /\ 1 \in DOMAIN wire /\ f = wire[1] /\ ~IsItem(f)
      /\ r.to \in Offsets /\ r.to \in Nat /\ r.to <= ring.seen
  BY <1>1, TakenFacts DEF Offsets
<1>3. screen.to <= r.to
  <2>1. pane.awaiting /\ (Live \/ screen.to <= r.to)
    BY <1>1, <1>2 DEF Newest, Snaps
  <2> QED BY <2>1 DEF Shown
<1>4. /\ p \in Panes /\ p.sent = pane.sent /\ ~p.overflow /\ ~p.awaiting
      /\ [p EXCEPT !.skip = TRUE] \in Panes /\ [p EXCEPT !.skip = TRUE].sent = pane.sent
  BY <1>0 DEF Panes
<1>5. CASE SyncedAt(p, r.to, s, pane.pending) /\ UNCHANGED inbox
  <2>1. s \in Screens /\ s.to = r.to /\ s.whole /\ (s = BlankScreen \/ s.from < s.to) /\ r.to <= r.to
    <3> DEFINE n == r.to
    <3> HIDE DEF n
    <3>1. n \in Offsets /\ n \in Nat /\ s = [from |-> 0, to |-> n, whole |-> TRUE] /\ 0 \in Offsets
      BY <1>2, Limits DEF n, Offsets
    <3> HIDE DEF s
    <3>2. s \in Screens /\ s.to = n /\ s.from = 0 /\ s.whole
      BY <3>1 DEF Screens
    <3>3. n = 0 => s = BlankScreen
      BY <3>1 DEF BlankScreen
    <3>4. n # 0 => s.from < s.to
      BY <3>1, <3>2
    <3> QED BY <3>1, <3>2, <3>3, <3>4 DEF n
  <2> HIDE DEF s, p
  <2> QED BY <1>1, <1>2, <1>3, <1>4, <1>5, <2>1, AnsweredResponds
<1>6. CASE ResetAndReattach([p EXCEPT !.skip = TRUE])
  <2> HIDE DEF p
  <2> QED BY <1>1, <1>2, <1>4, <1>6, ResetResponds
<1>7. (SyncedAt(p, r.to, s, pane.pending) /\ UNCHANGED inbox) \/ ResetAndReattach([p EXCEPT !.skip = TRUE])
  BY DEF ReceiveSnapshot
<1> QED BY <1>5, <1>6, <1>7

(* The pane is hidden, and shown again.                                    *)
LEMMA HideShowResponds ==
    ASSUME Shapes, Shown, Hide \/ Show
    PROVE  Responds
<1>0. pane \in Panes /\ screen \in Screens /\ ring.seen \in Nat /\ wire \in Seq(Messages)
  BY DEF Shapes, PaneShape, RingShape, LinkShape, Offsets
<1>1. ring' = ring /\ wire' = wire /\ screen' = screen
  BY DEF Hide, Show, server
<1>2. ASSUME pane'.pending = pane.pending PROVE Moved(0)
  BY <1>0, <1>1, <1>2 DEF Moved
<1>3. CASE Hide
  <2>1. pane' = [pane EXCEPT !.shown = FALSE] /\ inbox' = Append(inbox, [kind |-> "hide"]) /\ faults \subseteq faults'
    BY <1>3 DEF Hide, Fault
  <2>2. /\ pane'.synced = pane.synced /\ pane'.cursor = pane.cursor /\ pane'.catchup = pane.catchup
        /\ pane'.awaiting = pane.awaiting /\ pane'.overflow = pane.overflow /\ pane'.sent = pane.sent
        /\ pane'.pending = pane.pending
    BY <1>0, <2>1 DEF Panes
  <2> QED BY <1>1, <1>2, <2>1, <2>2, RestsResponds
<1>4. CASE Show
  <2> DEFINE resume == pane.synced /\ KeepsScreen
             p == [pane EXCEPT !.catchup = TRUE, !.skip = @ \/ resume, !.shown = TRUE]
             m == AttachMsg(p, resume)
             q == Attaching(p)
  <2>1. /\ p \in Panes /\ p.sent = pane.sent /\ resume \in BOOLEAN /\ p.synced = pane.synced /\ p.cursor = pane.cursor
        /\ p.pending = pane.pending /\ p.catchup /\ p.overflow = pane.overflow
    BY <1>0, PaneStreamAssumption DEF Panes
  <2>2. pane' = q /\ inbox' = inbox \o <<[kind |-> "show"], m>> /\ faults' = faults
    BY <1>4 DEF Show
  <2> HIDE DEF p, resume
  <2>3. /\ q.synced = p.synced /\ q.cursor = p.cursor /\ q.pending = p.pending /\ q.catchup = p.catchup
        /\ q.overflow = p.overflow /\ q.sent = p.sent + 1 /\ q.awaiting = m.snapshot /\ m \in Attaches
    BY <2>1, AttachingFields, AttachingTypes
  <2> HIDE DEF m, q
  <2>4. inbox' = Append(Append(inbox, [kind |-> "show"]), m)
    <3> DEFINE x == [kind |-> "show"]
    <3>1. x \in Requests /\ m \in Requests /\ inbox \in Seq(Requests)
      BY <2>3 DEF Requests, Shapes, LinkShape
    <3>2. inbox' = inbox \o <<x, m>>
      BY <2>2
    <3> HIDE DEF x
    <3>3. inbox' = Append(Append(inbox, x), m)
      BY <3>1, <3>2
    <3> QED BY <3>3 DEF x
  <2>5. Asks
    BY <2>1, <2>2, <2>3, <2>4 DEF Asks
  <2>6. Shown'
    BY <1>1, <2>1, <2>2, <2>3 DEF Shown, Leaked, Live
  <2>7. ViewStep
    BY <1>0, <1>1, <2>2, ViewSteps DEF Shown, Leaked
  <2>8. Moved(0)
    BY <1>2, <2>1, <2>2, <2>3
  <2> QED BY <2>5, <2>6, <2>7, <2>8 DEF Responds, Outcome
<1> QED BY <1>3, <1>4

-----------------------------------------------------------------------------
(* The newest attach                                                       *)

(* None on its way means none in the channel.                              *)
LEMMA NothingAsked ==
    ASSUME NEW s \in Seq(Requests), Asked(s) = 0
    PROVE  \A i \in DOMAIN s : s[i].kind # "attach"
<1>1. Places(s, Attaches) = {}
  BY PlacesFinite, FS_EmptySet DEF Asked
<1>2. \A i \in DOMAIN s : s[i] \in Requests /\ s[i] \notin Attaches
  BY <1>1 DEF Places
<1> QED BY <1>2, KindFacts

(* A request for a snapshot is an attach.                                  *)
LEMMA SnapsFacts ==
    /\ \A m \in Requests : Snaps(m) => m.kind = "attach" /\ m.snapshot
    /\ \A m \in Attaches : m.kind = "attach" /\ (Snaps(m) <=> m.snapshot)
    /\ ~Snaps([kind |-> "hide"]) /\ ~Snaps([kind |-> "show"])
BY DEF Requests, Attaches, Snaps

(* A step of the pane keeps it waiting for what it asked last, or no       *)
(* longer waits with nothing more to come.                                 *)
LEMMA OutcomeNewest ==
    ASSUME Shapes, Shapes', Agreed, Wired, Newest, Outcome, UNCHANGED <<attempts, landing>>
    PROVE  Newest'
<1>0. /\ inbox \in Seq(Requests) /\ attempts \in Nat /\ Asked(inbox) \in Nat /\ pane.sent \in Nat
      /\ DOMAIN wire = 1 .. Len(wire) /\ Len(wire) \in Nat /\ wire' \in Seq(Messages)
  BY WireFacts, AskedFacts DEF Shapes, LinkShape, LoopShape, PaneShape, Panes
<1>1. \A i \in DOMAIN wire : ~IsItem(wire[i]) => wire[i].attempt \in Nat /\ wire[i].attempt <= attempts
  BY WireFacts DEF Wired, Sent
<1>2. attempts <= pane.sent /\ (landing # NoLanding => attempts + 1 <= pane.sent)
      /\ (attempts = pane.sent => Asked(inbox) = 0 /\ landing = NoLanding)
  <2>1. attempts + Asked(inbox) + (IF landing = NoLanding THEN 0 ELSE 1) = pane.sent
    BY DEF Agreed
  <2> QED BY <1>0, <2>1
<1>3. CASE \E d \in {0, 1} : Moved(d) /\ Waits
  <2>1. PICK d \in {0, 1} : Moved(d) /\ Waits
    BY <1>3
  <2>2. /\ pane'.sent = pane.sent /\ (pane.awaiting => pane'.awaiting) /\ (Live => Live') /\ screen' = screen
        /\ attempts' = attempts /\ landing' = landing
    BY <2>1 DEF Waits
  <2>3. ASSUME NEW i \in DOMAIN wire', ~IsItem(wire'[i]), wire'[i].attempt = pane'.sent
        PROVE  (Live' \/ screen'.to <= wire'[i].body.to) /\ (Snaps(wire'[i].body) => pane'.awaiting)
    <3>1. i + d \in DOMAIN wire /\ wire'[i] = wire[i + d]
      BY <2>1 DEF Moved
    <3> QED BY <2>2, <2>3, <3>1 DEF Newest
  <2>4. landing' # NoLanding /\ attempts' + 1 = pane'.sent =>
          (IsReady' => Live' \/ screen'.to <= landing'.to) /\ (Snaps(landing') => pane'.awaiting)
    BY <2>2 DEF Newest, IsReady
  <2>5. ASSUME NEW i \in DOMAIN inbox', Snaps(inbox'[i]), \A j \in DOMAIN inbox' : i < j => inbox'[j].kind # "attach"
        PROVE  pane'.awaiting
    <3>1. CASE inbox' = inbox
      BY <2>2, <2>5, <3>1 DEF Newest
    <3>2. CASE inbox' = Append(inbox, [kind |-> "hide"])
      <4> DEFINE h == [kind |-> "hide"]
      <4>1. ~Snaps(h)
        BY SnapsFacts
      <4> HIDE DEF h
      <4>2. inbox' = Append(inbox, h)
        BY <3>2 DEF h
      <4>3. \A j \in DOMAIN inbox : j \in DOMAIN inbox' /\ inbox'[j] = inbox[j]
        BY <1>0, <4>2
      <4>4. i \in DOMAIN inbox
        BY <1>0, <2>5, <4>1, <4>2
      <4> QED BY <2>2, <2>5, <4>3, <4>4 DEF Newest
    <3> QED BY <2>1, <3>1, <3>2 DEF Waits
  <2> QED BY <2>3, <2>4, <2>5 DEF Newest
<1>4. CASE \E d \in {0, 1} : Moved(d) /\ Asks
  <2>1. PICK d \in {0, 1} : Moved(d) /\ Asks
    BY <1>4
  <2>2. pane'.sent = pane.sent + 1 /\ attempts' = attempts /\ landing' = landing
    BY <2>1 DEF Asks
  <2>3. PICK m \in Attaches : /\ m.snapshot => pane'.awaiting
                              /\ inbox' = Append(inbox, m) \/ inbox' = Append(Append(inbox, [kind |-> "show"]), m)
    BY <2>1 DEF Asks
  <2>4. ASSUME NEW i \in DOMAIN wire', ~IsItem(wire'[i]), wire'[i].attempt = pane'.sent PROVE FALSE
    <3>1. i + d \in DOMAIN wire /\ wire'[i] = wire[i + d]
      BY <2>1 DEF Moved
    <3> QED BY <1>0, <1>1, <1>2, <2>2, <2>4, <3>1
  <2>5. landing' # NoLanding => attempts' + 1 # pane'.sent
    BY <1>0, <1>2, <2>2
  <2>6. \E t \in Seq(Requests) : inbox' = Append(t, m)
    <3> DEFINE x == [kind |-> "show"]
    <3>1. x \in Requests
      BY DEF Requests
    <3> HIDE DEF x
    <3>2. Append(inbox, x) \in Seq(Requests)
      BY <1>0, <3>1
    <3>3. inbox' = Append(inbox, m) \/ inbox' = Append(Append(inbox, x), m)
      BY <2>3 DEF x
    <3> QED BY <1>0, <3>2, <3>3
  <2>7. PICK t \in Seq(Requests) : inbox' = Append(t, m)
    BY <2>6
  <2>8. ASSUME NEW i \in DOMAIN inbox', Snaps(inbox'[i]), \A j \in DOMAIN inbox' : i < j => inbox'[j].kind # "attach"
        PROVE  pane'.awaiting
    <3>1. Len(t) \in Nat /\ Len(t) + 1 \in DOMAIN inbox' /\ inbox'[Len(t) + 1] = m /\ DOMAIN inbox' = 1 .. Len(t) + 1
      BY <2>7
    <3>2. m.kind = "attach" /\ (Snaps(m) <=> m.snapshot)
      BY SnapsFacts
    <3>3. ~(i < Len(t) + 1)
      BY <2>8, <3>1, <3>2
    <3>4. inbox'[i] = m
      BY <3>1, <3>3
    <3> QED BY <2>3, <2>8, <3>2, <3>4
  <2> QED BY <2>4, <2>5, <2>8 DEF Newest
<1>5. CASE Moved(1) /\ Lives
  <2>1. Live' /\ pane'.sent = pane.sent /\ inbox' = inbox /\ attempts' = attempts /\ landing' = landing
    BY <1>5 DEF Lives
  <2>2. CASE pane.awaiting => pane'.awaiting
    <3>1. ASSUME NEW i \in DOMAIN wire', ~IsItem(wire'[i]), wire'[i].attempt = pane'.sent
          PROVE  (Live' \/ screen'.to <= wire'[i].body.to) /\ (Snaps(wire'[i].body) => pane'.awaiting)
      <4>1. i + 1 \in DOMAIN wire /\ wire'[i] = wire[i + 1]
        BY <1>5 DEF Moved
      <4> QED BY <2>1, <2>2, <3>1, <4>1 DEF Newest
    <3> QED BY <2>1, <2>2, <3>1 DEF Newest
  <2>3. CASE 1 \in DOMAIN wire /\ ~IsItem(wire[1]) /\ wire[1].attempt = pane.sent
    <3>1. attempts = pane.sent /\ Asked(inbox) = 0 /\ landing = NoLanding
      BY <1>0, <1>1, <1>2, <2>3
    <3>2. ASSUME NEW i \in DOMAIN wire', ~IsItem(wire'[i]), wire'[i].attempt = pane'.sent PROVE FALSE
      <4>1. i + 1 \in DOMAIN wire /\ wire'[i] = wire[i + 1] /\ 1 < i + 1
        BY <1>0, <1>5 DEF Moved
      <4>2. wire[1].attempt < wire[i + 1].attempt
        BY <2>3, <3>2, <4>1 DEF Wired, InOrder
      <4> QED BY <1>0, <1>1, <2>1, <2>3, <3>2, <4>1, <4>2
    <3>3. \A i \in DOMAIN inbox : ~Snaps(inbox[i])
      BY <1>0, <3>1, NothingAsked, SnapsFacts
    <3> QED BY <2>1, <3>1, <3>2, <3>3 DEF Newest
  <2> QED BY <1>5, <2>2, <2>3 DEF Lives
<1> QED BY <1>3, <1>4, <1>5 DEF Outcome

(* The loop answers with what the pane asked for, or less.                 *)
LEMMA LoopNewest ==
    ASSUME StreamInv, Shapes', Agreed, Agreed', Wired, Shown, Newest,
           (\E n \in Chunks : Push(n)) \/ Offer \/ Loop
    PROVE  Newest'
<1>0. /\ Shapes /\ inbox \in Seq(Requests) /\ inbox' \in Seq(Requests) /\ attempts \in Nat /\ pane.sent \in Nat
      /\ wire \in Seq(Messages) /\ DOMAIN wire = 1 .. Len(wire) /\ Len(wire) \in Nat
  <2>1. Shapes
    BY DEF StreamInv
  <2> QED BY <2>1, WireFacts DEF Shapes, LinkShape, LoopShape, PaneShape, Panes
<1>1. pane' = pane /\ screen' = screen /\ (Live' <=> Live)
  <2>1. pane' = pane /\ screen' = screen
    BY DEF Push, Offer, Loop, HandleShow, HandleHide, HandleAttach, Prepare, Land, LandError, Flush, client
  <2> QED BY <2>1 DEF Live
<1>2. \A i \in DOMAIN wire : ~IsItem(wire[i]) => wire[i].attempt \in Nat /\ wire[i].attempt <= attempts
  BY <1>0, WireFacts DEF Wired, Sent
<1> DEFINE Replied == \A i \in DOMAIN wire : ~IsItem(wire[i]) /\ wire[i].attempt = pane.sent =>
                        (Live \/ screen.to <= wire[i].body.to) /\ (Snaps(wire[i].body) => pane.awaiting)
           UnderWay == landing # NoLanding /\ attempts + 1 = pane.sent =>
                         (IsReady => Live \/ screen.to <= landing.to) /\ (Snaps(landing) => pane.awaiting)
           Requested == \A i \in DOMAIN inbox :
                          Snaps(inbox[i]) /\ (\A j \in DOMAIN inbox : i < j => inbox[j].kind # "attach") => pane.awaiting
<1>3. Replied /\ UnderWay /\ Requested
  BY DEF Newest
<1>4. Replied' /\ UnderWay' /\ Requested' => Newest'
  BY DEF Newest
<1>5. ASSUME wire' = wire PROVE Replied'
  BY <1>1, <1>3, <1>5
<1>6. ASSUME landing' = landing, attempts' = attempts PROVE UnderWay'
  BY <1>1, <1>3, <1>6 DEF IsReady
<1>7. ASSUME inbox' = inbox PROVE Requested'
  BY <1>1, <1>3, <1>7
<1>8. ASSUME inbox # << >>, inbox' = Tail(inbox) PROVE Requested'
  <2> SUFFICES ASSUME NEW i \in DOMAIN inbox', Snaps(inbox'[i]),
                      \A j \in DOMAIN inbox' : i < j => inbox'[j].kind # "attach"
               PROVE  pane'.awaiting
    OBVIOUS
  <2>1. /\ i + 1 \in DOMAIN inbox /\ inbox'[i] = inbox[i + 1] /\ i \in Nat
        /\ \A j \in DOMAIN inbox : i + 1 < j => j - 1 \in DOMAIN inbox' /\ i < j - 1 /\ inbox'[j - 1] = inbox[j]
    BY <1>0, <1>8
  <2>2. \A j \in DOMAIN inbox : i + 1 < j => inbox[j].kind # "attach"
    BY <2>1
  <2> QED BY <1>1, <1>3, <2>1, <2>2
<1>9. CASE (\E n \in Chunks : Push(n)) \/ Offer
  <2>1. wire' = wire /\ landing' = landing /\ attempts' = attempts /\ inbox' = inbox
    BY <1>9 DEF Push, Offer
  <2> HIDE DEF Replied, UnderWay, Requested
  <2> QED BY <1>4, <1>5, <1>6, <1>7, <2>1
<1>10. CASE HandleShow \/ HandleHide
  <2>1. wire' = wire /\ landing' = landing /\ attempts' = attempts /\ inbox # << >> /\ inbox' = Tail(inbox)
    BY <1>10 DEF HandleShow, HandleHide, Request
  <2> HIDE DEF Replied, UnderWay, Requested
  <2> QED BY <1>4, <1>5, <1>6, <1>8, <2>1
<1>11. CASE HandleAttach
  <2>1. /\ wire' = wire /\ landing' = Head(inbox) /\ Head(inbox).kind = "attach" /\ attempts' = attempts
        /\ inbox # << >> /\ inbox' = Tail(inbox)
    BY <1>11 DEF HandleAttach, Request
  <2>2. UnderWay'
    <3> SUFFICES ASSUME attempts' + 1 = pane'.sent, Snaps(landing') PROVE pane'.awaiting
      BY <2>1 DEF IsReady
    <3>1. landing' # NoLanding
      BY <2>1 DEF NoLanding
    <3>2. Asked(inbox') = 0
      <4>1. Asked(inbox') \in Nat /\ attempts' \in Nat
        BY <1>0, <2>1, AskedFacts
      <4>2. attempts' + Asked(inbox') + 1 = pane'.sent
        BY <3>1 DEF Agreed
      <4> QED BY <4>1, <4>2
    <3>3. 1 \in DOMAIN inbox /\ inbox[1] = Head(inbox)
          /\ \A j \in DOMAIN inbox : 1 < j => j - 1 \in DOMAIN inbox' /\ inbox'[j - 1] = inbox[j]
      BY <1>0, <2>1
    <3>4. \A j \in DOMAIN inbox : 1 < j => inbox[j].kind # "attach"
      BY <1>0, <3>2, <3>3, NothingAsked
    <3> QED BY <1>1, <1>3, <2>1, <3>3, <3>4
  <2> HIDE DEF Replied, UnderWay, Requested
  <2> QED BY <1>4, <1>5, <1>8, <2>1, <2>2
<1>12. CASE Prepare
  <2>1. /\ wire' = wire /\ inbox' = inbox /\ attempts' = attempts /\ ring' = ring /\ landing.kind = "attach"
    BY <1>12 DEF Prepare
  <2>2. landing'.to = ring.seen /\ landing'.kind # "attach" /\ (landing'.kind = "snapshot" => landing.snapshot)
    <3>1. ASSUME NEW a, NEW b
          PROVE  /\ Replay(a, b).to = ring.seen /\ Partial(a).to = ring.seen
                 /\ Replay(a, b).kind = "replay" /\ Partial(a).kind = "replay"
      BY DEF Replay, Partial
    <3>2. \/ landing.snapshot /\ landing' = [kind |-> "snapshot", to |-> ring.seen]
          \/ \E a, b : landing' = Replay(a, b)
          \/ \E a : landing' = Partial(a)
      BY <1>12 DEF Prepare
    <3> QED BY <3>1, <3>2
  <2>3. landing # NoLanding
    BY <2>1 DEF NoLanding
  <2>4. screen'.to <= landing'.to
    BY <1>1, <2>2 DEF Shown
  <2>5. Snaps(landing') => Snaps(landing)
    BY <2>1, <2>2 DEF Snaps
  <2>6. UnderWay'
    BY <1>1, <1>3, <2>1, <2>3, <2>4, <2>5
  <2> HIDE DEF Replied, UnderWay, Requested
  <2> QED BY <1>4, <1>5, <1>7, <2>1, <2>6
<1>13. CASE LandError
  <2>1. wire' = wire /\ inbox' = inbox /\ landing' = NoLanding
    BY <1>13 DEF LandError
  <2>2. UnderWay'
    BY <2>1
  <2> HIDE DEF Replied, UnderWay, Requested
  <2> QED BY <1>4, <1>5, <1>7, <2>1, <2>2
<1>14. CASE Land
  <2> DEFINE m == [kind |-> "reply", attempt |-> attempts + 1, body |-> landing]
  <2>1. inbox' = inbox /\ landing' = NoLanding /\ wire' = Append(wire, m) /\ IsReady
    BY <1>14 DEF Land, IsReady
  <2>2. landing \in Snapshots \cup Replays /\ landing # NoLanding
    BY <1>0, <2>1, WireFacts
  <2>3. m \in Messages /\ m.attempt = attempts + 1 /\ m.body = landing
    BY <1>0, <2>2 DEF Messages
  <2> HIDE DEF m
  <2>4. Replied'
    <3>1. ASSUME NEW i \in DOMAIN wire', ~IsItem(wire'[i]), wire'[i].attempt = pane'.sent
          PROVE  (Live' \/ screen'.to <= wire'[i].body.to) /\ (Snaps(wire'[i].body) => pane'.awaiting)
      <4>1. (i \in DOMAIN wire /\ wire'[i] = wire[i]) \/ wire'[i] = m
        BY <1>0, <2>1, <2>3, SequenceMembers
      <4>2. CASE i \in DOMAIN wire /\ wire'[i] = wire[i]
        BY <1>1, <1>3, <3>1, <4>2
      <4>3. CASE wire'[i] = m
        BY <1>1, <1>3, <2>1, <2>2, <2>3, <3>1, <4>3
      <4> QED BY <4>1, <4>2, <4>3
    <3> QED BY <3>1
  <2>5. UnderWay'
    BY <2>1
  <2> HIDE DEF Replied, UnderWay, Requested
  <2> QED BY <1>4, <1>7, <2>1, <2>4, <2>5
<1>15. CASE Flush
  <2>1. inbox' = inbox /\ landing' = landing /\ attempts' = attempts
    BY <1>15 DEF Flush
  <2>2. Replied'
    <3>1. CASE wire' = wire
      BY <1>5, <3>1
    <3>2. CASE visible /\ ~held /\ wire' = wire \o Drained(tap).out
      <4> DEFINE o == Drained(tap).out
      <4>1. o \in Seq(Part)
        <5>1. End \in Offsets /\ Tiles(tap, End)
          BY <1>0, EndFacts DEF Shapes, StreamInv, TapInv
        <5> QED BY <5>1, DrainedTiles
      <4> HIDE DEF o
      <4>2. \A i \in DOMAIN o : IsItem(o[i])
        BY <4>1, PartFacts DEF IsItem
      <4>3. wire' = wire \o o
        BY <3>2 DEF o
      <4>4. ASSUME NEW i \in DOMAIN wire', ~IsItem(wire'[i]) PROVE i \in DOMAIN wire /\ wire'[i] = wire[i]
        <5>1. Len(o) \in Nat /\ DOMAIN wire' = 1 .. Len(wire) + Len(o)
          BY <1>0, <4>1, <4>3
        <5>2. i > Len(wire) => i - Len(wire) \in DOMAIN o /\ wire'[i] = o[i - Len(wire)]
          BY <1>0, <4>1, <4>3, <5>1
        <5>3. i <= Len(wire)
          BY <1>0, <4>2, <4>4, <5>1, <5>2
        <5> QED BY <1>0, <4>1, <4>3, <5>1, <5>3
      <4> QED BY <1>1, <1>3, <4>4
    <3> QED BY <1>15, <3>1, <3>2 DEF Flush
  <2> HIDE DEF Replied, UnderWay, Requested
  <2> QED BY <1>4, <1>6, <1>7, <2>1, <2>2
<1> QED BY <1>9, <1>10, <1>11, <1>12, <1>13, <1>14, <1>15 DEF Loop

-----------------------------------------------------------------------------
(* The refinement                                                          *)

(* The session's reader and the loop leave the screen: output is produced, *)
(* or the view does not move.                                              *)
LEMMA LoopShows ==
    ASSUME Shapes, Shapes', Shown, (\E n \in Chunks : Push(n)) \/ Offer \/ Loop
    PROVE  Shown' /\ ViewStep
<1>0. ring.seen \in Nat /\ ring'.seen \in Nat /\ screen \in Screens /\ screen.to \in Nat
  BY DEF Shapes, RingShape, PaneShape, Screens, Offsets
<1>1. pane' = pane /\ screen' = screen /\ faults \subseteq faults'
  <2>1. pane' = pane /\ screen' = screen
    BY DEF Push, Offer, Loop, HandleShow, HandleHide, HandleAttach, Prepare, Land, LandError, Flush, client
  <2>2. faults \subseteq faults'
    BY DEF Push, Offer, Loop, HandleShow, HandleHide, HandleAttach, Prepare, Land, LandError, Flush, Fault
  <2> QED BY <2>1, <2>2
<1>2. (Leaked => Leaked') /\ (Live' <=> Live)
  BY <1>1 DEF Leaked, Live
<1>3. ring'.seen = ring.seen \/ ring'.seen > ring.seen
  <2>1. CASE \E n \in Chunks : Push(n)
    <3>1. PICK n \in Chunks : Push(n)
      BY <2>1
    <3>2. ring \in [start : Offsets, seen : Offsets] /\ n \in Nat /\ n > 0
      BY Limits DEF Shapes, RingShape
    <3>3. ring'.seen = ring.seen + n
      BY <3>1, <3>2 DEF Push
    <3> QED BY <1>0, <3>2, <3>3
  <2>2. CASE Offer \/ Loop
    BY <2>2 DEF Offer, Loop, HandleShow, HandleHide, HandleAttach, Prepare, Land, LandError, Flush
  <2> QED BY <2>1, <2>2
<1>4. Shown'
  BY <1>0, <1>1, <1>2, <1>3 DEF Shown
<1>5. ViewStep
  <2>1. CASE ring'.seen = ring.seen
    BY <1>0, <1>1, <1>2, <2>1, ViewSteps DEF Shown
  <2>2. CASE ring'.seen > ring.seen
    <3>1. Seen' = Seen
      BY <1>1, <1>2 DEF Seen, Shown, Leaked
    <3>2. View!Produce
      BY <1>0, <2>2, <3>1 DEF View!Produce, Seen
    <3> QED BY <3>2 DEF ViewStep, View!Next
  <2> QED BY <1>3, <2>1, <2>2
<1> QED BY <1>4, <1>5

(* A new connection starts with nothing on its way and a blank screen.     *)
LEMMA ReconnectViews ==
    ASSUME Shapes, Shapes', Shown, Reconnect
    PROVE  ViewInv' /\ ViewStep
<1> DEFINE q == [pane EXCEPT !.sent = 0, !.known = FALSE]
           p == Unsynced(q)
           m == AttachMsg(p, FALSE)
<1>0. /\ ring' = ring /\ ring.seen \in Nat /\ screen \in Screens /\ screen' \in Screens /\ pane \in Panes
      /\ wire' = << >> /\ landing' = NoLanding /\ screen' = BlankScreen /\ pane' = Attaching(p) /\ inbox' = <<m>>
      /\ BlankScreen.to = 0 /\ BlankScreen.whole
  BY DEF Reconnect, Shapes, RingShape, PaneShape, Offsets, BlankScreen
<1>1. q \in Panes
  BY <1>0 DEF Panes
<1>2. /\ p \in Panes /\ p.synced = FALSE /\ p.cursor = 0 /\ p.pending = << >> /\ p.catchup = FALSE
      /\ p.overflow = FALSE
  <2> HIDE DEF q
  <2>1. p \in Panes
    BY <1>1, AttachingTypes
  <2> QED BY <1>1, <2>1 DEF Unsynced, Panes
<1> HIDE DEF p
<1>3. /\ pane'.synced = FALSE /\ pane'.cursor = 0 /\ pane'.pending = << >> /\ pane'.catchup = FALSE
      /\ pane'.overflow = FALSE /\ pane'.awaiting = m.snapshot /\ m \in Attaches
  <2>1. FALSE \in BOOLEAN
    OBVIOUS
  <2>2. m \in Attaches
    BY <1>2, <2>1, AttachingTypes
  <2>3. Attaching(p).awaiting = Wants(p) /\ m.snapshot = Wants(p)
    BY <1>2, <2>1, AttachingFields
  <2>4. /\ Attaching(p).synced = FALSE /\ Attaching(p).cursor = 0 /\ Attaching(p).pending = << >>
        /\ Attaching(p).catchup = FALSE /\ Attaching(p).overflow = FALSE
    BY <1>2, <2>1, AttachingFields
  <2> HIDE DEF m
  <2> QED BY <1>0, <2>2, <2>3, <2>4
<1> HIDE DEF m
<1>4. Wired'
  BY <1>0, <1>3 DEF Wired, Sent, InOrder, Ready, Bounded, IsReady, NoLanding
<1>5. Shown'
  BY <1>0, <1>3 DEF Shown, Live
<1>6. Newest'
  <2>1. \A i \in DOMAIN inbox' : inbox'[i] = m
    BY <1>0
  <2>2. Snaps(m) => m.snapshot
    BY <1>3, SnapsFacts
  <2> QED BY <1>0, <1>3, <2>1, <2>2 DEF Newest
<1>7. ViewStep
  BY <1>0, ViewSteps DEF Shown
<1> QED BY <1>4, <1>5, <1>6, <1>7 DEF ViewInv

(* The first state.                                                        *)
LEMMA ViewInit == Init => ViewInv
<1> SUFFICES ASSUME Init PROVE ViewInv
  OBVIOUS
<1> DEFINE m == AttachMsg(NewPane, FALSE)
           s == [kind |-> "show"]
<1>0. /\ wire = << >> /\ landing = NoLanding /\ screen = BlankScreen /\ pane = Attaching(NewPane)
      /\ inbox = <<s, m>> /\ ring.seen = 0 /\ BlankScreen.to = 0 /\ BlankScreen.whole
  BY DEF Init, BlankScreen
<1>1. NewPane \in Panes
  <2>1. 0 \in Offsets /\ << >> \in Seq(Items)
    BY Limits DEF Offsets
  <2> QED BY <2>1 DEF NewPane, Panes
<1>2. /\ pane.synced = FALSE /\ pane.cursor = 0 /\ pane.pending = << >> /\ pane.catchup = FALSE
      /\ pane.overflow = FALSE /\ pane.awaiting = m.snapshot /\ m \in Attaches
  <2>1. FALSE \in BOOLEAN
    OBVIOUS
  <2>2. m \in Attaches
    BY <1>1, <2>1, AttachingTypes
  <2>3. Attaching(NewPane).awaiting = Wants(NewPane) /\ m.snapshot = Wants(NewPane)
    BY <1>1, <2>1, AttachingFields
  <2>4. /\ Attaching(NewPane).synced = FALSE /\ Attaching(NewPane).cursor = 0 /\ Attaching(NewPane).pending = << >>
        /\ Attaching(NewPane).catchup = FALSE /\ Attaching(NewPane).overflow = FALSE
    BY <1>1, <2>1, AttachingFields DEF NewPane
  <2> HIDE DEF m
  <2> QED BY <1>0, <2>2, <2>3, <2>4
<1>3. ~Snaps(s) /\ (Snaps(m) => m.snapshot)
  BY <1>2, SnapsFacts
<1> HIDE DEF m, s
<1>4. Wired
  BY <1>0, <1>2 DEF Wired, Sent, InOrder, Ready, Bounded, IsReady, NoLanding
<1>5. Shown
  BY <1>0, <1>2 DEF Shown, Live
<1>6. Newest
  <2>1. \A i \in DOMAIN inbox : inbox[i] = s \/ inbox[i] = m
    BY <1>0
  <2> QED BY <1>0, <1>2, <1>3, <2>1 DEF Newest
<1> QED BY <1>4, <1>5, <1>6 DEF ViewInv

(* The invariant of the view is inductive, and every step is one of        *)
(* PaneView's or leaves what is shown.                                     *)
LEMMA ViewInvStep ==
    ASSUME StreamInv, StreamInv', Agreed, Agreed', ViewInv, [Next]_vars
    PROVE  ViewInv' /\ ViewStep
<1>1. Shapes /\ Shapes' /\ Wired /\ Shown /\ Newest
  BY DEF StreamInv, ViewInv
<1>2. CASE (\E n \in Chunks : Push(n)) \/ Offer \/ Loop
  BY <1>1, <1>2, LoopWired, LoopShows, LoopNewest DEF ViewInv
<1>3. ASSUME Responds, UNCHANGED server PROVE ViewInv' /\ ViewStep
  <2>1. Shown' /\ ViewStep /\ Outcome
    BY <1>3 DEF Responds
  <2>2. UNCHANGED <<ring, held, attempts, landing>>
    BY <1>3 DEF server
  <2>3. \E d \in {0, 1} : Moved(d)
    BY <2>1 DEF Outcome
  <2>4. Wired'
    BY <1>1, <2>2, <2>3, MovedWired
  <2>5. Newest'
    BY <1>1, <2>1, <2>2, OutcomeNewest
  <2> QED BY <2>1, <2>4, <2>5 DEF ViewInv
<1>4. CASE Receive
  <2>1. UNCHANGED server
    BY <1>4 DEF Receive, FrameLive, FrameHeld, ReceiveGap, ReceiveStale, ReceiveReplay, ReceiveSnapshot
  <2>2. Responds
    BY <1>1, <1>4, FrameLiveResponds, FrameHeldResponds, GapResponds, ReplayResponds, SnapshotResponds DEF Receive
  <2> QED BY <1>3, <2>1, <2>2
<1>5. CASE Hide \/ Show
  <2>1. UNCHANGED server
    BY <1>5 DEF Hide, Show
  <2> QED BY <1>1, <1>3, <1>5, <2>1, HideShowResponds
<1>6. CASE Reconnect
  BY <1>1, <1>6, ReconnectViews
<1>7. CASE UNCHANGED vars
  <2>1. UNCHANGED <<ring, held, attempts, landing, inbox, wire, pane, screen, faults>>
    BY <1>7 DEF vars, server, client
  <2>2. Wired'
    BY <1>1, <2>1 DEF Wired, Sent, InOrder, Ready, Bounded, IsReady, IsItem
  <2>3. Shown'
    BY <1>1, <2>1 DEF Shown, Live, Leaked
  <2>4. Newest'
    BY <1>1, <2>1 DEF Newest, IsReady, Live
  <2>5. ViewStep
    BY <2>1 DEF ViewStep, Seen
  <2> QED BY <2>2, <2>3, <2>4, <2>5 DEF ViewInv
<1> QED BY <1>2, <1>4, <1>5, <1>6, <1>7 DEF Next

(* The pane shows one unbroken run of the session's output, as PaneView    *)
(* specifies: through drops and merges in the tap, replies that are late   *)
(* or stale, refused snapshots, full write queues and lost connections it  *)
(* grows at its end, is cleared, or is replaced by a replay or a snapshot  *)
(* that ends no earlier, unless one of the two leaks let a hole through.   *)
THEOREM OneRun == Spec => PaneShowsOneRun
<1>1. Init => View!Init
  BY DEF Init, View!Init, View!Blank, BlankScreen
<1>2. StreamInv /\ Agreed /\ StreamInv' /\ Agreed' /\ ViewInv /\ [Next]_vars => ViewInv'
  BY ViewInvStep
<1>3. StreamInv /\ Agreed /\ StreamInv' /\ Agreed' /\ ViewInv /\ [Next]_vars
        => [View!Next]_<<ring.seen, IF screen.whole \/ faults \cap Leaks # {}
                                      THEN [from |-> screen.from, to |-> screen.to] ELSE screen>>
  BY ViewInvStep DEF ViewStep, Seen
<1> QED BY <1>1, <1>2, <1>3, AgreedInvariant, ViewInit, PTL DEF Spec, PaneShowsOneRun, View!Spec

=============================================================================
