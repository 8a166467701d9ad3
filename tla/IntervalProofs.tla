----------------------------- MODULE IntervalProofs -----------------------------
(***************************************************************************)
(* Theorems about the time until the next request, and the types of all    *)
(* results of Answers, for samples and documents of any number:            *)
(*                                                                         *)
(*   - a request comes before the rest of the quota is gone at the rate    *)
(*     measured since the window was last reset;                           *)
(*   - every interval is between the two limits, and every verdict is      *)
(*     typed.                                                              *)
(***************************************************************************)
EXTENDS AnswersProofs

Sample == [t : Int, used : Int, class : Classes]
Good == {s \in Sample : Useful(s)}

-----------------------------------------------------------------------------
(* The loop of `usable`: out[n] is what it has collected after n samples. *)

Collects(s, n, out) ==
  out = [i \in 0..n |-> IF i = 0 THEN <<>>
                        ELSE IF Useful(s[i]) THEN Append(out[i - 1], s[i]) ELSE out[i - 1]]

(* There is such a function: the first n for which there was none would have
   one that extends that of n - 1. *)
LEMMA CollectsExists ==
  ASSUME NEW s, NEW k \in Nat
  PROVE  \E out : Collects(s, k, out)
<1> DEFINE T == {n \in Nat : ~\E out : Collects(s, n, out)}
<1> SUFFICES ASSUME T # {} PROVE FALSE
  BY Zenon
<1>1. T \subseteq Nat
  OBVIOUS
<1>2. PICK n \in T : \A m \in T : n <= m
  BY <1>1, LeastNatural
<1>3. n # 0
  <2> SUFFICES ASSUME n = 0 PROVE \E out : Collects(s, 0, out)
    BY <1>2
  <2> WITNESS [i \in 0..0 |-> <<>>]
  <2> QED BY DEF Collects
<1>4. n \in Nat /\ n - 1 \in Nat /\ n - 1 \notin T
  BY <1>1, <1>2, <1>3
<1>5. PICK g : Collects(s, n - 1, g)
  BY <1>4
<1> DEFINE new == IF Useful(s[n]) THEN Append(g[n - 1], s[n]) ELSE g[n - 1]
           h == [i \in 0..n |-> IF i = n THEN new ELSE g[i]]
<1>6. ASSUME NEW i \in 0..n
      PROVE  h[i] = IF i = 0 THEN <<>>
                    ELSE IF Useful(s[i]) THEN Append(h[i - 1], s[i]) ELSE h[i - 1]
  <2>1. CASE i = n
    <3>1. i # 0 /\ i - 1 \in 0..n /\ i - 1 # n
      BY <1>3, <1>4, <2>1
    <3>2. h[i - 1] = g[n - 1] /\ h[i] = new
      BY <2>1, <3>1
    <3> HIDE DEF h
    <3>3. QED BY <2>1, <3>1, <3>2
  <2>2. CASE i # n
    <3>1. i \in 0..(n - 1)
      BY <1>4, <2>2
    <3>2. g[i] = IF i = 0 THEN <<>>
                 ELSE IF Useful(s[i]) THEN Append(g[i - 1], s[i]) ELSE g[i - 1]
      BY <1>5, <3>1 DEF Collects
    <3>3. h[i] = g[i]
      BY <2>2
    <3>4. i # 0 => h[i - 1] = g[i - 1]
      BY <1>4, <3>1
    <3> HIDE DEF h
    <3>5. QED BY <3>2, <3>3, <3>4
  <2>3. QED BY <2>1, <2>2
<1>7. h = [i \in 0..n |-> h[i]]
  OBVIOUS
<1> HIDE DEF h
<1>8. Collects(s, n, h)
  BY <1>6, <1>7 DEF Collects
<1>9. QED BY <1>2, <1>8

(* What is usable are samples with a verdict and a use between 0 and 100 %. *)
LEMMA UsableType ==
  ASSUME NEW s \in Seq(Sample)
  PROVE  usable(s) \in Seq(Good)
<1> DEFINE out == CHOOSE f : Collects(s, Len(s), f)
<1>1. Len(s) \in Nat
  OBVIOUS
<1>2. Collects(s, Len(s), out)
  BY <1>1, CollectsExists
<1>3. usable(s) = out[Len(s)]
  BY DEF usable, Collects
<1> HIDE DEF out
<1> DEFINE T == {n \in 0..Len(s) : out[n] \notin Seq(Good)}
<1> SUFFICES ASSUME T # {} PROVE FALSE
  BY <1>1, <1>3
<1>4. T \subseteq Nat
  OBVIOUS
<1>5. PICK n \in T : \A m \in T : n <= m
  BY <1>4, LeastNatural
<1>6. n \in 0..Len(s)
  BY <1>5
<1>7. out[n] = IF n = 0 THEN <<>>
               ELSE IF Useful(s[n]) THEN Append(out[n - 1], s[n]) ELSE out[n - 1]
  BY <1>2, <1>6 DEF Collects
<1>8. CASE n = 0
  <2>1. out[n] = <<>> /\ <<>> \in Seq(Good)
    BY <1>7, <1>8
  <2>2. out[n] \notin Seq(Good)
    BY <1>5
  <2>3. QED BY <2>1, <2>2
<1>9. CASE n # 0
  <2>1. n - 1 \in 0..Len(s) /\ n \in 1..Len(s) /\ n - 1 \notin T
    BY <1>1, <1>5, <1>6, <1>9
  <2>2. out[n - 1] \in Seq(Good) /\ s[n] \in Sample
    BY <2>1
  <2>3. Useful(s[n]) => Append(out[n - 1], s[n]) \in Seq(Good)
    BY <2>2 DEF Good
  <2>4. out[n] \in Seq(Good)
    BY <1>7, <1>9, <2>2, <2>3
  <2>5. QED BY <1>5, <2>4
<1>10. QED BY <1>8, <1>9

-----------------------------------------------------------------------------
(* SinceDrop *)

Drops(pts) == {i \in 2..Len(pts) : pts[i].used + 40 < pts[i - 1].used}
Start(pts) == Max(Drops(pts) \cup {1})

(* The window begins at the last drop, or with the first sample. *)
LEMMA WindowStart ==
  ASSUME NEW pts \in Seq(Good), pts # <<>>
  PROVE  /\ Start(pts) \in 1..Len(pts)
         /\ Start(pts) \in Drops(pts) \cup {1}
         /\ \A i \in Drops(pts) : i <= Start(pts)
<1> DEFINE T == Drops(pts) \cup {1}
<1>1. Len(pts) \in Nat /\ Len(pts) >= 1
  OBVIOUS
<1>2. T \subseteq Nat /\ T # {} /\ \A i \in T : i \in 1..Len(pts)
  BY <1>1 DEF Drops
<1>3. \E b \in Nat : \A y \in T : y <= b
  <2> WITNESS Len(pts) \in Nat
  <2> QED BY <1>2
<1> HIDE DEF T
<1>4. Max(T) \in T /\ \A y \in T : y <= Max(T)
  BY <1>2, <1>3, MaxOf
<1>5. QED BY <1>2, <1>4 DEF T, Start

(* The window of SinceDrop, from `Start` to the last sample. *)
LEMMA WindowIs ==
  ASSUME NEW pts \in Seq(Good), pts # <<>>
  PROVE  /\ Len(SinceDrop(pts)) = Len(pts) - Start(pts) + 1
         /\ SinceDrop(pts)[1] = pts[Start(pts)]
         /\ SinceDrop(pts)[Len(SinceDrop(pts))] = pts[Len(pts)]
<1> DEFINE m == Start(pts)
<1>1. m \in 1..Len(pts)
  BY WindowStart
<1>2. SinceDrop(pts) = SubSeq(pts, m, Len(pts))
  BY DEF SinceDrop, Start, Drops
<1> HIDE DEF m
<1>3. Len(SubSeq(pts, m, Len(pts))) = Len(pts) - m + 1
  BY <1>1
<1>4. \A i \in 1..(Len(pts) - m + 1) : SubSeq(pts, m, Len(pts))[i] = pts[m + i - 1]
  BY <1>1
<1>5. 1 \in 1..(Len(pts) - m + 1) /\ Len(pts) - m + 1 \in 1..(Len(pts) - m + 1)
      /\ m + 1 - 1 = m /\ m + (Len(pts) - m + 1) - 1 = Len(pts)
  BY <1>1
<1>6. SubSeq(pts, m, Len(pts))[1] = pts[m]
      /\ SubSeq(pts, m, Len(pts))[Len(pts) - m + 1] = pts[Len(pts)]
  BY <1>4, <1>5
<1>7. QED BY <1>2, <1>3, <1>6 DEF m

-----------------------------------------------------------------------------
(* Interval *)

LEMMA MinTwo ==
  ASSUME NEW a \in Int, NEW b \in Int
  PROVE  Min({a, b}) = IF a <= b THEN a ELSE b
<1>1. \E x \in {a, b} : \A y \in {a, b} : x <= y
  OBVIOUS
<1>2. Min({a, b}) \in {a, b} /\ \A y \in {a, b} : Min({a, b}) <= y
  BY <1>1 DEF Min
<1>3. QED BY <1>2

LEMMA MaxTwo ==
  ASSUME NEW a \in Int, NEW b \in Int
  PROVE  Max({a, b}) = IF a >= b THEN a ELSE b
<1>1. \E x \in {a, b} : \A y \in {a, b} : x >= y
  OBVIOUS
<1>2. Max({a, b}) \in {a, b} /\ \A y \in {a, b} : Max({a, b}) >= y
  BY <1>1 DEF Max
<1>3. QED BY <1>2

(* An estimate is kept between the limits, and never made longer than it is. *)
LEMMA Clamped ==
  ASSUME NEW x \in Int
  PROVE  /\ Clamp(x) \in IntervalMin..IntervalMax
         /\ Clamp(x) = IntervalMin \/ Clamp(x) <= x
<1>1. IntervalMin \in Int /\ IntervalMax \in Int /\ IntervalMin <= IntervalMax
  BY AnswersAssumption
<1> DEFINE y == Min({IntervalMax, x})
<1>2. y = IF IntervalMax <= x THEN IntervalMax ELSE x
  BY <1>1, MinTwo
<1> HIDE DEF y
<1>3. y \in Int
  BY <1>1, <1>2
<1>4. Max({IntervalMin, y}) = IF IntervalMin >= y THEN IntervalMin ELSE y
  BY <1>1, <1>3, MaxTwo
<1>5. Clamp(x) = Max({IntervalMin, y})
  BY DEF Clamp, y
<1>6. QED BY <1>1, <1>2, <1>3, <1>4, <1>5

(* Interpolation stays between its ends. *)
LEMMA Interpolated ==
  ASSUME NEW r \in 0..1000
  PROVE  noBurnInterval(r) \in IntervalMin..IntervalMax
<1> DEFINE d == IntervalMax - IntervalMin
<1>1. d \in Nat /\ IntervalMin \in Nat /\ IntervalMax \in Nat /\ IntervalMax = IntervalMin + d
  BY AnswersAssumption
<1> HIDE DEF d
<1>2. r * d \in Nat /\ r * d <= 1000 * d
  <2>1. (1000 - r) * d >= 0 /\ (1000 - r) * d = 1000 * d - r * d /\ r * d >= 0
    BY <1>1
  <2>2. QED BY <1>1, <2>1
<1>3. (r * d) \div 1000 \in 0..d
  <2> DEFINE p == r * d
  <2>1. p \in Nat /\ p <= 1000 * d
    BY <1>2
  <2> HIDE DEF p
  <2>2. p \div 1000 \in 0..d
    BY <1>1, <2>1
  <2>3. QED BY <2>2 DEF p
<1>4. QED BY <1>1, <1>3 DEF noBurnInterval, d

(* The interval at a measured rate: what is left, at what was used in the
   time the window spans. *)
LEMMA AtRate ==
  ASSUME NEW left \in 0..1000, NEW span \in Nat, NEW burnt \in Nat \ {0}, NEW n \in Int,
         n <= (left * span) \div (burnt * ETAChecks), n >= 0
  PROVE  n * burnt <= left * span
<1>1. ETAChecks \in Nat \ {0}
  BY AnswersAssumption
<1> DEFINE p == left * span
           q == burnt * ETAChecks
<1>2. p \in Nat /\ q \in Nat \ {0} /\ q >= burnt
  BY <1>1
<1> HIDE DEF p, q
<1>3. (p \div q) \in Nat /\ q * (p \div q) <= p
  BY <1>2
<1>4. n <= p \div q
  BY DEF p, q
<1> DEFINE x == p \div q
<1>5. x \in Nat /\ q * x <= p /\ n <= x
  BY <1>3, <1>4
<1> HIDE DEF x
<1>6. n * burnt <= x * burnt
  BY <1>5
<1>7. x * burnt <= x * q
  BY <1>2, <1>5
<1>8. x * q = q * x
  BY <1>2, <1>5
<1>9. n * burnt \in Int /\ x * burnt \in Int /\ x * q \in Int
  BY <1>2, <1>5
<1>10. QED BY <1>2, <1>5, <1>6, <1>7, <1>8, <1>9 DEF p

(* The window of a series of usable samples, and what Interval makes of it. *)
First(pts) == pts[Start(pts)]
Last(pts) == pts[Len(pts)]

LEMMA RemainingType == ASSUME NEW s, s.used \in 0..1000 PROVE Remaining(s) \in 0..1000
<1> DEFINE u == s.used
<1>1. u \in 0..1000
  OBVIOUS
<1> HIDE DEF u
<1>2. 1000 - u \in 0..1000
  BY <1>1
<1>3. QED BY <1>2 DEF Remaining, u

LEMMA Measured ==
  ASSUME NEW pts \in Seq(Good), pts # <<>>
  PROVE  /\ First(pts) \in Good /\ Last(pts) \in Good
         /\ Span(SinceDrop(pts)) = Last(pts).t - First(pts).t
         /\ Burnt(SinceDrop(pts)) = Last(pts).used - First(pts).used
         /\ Remaining(Last(pts)) \in 0..1000
<1>1. Start(pts) \in 1..Len(pts) /\ Len(pts) \in 1..Len(pts)
  BY WindowStart
<1>2. First(pts) \in Good /\ Last(pts) \in Good
  BY <1>1 DEF First, Last
<1>3. Last(pts).used \in 0..1000
  BY <1>2 DEF Good, Useful
<1>4. SinceDrop(pts)[1] = First(pts) /\ SinceDrop(pts)[Len(SinceDrop(pts))] = Last(pts)
  BY WindowIs DEF First, Last
<1>5. Remaining(Last(pts)) \in 0..1000
  BY <1>3, RemainingType, ZenonT(40)
<1>6. QED BY <1>2, <1>4, <1>5 DEF Span, Burnt

LEMMA IntervalIs ==
  ASSUME NEW s \in Seq(Sample)
  PROVE  LET pts == usable(s)
             span == Last(pts).t - First(pts).t
             burnt == Last(pts).used - First(pts).used
         IN Interval(s) =
              IF pts = <<>> THEN IntervalMax
              ELSE IF Start(pts) = Len(pts) \/ span < 60 THEN noBurnInterval(Remaining(Last(pts)))
              ELSE IF burnt <= 0 THEN IntervalMax
              ELSE Clamp((Remaining(Last(pts)) * span) \div (burnt * ETAChecks))
<1> DEFINE pts == usable(s)
<1>1. pts \in Seq(Good)
  BY UsableType
<1>2. Interval(s) =
        IF pts = <<>> THEN IntervalMax
        ELSE IF Len(SinceDrop(pts)) < 2 \/ Span(SinceDrop(pts)) < 60
             THEN noBurnInterval(Remaining(pts[Len(pts)]))
        ELSE IF Burnt(SinceDrop(pts)) <= 0 THEN IntervalMax
        ELSE Clamp((Remaining(pts[Len(pts)]) * Span(SinceDrop(pts)))
                     \div (Burnt(SinceDrop(pts)) * ETAChecks))
  BY DEF Interval
<1> HIDE DEF pts
<1>3. CASE pts = <<>>
  BY <1>2, <1>3 DEF pts
<1>4. CASE pts # <<>>
  <2>1. Start(pts) \in 1..Len(pts) /\ Len(SinceDrop(pts)) = Len(pts) - Start(pts) + 1
    BY <1>1, <1>4, WindowStart, WindowIs
  <2>2. Len(SinceDrop(pts)) < 2 <=> Start(pts) = Len(pts)
    BY <1>1, <2>1
  <2>3. /\ Span(SinceDrop(pts)) = Last(pts).t - First(pts).t
        /\ Burnt(SinceDrop(pts)) = Last(pts).used - First(pts).used
        /\ pts[Len(pts)] = Last(pts)
    BY <1>1, <1>4, Measured DEF Last
  <2>4. QED BY <1>2, <1>4, <2>2, <2>3 DEF pts
<1>5. QED BY <1>3, <1>4

LEMMA IntervalType ==
  ASSUME NEW s \in Seq(Sample)
  PROVE  Interval(s) \in IntervalMin..IntervalMax
<1> DEFINE pts == usable(s)
           span == Last(pts).t - First(pts).t
           burnt == Last(pts).used - First(pts).used
           left == Remaining(Last(pts))
<1>1. IntervalMax \in IntervalMin..IntervalMax /\ ETAChecks \in Nat \ {0}
  BY AnswersAssumption
<1>2. pts \in Seq(Good)
  BY UsableType
<1>3. CASE pts = <<>>
  BY <1>1, <1>3, IntervalIs
<1>4. CASE pts # <<>>
  <2>1. left \in 0..1000 /\ span \in Int /\ burnt \in Int
    BY <1>2, <1>4, Measured DEF Good, Sample
  <2>2. noBurnInterval(left) \in IntervalMin..IntervalMax
    BY <2>1, Interpolated, ZenonT(40)
  <2>3. ASSUME burnt > 0
        PROVE  Clamp((left * span) \div (burnt * ETAChecks)) \in IntervalMin..IntervalMax
    <3> HIDE DEF left, span, burnt
    <3>1. left * span \in Int /\ burnt * ETAChecks \in Nat \ {0}
      BY <1>1, <2>1, <2>3
    <3>2. (left * span) \div (burnt * ETAChecks) \in Int
      BY <3>1
    <3>3. QED BY <3>2, Clamped
  <2>4. Interval(s) = IF Start(pts) = Len(pts) \/ span < 60 THEN noBurnInterval(left)
                      ELSE IF burnt <= 0 THEN IntervalMax
                      ELSE Clamp((left * span) \div (burnt * ETAChecks))
    BY <1>4, IntervalIs
  <2> HIDE DEF left, span, burnt
  <2>5. burnt <= 0 \/ burnt > 0
    BY <2>1
  <2>6. QED BY <1>1, <2>2, <2>3, <2>4, <2>5
<1>5. QED BY <1>3, <1>4

(* InTime, of one series of samples. *)
Since(pts) ==
  {i \in 1..(Len(pts) - 1) : \A j \in (i + 1)..Len(pts) : pts[j].used + 40 >= pts[j - 1].used}

(* The samples since the last drop begin with the first one of the window. *)
LEMMA SinceStart ==
  ASSUME NEW pts \in Seq(Good), Since(pts) # {}
  PROVE  pts # <<>> /\ Start(pts) # Len(pts) /\ Min(Since(pts)) = Start(pts)
<1>1. PICK i \in Since(pts) : TRUE
  OBVIOUS
<1>2. Len(pts) \in Nat /\ i \in 1..(Len(pts) - 1) /\ pts # <<>>
  BY <1>1 DEF Since
<1> DEFINE m == Start(pts)
<1>3. m \in 1..Len(pts) /\ m \in Drops(pts) \cup {1} /\ \A j \in Drops(pts) : j <= m
  BY <1>2, WindowStart
<1> HIDE DEF m
<1>4. \A j \in 1..Len(pts) : pts[j].used \in Int
  BY DEF Good, Sample
<1>5. ASSUME NEW k \in Since(pts) PROVE m <= k
  <2>1. k \in 1..(Len(pts) - 1)
        /\ \A j \in (k + 1)..Len(pts) : pts[j].used + 40 >= pts[j - 1].used
    BY DEF Since
  <2>2. CASE m = 1
    BY <2>1, <2>2
  <2>3. CASE m \in Drops(pts)
    <3>1. pts[m].used + 40 < pts[m - 1].used /\ m \in 2..Len(pts)
      BY <2>3 DEF Drops
    <3>2. pts[m].used \in Int /\ pts[m - 1].used \in Int
      BY <1>4, <3>1
    <3>3. m \notin (k + 1)..Len(pts)
      BY <2>1, <3>1, <3>2
    <3>4. QED BY <1>2, <2>1, <3>1, <3>3
  <2>4. QED BY <1>3, <2>2, <2>3
<1>6. m < Len(pts)
  BY <1>1, <1>2, <1>3, <1>5
<1>7. m \in Since(pts)
  <2>1. ASSUME NEW j \in (m + 1)..Len(pts) PROVE pts[j].used + 40 >= pts[j - 1].used
    <3>1. j \in 2..Len(pts) /\ j \notin Drops(pts) /\ j - 1 \in 1..Len(pts)
      BY <1>2, <1>3
    <3>2. pts[j].used \in Int /\ pts[j - 1].used \in Int
      BY <1>4, <3>1
    <3>3. QED BY <3>1, <3>2 DEF Drops
  <2>2. QED BY <1>2, <1>3, <1>6, <2>1 DEF Since
<1>8. Since(pts) \subseteq Int
  BY DEF Since
<1> DEFINE x == Min(Since(pts))
<1>9. x \in Since(pts) /\ \A y \in Since(pts) : x <= y
  BY <1>5, <1>7 DEF Min
<1> HIDE DEF x
<1>10. x = m
  <2>1. x <= m /\ m <= x
    BY <1>5, <1>7, <1>9
  <2>2. x \in Int /\ m \in Int
    BY <1>3, <1>8, <1>9
  <2>3. QED BY <2>1, <2>2
<1>11. QED BY <1>2, <1>3, <1>6, <1>10 DEF m, x

LEMMA IntervalInTime ==
  ASSUME NEW s \in Seq(Sample), Since(usable(s)) # {},
         Last(usable(s)).t - usable(s)[Min(Since(usable(s)))].t >= 60
  PROVE  LET last == Last(usable(s))
             first == usable(s)[Min(Since(usable(s)))]
         IN IF last.used <= first.used THEN Interval(s) = IntervalMax
            ELSE \/ Interval(s) = IntervalMin
                 \/ Interval(s) * (last.used - first.used) <= Remaining(last) * (last.t - first.t)
<1> DEFINE pts == usable(s)
           span == Last(pts).t - First(pts).t
           burnt == Last(pts).used - First(pts).used
           left == Remaining(Last(pts))
           most == (left * span) \div (burnt * ETAChecks)
<1>1. pts \in Seq(Good)
  BY UsableType
<1>2. pts # <<>> /\ Start(pts) # Len(pts) /\ pts[Min(Since(pts))] = First(pts)
  BY <1>1, SinceStart DEF First
<1>3. left \in 0..1000 /\ span \in Int /\ burnt \in Int /\ span >= 60
      /\ Last(pts).used \in Int /\ First(pts).used \in Int
  <2>1. left \in 0..1000 /\ First(pts) \in Good /\ Last(pts) \in Good
    BY <1>1, <1>2, Measured
  <2>2. QED BY <1>2, <2>1 DEF Good, Sample
<1>4. Interval(s) = IF burnt <= 0 THEN IntervalMax ELSE Clamp(most)
  <2>1. Interval(s) = IF pts = <<>> THEN IntervalMax
                      ELSE IF Start(pts) = Len(pts) \/ span < 60 THEN noBurnInterval(left)
                      ELSE IF burnt <= 0 THEN IntervalMax ELSE Clamp(most)
    BY IntervalIs
  <2> HIDE DEF pts, span, burnt, left, most
  <2>2. QED BY <1>2, <1>3, <2>1
<1>5. CASE burnt <= 0
  <2>1. Last(pts).used <= First(pts).used
    BY <1>3, <1>5
  <2>2. QED BY <1>2, <1>4, <1>5, <2>1
<1>6. CASE burnt > 0
  <2>1. ~(Last(pts).used <= First(pts).used)
    BY <1>3, <1>6
  <2>2. Clamp(most) = IntervalMin \/ Clamp(most) * burnt <= left * span
    <3> HIDE DEF pts, span, burnt, left
    <3>1. ETAChecks \in Nat \ {0} /\ IntervalMin \in Nat \ {0}
      BY AnswersAssumption
    <3>2. left * span \in Int /\ burnt * ETAChecks \in Nat \ {0}
      BY <1>3, <1>6, <3>1
    <3>3. most \in Int
      BY <3>2
    <3>4. Clamp(most) \in IntervalMin..IntervalMax /\ (Clamp(most) = IntervalMin \/ Clamp(most) <= most)
      BY <3>3, Clamped
    <3>5. Clamp(most) \in Int /\ Clamp(most) >= 0 /\ burnt \in Nat \ {0} /\ span \in Nat
      BY <1>3, <1>6, <3>1, <3>4
    <3>6. ASSUME Clamp(most) <= most PROVE Clamp(most) * burnt <= left * span
      <4> DEFINE n == Clamp(most)
      <4>1. n \in Int /\ n >= 0 /\ n <= (left * span) \div (burnt * ETAChecks)
        BY <3>5, <3>6
      <4> HIDE DEF n
      <4>2. n * burnt <= left * span
        BY <1>3, <3>5, <4>1, AtRate, ZenonT(40)
      <4>3. QED BY <4>2 DEF n
    <3>7. QED BY <3>4, <3>6
  <2>3. Interval(s) = Clamp(most)
    BY <1>3, <1>4, <1>6
  <2>4. QED BY <1>2, <2>1, <2>2, <2>3
<1>7. QED BY <1>3, <1>5, <1>6

-----------------------------------------------------------------------------
(* The types of the verdicts *)

VerdictOK(r) == r.class \in Classes /\ r.used \in 0..1000 /\ r.reset \in Nat

LEMMA UnknownOK == VerdictOK(Unknown)
BY DEF VerdictOK, Verdict, Unknown, Classes

LEMMA LevelType ==
  ASSUME NEW used, NEW limit
  PROVE  Level(used, limit) \in Classes /\ "soft" \in Classes /\ "unknown" \in Classes
         /\ "exhausted" \in Classes /\ "expired" \in Classes /\ "ok" \in Classes
BY DEF Level, Classes

Latest(d, ids) == Max({Reset(d, w) : w \in ids})

(* The first, the last and the latest of some resets are natural numbers. *)
LEMMA ResetType ==
  ASSUME NEW d, Doc(d), NEW x, NEW y, NEW z, {x, y, z} \subseteq DOMAIN d.win,
         NEW ids, ids \subseteq {x, y, z}
  PROVE  /\ FirstReset(d, ids) \in Nat
         /\ ids # {} => LastReset(d, ids) \in Nat /\ Latest(d, ids) \in Nat
<1> DEFINE T == {Reset(d, w) : w \in ids}
           known == T \ {0}
<1>1. \A w \in {x, y, z} : Reset(d, w) \in Nat
  BY WindowType
<1>2. T \subseteq Nat
  BY <1>1
<1>3. FirstReset(d, ids) \in Nat
  <2>1. CASE known = {}
    BY <2>1 DEF FirstReset
  <2>2. CASE known # {}
    <3> HIDE DEF T
    <3>1. \E n \in known : \A m \in known : n <= m
      BY <1>2, <2>2, LeastNatural
    <3>2. Min(known) \in known
      BY <3>1 DEF Min
    <3>3. FirstReset(d, ids) = Min(known)
      BY <2>2 DEF FirstReset, T
    <3>4. QED BY <1>2, <3>2, <3>3
  <2>3. QED BY <2>1, <2>2
<1>4. ASSUME ids # {} PROVE LastReset(d, ids) \in Nat /\ Max(T) \in Nat
  <2>1. \E b \in Nat : \A n \in T : n <= b
    <3>1. Reset(d, x) + Reset(d, y) + Reset(d, z) \in Nat
      BY <1>1
    <3>2. \A w \in ids : Reset(d, w) <= Reset(d, x) + Reset(d, y) + Reset(d, z)
      BY <1>1
    <3>3. QED BY <3>1, <3>2
  <2>2. T # {}
    BY <1>4
  <2>3. LastReset(d, ids) \in {0, Max(T)}
    BY DEF LastReset
  <2> HIDE DEF T
  <2>4. Max(T) \in T
    BY <1>2, <2>1, <2>2, MaxOf
  <2>5. Max(T) \in Nat
    BY <1>2, <2>4
  <2>6. QED BY <2>3, <2>5
<1>5. QED BY <1>3, <1>4 DEF Latest

(* The windows of Cursor and Grok, and the reset of an answer as a whole. *)
LEMMA MoreWindows ==
  ASSUME NEW d, Doc(d)
  PROVE  /\ d.tool \in {"codex", "grok", "cursor"} => "end" \in DOMAIN d.win
         /\ d.tool = "cursor" =>
              "auto" \in DOMAIN d.win /\ "api" \in DOMAIN d.win /\ "total" \in DOMAIN d.win
BY DEF Doc, Named

LEMMA ClaudeOK ==
  ASSUME NEW d, Doc(d), d.tool = "claude"
  PROVE  VerdictOK(ParseClaudeUsage(d))
<1> DEFINE ws == There(d, {"5h", "weekly"})
<1>1. {"5h", "weekly", "weekly"} \subseteq DOMAIN d.win /\ ws \subseteq {"5h", "weekly", "weekly"}
  BY ToolWindows DEF There
<1>2. CASE ws = {} \/ Is(d, "error")
  BY <1>2, UnknownOK DEF ParseClaudeUsage
<1>3. CASE ws # {} /\ ~Is(d, "error")
  <2>1. MaxUsed(d, ws) \in 0..1000
    BY <1>1, <1>3, MaxUsedOf
  <2>2. FirstReset(d, Hottest(d, ws)) \in Nat
    <3> DEFINE hot == Hottest(d, ws)
    <3>1. hot \subseteq {"5h", "weekly", "weekly"}
      BY <1>1 DEF Hottest
    <3> HIDE DEF hot
    <3>2. FirstReset(d, hot) \in Nat
      BY <1>1, <3>1, ResetType
    <3>3. QED BY <3>2 DEF hot
  <2>3. Reset(d, "5h") \in Nat /\ Reset(d, "weekly") \in Nat
    BY <1>1, WindowType
  <2>4. \E n \in {FirstReset(d, Hottest(d, ws)), Reset(d, "5h"), Reset(d, "weekly")} :
          ParseClaudeUsage(d) = Verdict(Level(MaxUsed(d, ws), 1000), MaxUsed(d, ws), n)
    BY <1>3 DEF ParseClaudeUsage
  <2>5. PICK n \in Nat : ParseClaudeUsage(d) = Verdict(Level(MaxUsed(d, ws), 1000), MaxUsed(d, ws), n)
    BY <2>2, <2>3, <2>4
  <2> HIDE DEF ws
  <2>6. QED BY <2>1, <2>5, LevelType DEF VerdictOK, Verdict
<1>4. QED BY <1>2, <1>3

LEMMA ZCodeOK ==
  ASSUME NEW d, Doc(d), d.tool = "zcode"
  PROVE  VerdictOK(ClassifyZCode(d))
<1> DEFINE ws == There(d, {"5h", "weekly"})
           hot == Hottest(d, ws)
<1>1. {"5h", "weekly", "weekly"} \subseteq DOMAIN d.win /\ ws \subseteq {"5h", "weekly", "weekly"}
  BY ToolWindows DEF There
<1>2. CASE ClassifyZCode(d) = Unknown
  BY <1>2, UnknownOK
<1>3. CASE ClassifyZCode(d) # Unknown
  <2>1. ws # {}
    BY <1>3 DEF ClassifyZCode
  <2>2. MaxUsed(d, ws) \in 0..1000 /\ hot # {}
    BY <1>1, <2>1, MaxUsedOf DEF Hottest
  <2>3. LastReset(d, hot) \in Nat /\ Latest(d, hot) \in Nat
    <3>1. hot \subseteq {"5h", "weekly", "weekly"}
      BY <1>1 DEF Hottest
    <3>2. hot # {}
      BY <2>2
    <3> HIDE DEF hot
    <3>3. LastReset(d, hot) \in Nat
      BY <1>1, <3>1, <3>2, ResetType
    <3>4. Latest(d, hot) \in Nat
      BY <1>1, <3>1, <3>2, ResetType
    <3>5. QED BY <3>3, <3>4
  <2>4. \E n \in {LastReset(d, hot), Latest(d, hot)} :
          ClassifyZCode(d) = Verdict(Level(MaxUsed(d, ws), 1000), MaxUsed(d, ws), n)
    BY <1>3 DEF ClassifyZCode, Latest
  <2>5. PICK n \in Nat : ClassifyZCode(d) = Verdict(Level(MaxUsed(d, ws), 1000), MaxUsed(d, ws), n)
    BY <2>3, <2>4
  <2> HIDE DEF ws, hot
  <2>6. QED BY <2>2, <2>5, LevelType DEF VerdictOK, Verdict
<1>4. QED BY <1>2, <1>3

LEMMA CodexOK ==
  ASSUME NEW d, Doc(d), d.tool = "codex"
  PROVE  VerdictOK(classifyCodex(d))
<1> DEFINE ws == There(d, {"primary", "secondary"})
           reached == d.flags \cap {"reached", "type", "other"} # {}
<1>1. /\ {"primary", "secondary", "end"} \subseteq DOMAIN d.win
      /\ ws \subseteq {"primary", "secondary", "end"} /\ ws \subseteq DOMAIN d.win
  BY ToolWindows DEF There
<1>2. Reset(d, "primary") \in Nat /\ Reset(d, "secondary") \in Nat /\ FirstReset(d, ws) \in Nat
  <2>1. Reset(d, "primary") \in Nat /\ Reset(d, "secondary") \in Nat
    BY <1>1, WindowType
  <2> HIDE DEF ws
  <2>2. FirstReset(d, ws) \in Nat
    BY <1>1, ResetType
  <2>3. QED BY <2>1, <2>2
<1>3. CASE ws = {"primary", "secondary"}
  <2>1. MaxUsed(d, ws) \in 0..1000
    <3>1. ws # {} /\ ws \subseteq DOMAIN d.win
      BY <1>1, <1>3
    <3> HIDE <1>3 DEF ws
    <3>2. QED BY <3>1, MaxUsedOf
  <2>2. \E c \in Classes, n \in {Reset(d, "primary"), Reset(d, "secondary")} :
          classifyCodex(d) = Verdict(c, MaxUsed(d, ws), n)
    BY <1>3, LevelType DEF classifyCodex
  <2> HIDE DEF ws
  <2>3. QED BY <1>2, <2>1, <2>2 DEF VerdictOK, Verdict
<1>4. CASE ws # {"primary", "secondary"}
  <2>1. MaxUsed(d, ws \cup {"end"}) \in 0..1000
    <3> HIDE DEF ws
    <3> DEFINE more == ws \cup {"end"}
    <3>1. more # {} /\ more \subseteq DOMAIN d.win
      BY <1>1
    <3> HIDE DEF more
    <3>2. MaxUsed(d, more) \in 0..1000
      BY <3>1, MaxUsedOf
    <3>3. QED BY <3>2 DEF more
  <2>2. classifyCodex(d) =
          classifyValue(reached \/ ws # {}, reached, MaxUsed(d, ws \cup {"end"}), ws # {}, FALSE,
                        FALSE, FALSE, FirstReset(d, ws))
    BY <1>4 DEF classifyCodex
  <2> DEFINE most == MaxUsed(d, ws \cup {"end"})
             first == FirstReset(d, ws)
  <2>3. most \in 0..1000 /\ first \in Nat
    BY <1>2, <2>1
  <2> HIDE DEF ws, reached
  <2>4. \/ classifyCodex(d) = Unknown
        \/ \E c \in Classes : classifyCodex(d) \in {Verdict(c, most, first), Verdict(c, 1000, first)}
    BY <2>2, LevelType DEF classifyValue
  <2> HIDE DEF most, first
  <2>5. QED BY <2>3, <2>4, UnknownOK DEF VerdictOK, Verdict
<1>5. QED BY <1>3, <1>4

LEMMA GrokOK ==
  ASSUME NEW d, Doc(d), d.tool = "grok"
  PROVE  VerdictOK(classifyGrokBilling(d))
<1>1. /\ Used(d, "credits") \in 0..1000 /\ Used(d, "legacy") \in 0..1000
      /\ Reset(d, "end") \in Nat /\ 0 \in 0..1000
  BY ToolWindows, MoreWindows, WindowType
<1>2. \/ classifyGrokBilling(d) = Unknown
      \/ \E c \in Classes, u \in {Used(d, "credits"), Used(d, "legacy"), 0} :
           classifyGrokBilling(d) = Verdict(c, u, Reset(d, "end"))
  BY LevelType DEF classifyGrokBilling
<1>3. ASSUME NEW c \in Classes, NEW u \in {Used(d, "credits"), Used(d, "legacy"), 0}
      PROVE  VerdictOK(Verdict(c, u, Reset(d, "end")))
  BY <1>1 DEF VerdictOK, Verdict
<1>4. QED BY <1>2, <1>3, UnknownOK

LEMMA CursorOK ==
  ASSUME NEW d, Doc(d), d.tool = "cursor"
  PROVE  VerdictOK(classifyCursorPeriod(d))
<1> DEFINE ws == There(d, {"auto", "api"})
<1>1. /\ Used(d, "total") \in 0..1000 /\ Reset(d, "end") \in Nat /\ 0 \in 0..1000
      /\ ws \subseteq DOMAIN d.win
  BY MoreWindows, WindowType DEF There, Has
<1>2. CASE There(d, {"auto", "api", "total"}) = {}
  <2> DEFINE gone == Is(d, "gone") /\ Is(d, "capped")
             hit == Is(d, "gone") /\ Is(d, "hit")
  <2>1. classifyCursorPeriod(d) =
          classifyValue(Is(d, "limit"), FALSE, 0, FALSE, gone, Is(d, "allowance"), hit, Reset(d, "end"))
    BY <1>2 DEF classifyCursorPeriod
  <2> HIDE DEF gone, hit
  <2> DEFINE n == Reset(d, "end")
  <2>2. classifyCursorPeriod(d) \in {Unknown, Verdict("soft", 1000, n), Verdict("exhausted", 1000, n),
                                     Verdict("ok", 0, n)}
    <3> HIDE DEF n
    <3>1. QED BY <2>1 DEF classifyValue, n
  <2>3. n \in Nat
    BY <1>1
  <2> HIDE DEF n
  <2>4. /\ VerdictOK(Verdict("soft", 1000, n)) /\ VerdictOK(Verdict("exhausted", 1000, n))
        /\ VerdictOK(Verdict("ok", 0, n))
    BY <2>3 DEF VerdictOK, Verdict, Classes
  <2>5. QED BY <2>2, <2>4, UnknownOK
<1>3. CASE There(d, {"auto", "api", "total"}) # {}
  <2> DEFINE used == IF ws = {"auto", "api"} \/ ~Has(d, "total") THEN MaxUsed(d, ws)
                     ELSE Used(d, "total")
  <2>1. used \in 0..1000
    <3>1. ~Has(d, "total") => ws # {}
      BY <1>3 DEF There
    <3>2. ws = {"auto", "api"} => ws # {}
      OBVIOUS
    <3>3. ws # {} => MaxUsed(d, ws) \in 0..1000
      BY <1>1, MaxUsedOf
    <3> HIDE DEF ws
    <3>4. QED BY <1>1, <3>1, <3>2, <3>3
  <2> DEFINE full == IF ws = {"auto", "api"} THEN \A w \in ws : Used(d, w) >= Full ELSE used >= Full
             soft == used >= 900 \/ \E w \in ws : Used(d, w) >= 900
             class == IF full THEN IF Is(d, "allowance") THEN "soft" ELSE "exhausted"
                      ELSE IF soft THEN "soft" ELSE "ok"
  <2>2. classifyCursorPeriod(d) = Verdict(class, used, Reset(d, "end"))
    BY <1>3, Zenon DEF classifyCursorPeriod
  <2> HIDE DEF used, full, soft
  <2>3. class \in Classes
    BY DEF Classes
  <2> HIDE DEF class
  <2>4. QED BY <1>1, <2>1, <2>2, <2>3 DEF VerdictOK, Verdict
<1>4. QED BY <1>2, <1>3

LEMMA DevinOK ==
  ASSUME NEW d, Doc(d), d.tool = "devin"
  PROVE  VerdictOK(ParseDevinStatus(d))
<1> DEFINE full == {w \in Shown(d) : Use(d, w) >= Full}
           hot == {w \in Shown(d) : Use(d, w) = MostUse(d)}
           r == ParseDevinStatus(d)
<1>1. CASE r = Unknown
  BY <1>1, UnknownOK
<1>2. CASE r # Unknown
  <2>1. ParseDevinStatus(d) # Unknown
    BY <1>2
  <2>2. r = Verdict(Level(MostUse(d), Full), MostUse(d),
                    LastReset(d, IF MostUse(d) >= Full THEN full ELSE hot))
    BY <2>1 DEF ParseDevinStatus, Shown, Use, MostUse
  <2>3. /\ MostUse(d) \in 0..1000
        /\ \E w \in Shown(d) : Use(d, w) = MostUse(d)
    BY <2>1, DevinVerdict
  <2>4. full \subseteq {"daily", "weekly", "weekly"} /\ hot \subseteq {"daily", "weekly", "weekly"}
    BY DevinShown
  <2>5. hot # {} /\ (MostUse(d) >= Full => full # {})
    BY <2>3
  <2>6. {"daily", "weekly", "weekly"} \subseteq DOMAIN d.win
    BY ToolWindows
  <2> HIDE DEF full, hot, r
  <2>7. LastReset(d, hot) \in Nat
    BY <2>4, <2>5, <2>6, ResetType
  <2>8. MostUse(d) >= Full => LastReset(d, full) \in Nat
    BY <2>4, <2>5, <2>6, ResetType
  <2>9. \E n \in Nat : r = Verdict(Level(MostUse(d), Full), MostUse(d), n)
    BY <2>2, <2>7, <2>8
  <2>10. VerdictOK(r)
    BY <2>3, <2>9, LevelType DEF VerdictOK, Verdict
  <2>11. QED BY <2>10 DEF r
<1>3. QED BY <1>1, <1>2

(* The monthly quota of the web session is folded into a verdict. *)
LEMMA MergeOK ==
  ASSUME NEW d, Doc(d), "web" \in DOMAIN d.win, NEW r, VerdictOK(r)
  PROVE  VerdictOK(MergeKimiWebStats(r, d))
<1>1. Used(d, "web") \in 0..1000 /\ Reset(d, "web") \in Nat
  BY WindowType
<1>2. r.class \in Classes /\ r.used \in 0..1000 /\ r.reset \in Nat
  BY DEF VerdictOK
<1>3. \E c \in Classes, x \in {<<Used(d, "web"), Reset(d, "web")>>, <<r.used, r.reset>>} :
        MergeKimiWebStats(r, d) = Verdict(c, x[1], x[2])
  BY <1>2, LevelType DEF MergeKimiWebStats
<1>4. QED BY <1>1, <1>2, <1>3 DEF VerdictOK, Verdict

LEMMA KimiOK ==
  ASSUME NEW d, Doc(d), d.tool = "kimi"
  PROVE  VerdictOK(classifyKimi(d))
<1> DEFINE bad == \E w \in {"5h", "monthly"} : Kind(d, w) = "bad"
           ws == IF bad \/ Is(d, "error") \/ d.status # "ok" THEN {} ELSE KimiWindows(d)
           r == IF d.status = "denied" THEN Verdict("expired", 0, 0) ELSE ParseKimiUsage(d, ws)
           merged == Has(d, "web") /\ ws \cap {"monthly", "listed"} = {}
           hot == Hottest(d, ws)
           one == IF "5h" \in hot THEN "5h" ELSE CHOOSE w \in hot : TRUE
<1>1. classifyKimi(d) = IF merged THEN MergeKimiWebStats(r, d) ELSE r
  BY DEF classifyKimi
<1>2. /\ ws \subseteq {"5h", "monthly", "listed"}
      /\ {"5h", "monthly", "listed"} \subseteq DOMAIN d.win /\ "web" \in DOMAIN d.win
  <2>1. ws \subseteq {"5h", "monthly", "listed"}
    BY DEF KimiWindows, There
  <2>2. QED BY <2>1, ToolWindows
<1>3. VerdictOK(ParseKimiUsage(d, ws))
  <2>1. CASE ws = {}
    <3>1. ParseKimiUsage(d, ws) = Unknown
      BY <2>1 DEF ParseKimiUsage
    <3>2. QED BY <3>1, UnknownOK
  <2>2. CASE ws # {}
    <3>1. ws # {} /\ ws \subseteq DOMAIN d.win
      BY <1>2, <2>2
    <3> HIDE DEF ws
    <3>2. /\ MaxUsed(d, ws) \in 0..1000
          /\ \E w \in ws : Used(d, w) = MaxUsed(d, ws)
      BY <3>1, MaxUsedOf
    <3>3. hot # {} /\ hot \subseteq {"5h", "monthly", "listed"}
      BY <1>2, <3>2 DEF Hottest
    <3>4. \E c \in Classes, n \in {LastReset(d, hot), Reset(d, one)} :
            ParseKimiUsage(d, ws) = Verdict(c, MaxUsed(d, ws), n)
      BY <3>1, LevelType DEF ParseKimiUsage
    <3> HIDE DEF hot
    <3>5. LastReset(d, hot) \in Nat
      BY <1>2, <3>3, ResetType
    <3>6. one \in DOMAIN d.win
      BY <1>2, <3>3
    <3>7. Reset(d, one) \in Nat
      BY <3>6, WindowType
    <3> HIDE DEF one
    <3>8. QED BY <3>2, <3>4, <3>5, <3>7 DEF VerdictOK, Verdict
  <2>3. QED BY <2>1, <2>2
<1>4. VerdictOK(r)
  <2>1. VerdictOK(Verdict("expired", 0, 0))
    BY DEF VerdictOK, Verdict, Classes
  <2> HIDE DEF ws
  <2>2. QED BY <1>3, <2>1
<1> HIDE DEF r, merged
<1>5. VerdictOK(MergeKimiWebStats(r, d))
  BY <1>2, <1>4, MergeOK
<1>6. QED BY <1>1, <1>4, <1>5

(* Every verdict has its type. *)
LEMMA ClassifyOK == ASSUME NEW d, Doc(d) PROVE VerdictOK(Classify(d))
<1> DEFINE r == IF d.status = "ok" /\ ~Is(d, "capacity") THEN ByTool(d) ELSE Unknown
<1>1. CASE d.tool = "kimi"
  BY <1>1, KimiOK DEF Classify
<1>2. CASE d.tool # "kimi"
  <2>1. d.tool \in {"codex", "grok", "cursor", "devin", "zcode", "claude"}
    BY <1>2 DEF Doc, Named, Tools
  <2>2. VerdictOK(ByTool(d))
    BY <2>1, CodexOK, GrokOK, CursorOK, DevinOK, ZCodeOK, ClaudeOK DEF ByTool
  <2>3. VerdictOK(r)
    BY <2>2, UnknownOK
  <2>4. VerdictOK(Verdict("expired", 0, 0))
    BY DEF VerdictOK, Verdict, Classes
  <2>5. SaysUsedUp(d) => VerdictOK(Verdict("exhausted", 1000, Reset(d, "end")))
    <3>1. SaysUsedUp(d) => "end" \in DOMAIN d.win
      BY MoreWindows DEF SaysUsedUp
    <3>2. SaysUsedUp(d) => Reset(d, "end") \in Nat
      BY <3>1, WindowType
    <3>3. QED BY <3>2 DEF VerdictOK, Verdict, Classes
  <2>6. Classify(d) = IF d.status = "denied" THEN Verdict("expired", 0, 0)
                      ELSE IF r.class = "unknown" /\ SaysUsedUp(d)
                      THEN Verdict("exhausted", 1000, Reset(d, "end"))
                      ELSE r
    BY <1>2 DEF Classify
  <2> HIDE DEF r
  <2>7. QED BY <2>3, <2>4, <2>5, <2>6
<1>3. QED BY <1>1, <1>2

-----------------------------------------------------------------------------
(* The specification *)

(* Each kind of result is that of an input of its kind. *)
ResultInv ==
  /\ result.kind \in {"none", "verdict", "interval", "rows"}
  /\ result.kind = "verdict" => VerdictOK(result) /\ result.throttled \in BOOLEAN
  /\ result.kind = "interval" =>
       input.samples \in SampleSeqs /\ result.seconds = Interval(input.samples)
  /\ result.kind = "rows" => result.rows \subseteq DOMAIN input.rows

LEMMA Results == Spec => []ResultInv
<1>1. Init => ResultInv
  BY DEF Init, ResultInv, NoResult
<1>2. InputOK /\ ResultInv /\ [Next]_vars => ResultInv'
  <2> SUFFICES ASSUME InputOK, ResultInv, [Next]_vars PROVE ResultInv'
    OBVIOUS
  <2>1. CASE Probe
    <3> DEFINE r == Classify(input.doc)
               busy == MarkThrottled(input.doc, r)
    <3>1. input.doc \in Documents
      BY <2>1, LogsAssumption DEF Probe, InputOK
    <3>2. VerdictOK(r)
      BY <3>1, Docs, ClassifyOK
    <3>3. busy \in BOOLEAN
      BY DEF MarkThrottled
    <3>4. result' = [ kind |-> "verdict", class |-> r.class, used |-> r.used, reset |-> r.reset,
                      throttled |-> busy ]
      BY <2>1 DEF Probe
    <3> HIDE DEF r, busy
    <3>5. QED BY <3>2, <3>3, <3>4 DEF ResultInv, VerdictOK
  <2>2. CASE quotaInterval
    <3>1. input.samples \in SampleSeqs
      BY <2>2, LogsAssumption DEF quotaInterval, InputOK
    <3>2. QED BY <2>2, <3>1 DEF quotaInterval, ResultInv
  <2>3. CASE Prune
    <3>1. PruneQuotaLog(input) \subseteq DOMAIN input.rows
      BY DEF PruneQuotaLog
    <3>2. QED BY <2>3, <3>1 DEF Prune, ResultInv
  <2>4. CASE UNCHANGED vars
    BY <2>4 DEF vars, ResultInv, VerdictOK
  <2>5. QED BY <2>1, <2>2, <2>3, <2>4 DEF Next
<1>3. QED BY <1>1, <1>2, Outcomes, PTL DEF Spec

(* Every verdict has a class, a use of at most 100 % and a reset, whatever the
   answer, and every interval is between the two limits of the configuration. *)
THEOREM ResultsTyped == Spec => []TypeOK
<1>1. ResultInv => TypeOK
  <2>1. ASSUME ResultInv, result.kind = "interval"
        PROVE  result.seconds \in IntervalMin..IntervalMax
    BY <2>1, SamplesAssumption, IntervalType DEF ResultInv, Sample
  <2>2. QED BY <2>1 DEF ResultInv, TypeOK, VerdictOK
<1>2. QED BY <1>1, Results, PTL

(* An account that is being used is asked again before the rest is gone at the
   rate since its window was last reset, whatever samples were logged. *)
THEOREM AsksInTime == Spec => []InTime
<1>1. ResultInv => InTime
  <2> DEFINE pts == usable(input.samples)
             last == Last(pts)
             first == pts[Min(Since(pts))]
  <2> SUFFICES ASSUME ResultInv, result.kind = "interval",
                      Since(pts) # {}, last.t - first.t >= 60
               PROVE  IF last.used <= first.used THEN result.seconds = IntervalMax
                      ELSE \/ result.seconds = IntervalMin
                           \/ result.seconds * (last.used - first.used)
                                <= Remaining(last) * (last.t - first.t)
    BY DEF InTime, Since, Last
  <2>1. input.samples \in Seq(Sample) /\ result.seconds = Interval(input.samples)
    BY SamplesAssumption DEF ResultInv, Sample
  <2>2. QED BY <2>1, IntervalInTime
<1>2. QED BY <1>1, Results, PTL
=============================================================================
