----------------------------- MODULE AnswersProofs -----------------------------
(***************************************************************************)
(* Theorems about Answers, for inputs of any size:                         *)
(*                                                                         *)
(*   - pruning quota_log changes nothing for the queries that read it;     *)
(*   - the verdict on an answer is never "exhausted" without a reason in   *)
(*     the answer, never usable against one, and the reset it names is not *)
(*     too early.                                                          *)
(***************************************************************************)
EXTENDS Answers, FiniteSetTheorems, TLAPS

-----------------------------------------------------------------------------
(* The order of the rows in quota_log. *)

Rows(rows, ids) ==
  /\ ids \subseteq DOMAIN rows /\ ids \subseteq Int /\ IsFiniteSet(ids)
  /\ \A i \in ids : rows[i].ts \in Int

After(rows, ids, i) == {j \in ids : Newer(rows, j, i)}
Rank(rows, ids, i) == Cardinality(After(rows, ids, i))

(* Newer is a strict total order of the rows, however many have the same time. *)
LEMMA NewerOrder ==
  ASSUME NEW rows, NEW ids, Rows(rows, ids), NEW i \in ids, NEW j \in ids, NEW k \in ids
  PROVE  /\ ~Newer(rows, i, i)
         /\ i # j => Newer(rows, i, j) \/ Newer(rows, j, i)
         /\ Newer(rows, i, j) /\ Newer(rows, j, k) => Newer(rows, i, k)
<1>1. i \in Int /\ j \in Int /\ k \in Int
      /\ rows[i].ts \in Int /\ rows[j].ts \in Int /\ rows[k].ts \in Int
  BY DEF Rows
<1>2. QED BY <1>1 DEF Newer

(* A rank is a natural number, and a newer row has a smaller one. *)
LEMMA RankOrder ==
  ASSUME NEW rows, NEW ids, Rows(rows, ids), NEW i \in ids
  PROVE  /\ Rank(rows, ids, i) \in Nat
         /\ \A j \in ids : Newer(rows, j, i) => Rank(rows, ids, j) < Rank(rows, ids, i)
<1>1. ASSUME NEW j \in ids
      PROVE  IsFiniteSet(After(rows, ids, j)) /\ Rank(rows, ids, j) \in Nat
  <2>1. After(rows, ids, j) \subseteq ids
    BY DEF After
  <2>2. IsFiniteSet(After(rows, ids, j))
    BY <2>1, FS_Subset DEF Rows
  <2>3. QED BY <2>2, FS_CardinalityType DEF Rank
<1>2. ASSUME NEW j \in ids, Newer(rows, j, i)
      PROVE  Rank(rows, ids, j) < Rank(rows, ids, i)
  <2>1. After(rows, ids, j) \subseteq After(rows, ids, i)
    BY <1>2, NewerOrder DEF After
  <2>2. j \in After(rows, ids, i) /\ j \notin After(rows, ids, j)
    BY <1>2, NewerOrder DEF After
  <2>3. After(rows, ids, j) # After(rows, ids, i)
    BY <2>2
  <2>4. IsFiniteSet(After(rows, ids, i))
    BY <1>1
  <2>5. Cardinality(After(rows, ids, j)) <= Cardinality(After(rows, ids, i))
        /\ Cardinality(After(rows, ids, j)) # Cardinality(After(rows, ids, i))
    BY <2>1, <2>3, <2>4, FS_Subset
  <2>6. Rank(rows, ids, j) \in Nat /\ Rank(rows, ids, i) \in Nat
    BY <1>1
  <2>7. QED BY <2>5, <2>6 DEF Rank
<1>3. QED BY <1>1, <1>2

-----------------------------------------------------------------------------
(* Which rows a query finds. *)

(* A nonempty set of natural numbers has a least element. *)
LEMMA LeastNatural ==
  ASSUME NEW T, T \subseteq Nat, T # {}
  PROVE  \E n \in T : \A m \in T : n <= m
<1>1. PICK n \in T : \A m \in T : <<m, n>> \notin OpToRel(<, Nat)
  BY NatLessThanWellFounded, WFMin
<1>2. ASSUME NEW m \in T PROVE n <= m
  <2>1. ~(m < n)
    BY <1>1 DEF OpToRel
  <2>2. QED BY <2>1
<1>3. QED BY <1>2

(* A row that is not among the n newest comes after all of those, and there are
   n of them. *)
LEMMA NewestAreBefore ==
  ASSUME NEW rows, NEW ids, Rows(rows, ids), NEW n \in Nat,
         NEW i \in ids, i \notin Newest(rows, ids, n)
  PROVE  /\ Newest(rows, ids, n) \subseteq After(rows, ids, i)
         /\ Cardinality(Newest(rows, ids, n)) >= n
<1> DEFINE T == Newest(rows, ids, n)
           R == {Rank(rows, ids, j) : j \in ids \ T}
<1>1. \A j \in ids : Rank(rows, ids, j) \in Nat /\ (j \in T <=> Rank(rows, ids, j) < n)
  BY RankOrder DEF Newest, Rank, After
<1>2. T \subseteq After(rows, ids, i)
  <2>1. ASSUME NEW t \in T PROVE Newer(rows, t, i)
    <3>1. t \in ids
      BY DEF Newest
    <3>2. ~Newer(rows, i, t)
      BY <1>1, <3>1, RankOrder
    <3>3. t # i
      OBVIOUS
    <3>4. QED BY <3>1, <3>2, <3>3, NewerOrder
  <2>2. QED BY <2>1 DEF After, Newest
<1>3. PICK r \in R : \A s \in R : r <= s
  <2>1. R \subseteq Nat /\ R # {}
    BY <1>1
  <2>2. QED BY <2>1, LeastNatural
<1>4. PICK j \in ids \ T : r = Rank(rows, ids, j)
  OBVIOUS
<1>5. After(rows, ids, j) \subseteq T
  <2>1. ASSUME NEW k \in After(rows, ids, j), k \notin T PROVE FALSE
    <3>1. k \in ids /\ Newer(rows, k, j)
      BY DEF After
    <3>2. Rank(rows, ids, k) < Rank(rows, ids, j)
      BY <3>1, RankOrder
    <3>3. Rank(rows, ids, k) \in R
      BY <2>1, <3>1
    <3>4. r <= Rank(rows, ids, k)
      BY <1>3, <3>3
    <3>5. QED BY <1>1, <1>4, <3>1, <3>2, <3>4
  <2>2. QED BY <2>1
<1>6. IsFiniteSet(T) /\ T \subseteq ids
  <2>1. T \subseteq ids
    BY DEF Newest
  <2>2. QED BY <2>1, FS_Subset DEF Rows
<1>7. Cardinality(T) >= Rank(rows, ids, j) /\ Cardinality(T) \in Nat
  BY <1>5, <1>6, FS_Subset, FS_CardinalityType DEF Rank
<1>8. Rank(rows, ids, j) \in Nat /\ ~(Rank(rows, ids, j) < n)
  BY <1>1
<1>9. QED BY <1>2, <1>7, <1>8

(* A query finds the same rows in any part of a log that still has them. *)
LEMMA NewestInPart ==
  ASSUME NEW rows, NEW ids, Rows(rows, ids), NEW n \in Nat,
         NEW part, part \subseteq ids, Newest(rows, ids, n) \subseteq part
  PROVE  Newest(rows, part, n) = Newest(rows, ids, n)
<1> DEFINE T == Newest(rows, ids, n)
<1>1. Rows(rows, part)
  BY FS_Subset DEF Rows
<1>2. ASSUME NEW i \in T PROVE i \in Newest(rows, part, n)
  <2>1. i \in part /\ i \in ids /\ Rank(rows, ids, i) < n
    BY DEF Newest, Rank, After
  <2>2. After(rows, part, i) \subseteq After(rows, ids, i)
    BY DEF After
  <2>3. IsFiniteSet(After(rows, ids, i))
    <3>1. After(rows, ids, i) \subseteq ids
      BY DEF After
    <3>2. QED BY <3>1, FS_Subset DEF Rows
  <2>4. Rank(rows, part, i) <= Rank(rows, ids, i)
    BY <2>2, <2>3, FS_Subset DEF Rank
  <2>5. Rank(rows, part, i) \in Nat /\ Rank(rows, ids, i) \in Nat
    BY <1>1, <2>1, RankOrder
  <2>6. Rank(rows, part, i) < n
    BY <2>1, <2>4, <2>5
  <2>7. QED BY <2>1, <2>6 DEF Newest, Rank, After
<1>3. ASSUME NEW i \in Newest(rows, part, n), i \notin T PROVE FALSE
  <2>1. i \in part /\ i \in ids /\ Rank(rows, part, i) < n
    BY DEF Newest, Rank, After
  <2>2. T \subseteq After(rows, ids, i) /\ Cardinality(T) >= n
    BY <1>3, <2>1, NewestAreBefore
  <2>3. T \subseteq After(rows, part, i)
    BY <2>2 DEF After
  <2>4. IsFiniteSet(After(rows, part, i))
    <3>1. After(rows, part, i) \subseteq ids
      BY DEF After
    <3>2. QED BY <3>1, FS_Subset DEF Rows
  <2>5. Cardinality(T) <= Rank(rows, part, i) /\ Cardinality(T) \in Nat
    BY <2>3, <2>4, FS_Subset, FS_CardinalityType DEF Rank
  <2>6. Rank(rows, part, i) \in Nat
    BY <1>1, <2>1, RankOrder
  <2>7. QED BY <2>1, <2>2, <2>5, <2>6
<1>4. QED BY <1>2, <1>3

(* Of the newest rows, one is the newest. *)
LEMMA NewestGrows ==
  ASSUME NEW rows, NEW ids, Rows(rows, ids), NEW n \in Nat \ {0}
  PROVE  Newest(rows, ids, 1) \subseteq Newest(rows, ids, n)
<1>1. ASSUME NEW i \in Newest(rows, ids, 1) PROVE i \in Newest(rows, ids, n)
  <2>1. i \in ids /\ Rank(rows, ids, i) < 1
    BY DEF Newest, Rank, After
  <2>2. Rank(rows, ids, i) \in Nat
    BY <2>1, RankOrder
  <2>3. Rank(rows, ids, i) < n
    BY <2>1, <2>2
  <2>4. QED BY <2>1, <2>3 DEF Newest, Rank, After
<1>2. QED BY <1>1

-----------------------------------------------------------------------------
(* PruneQuotaLog *)

(* The log of an account that is left reads as the whole did. *)
LEMMA PrunedReads ==
  ASSUME NEW log, Rows(log.rows, DOMAIN log.rows), log.account
  PROVE  Reads(log.rows, PruneQuotaLog(log)) = Reads(log.rows, DOMAIN log.rows)
<1> DEFINE rows == log.rows
           ids == DOMAIN rows
           part == PruneQuotaLog(log)
           sure == ConfirmedRows(rows, ids)
<1>1. part \subseteq ids
  BY DEF PruneQuotaLog
<1>2. Newest(rows, ids, KeepRecent) \subseteq part
  BY DEF PruneQuotaLog, Newest
<1>3. Newest(rows, ids, 1) \subseteq part
  BY <1>2, NewestGrows, AnswersAssumption
<1>4. Newest(rows, sure, 1) \subseteq part
  BY DEF PruneQuotaLog, Newest, ConfirmedRows
<1>5. ConfirmedRows(rows, part) \subseteq sure
      /\ Newest(rows, sure, 1) \subseteq ConfirmedRows(rows, part)
  BY <1>1, <1>4 DEF ConfirmedRows, Newest
<1>6. Rows(rows, sure)
  <2>1. sure \subseteq ids
    BY DEF ConfirmedRows
  <2>2. QED BY <2>1, FS_Subset DEF Rows
<1>7. Newest(rows, part, KeepRecent) = Newest(rows, ids, KeepRecent)
  BY <1>1, <1>2, NewestInPart, AnswersAssumption
<1>8. Newest(rows, part, 1) = Newest(rows, ids, 1)
  BY <1>1, <1>3, NewestInPart
<1>9. Newest(rows, ConfirmedRows(rows, part), 1) = Newest(rows, sure, 1)
  BY <1>5, <1>6, NewestInPart
<1>10. QED BY <1>7, <1>8, <1>9 DEF Reads

-----------------------------------------------------------------------------
(* Windows *)

(* What is assumed of a document *)
Doc(d) == Named(d) /\ Typed(d)

LEMMA Docs == ASSUME NEW d \in Documents PROVE Doc(d)
BY DocumentsAssumption DEF Doc

(* The windows of a tool's documents. *)
LEMMA ToolWindows ==
  ASSUME NEW d, Doc(d)
  PROVE  /\ d.tool = "codex" => "primary" \in DOMAIN d.win /\ "secondary" \in DOMAIN d.win
                                  /\ "end" \in DOMAIN d.win
         /\ d.tool = "grok" => "credits" \in DOMAIN d.win /\ "legacy" \in DOMAIN d.win
         /\ d.tool = "devin" => "daily" \in DOMAIN d.win /\ "weekly" \in DOMAIN d.win
         /\ d.tool = "kimi" => "5h" \in DOMAIN d.win /\ "monthly" \in DOMAIN d.win
                                 /\ "listed" \in DOMAIN d.win /\ "web" \in DOMAIN d.win
         /\ d.tool \in {"zcode", "claude"} => "5h" \in DOMAIN d.win /\ "weekly" \in DOMAIN d.win
  BY DEF Doc, Named

(* The maximum of a bounded set of natural numbers is one of them. *)
LEMMA MaxOf ==
  ASSUME NEW T, T \subseteq Nat, T # {}, \E b \in Nat : \A y \in T : y <= b
  PROVE  Max(T) \in T /\ \A y \in T : y <= Max(T)
<1> PICK b \in Nat : \A y \in T : y <= b
  OBVIOUS
<1> DEFINE R == {b - y : y \in T}
<1>1. R \subseteq Nat /\ R # {}
  <2>1. \A y \in T : b - y \in Nat
    OBVIOUS
  <2>2. QED BY <2>1
<1>2. PICK n \in R : \A m \in R : n <= m
  BY <1>1, LeastNatural
<1>3. PICK x \in T : n = b - x
  OBVIOUS
<1>4. ASSUME NEW y \in T PROVE x >= y
  <2>1. b - y \in R
    OBVIOUS
  <2>2. b - x <= b - y
    BY <1>2, <1>3, <2>1
  <2>3. QED BY <2>2
<1>5. QED BY <1>4 DEF Max

LEMMA WindowType ==
  ASSUME NEW d, Doc(d), NEW w \in DOMAIN d.win
  PROVE  /\ Used(d, w) \in 0..1000 /\ Reset(d, w) \in Nat
         /\ ~Has(d, w) => Used(d, w) = 0
         /\ w = "end" => Used(d, w) = 0
<1>1. /\ Used(d, w) \in 0..1000 /\ Reset(d, w) \in Nat
      /\ Kind(d, w) # "window" => Used(d, w) = 0
      /\ w = "end" => Kind(d, w) = "missing"
  BY DEF Doc, Typed
<1>2. QED BY <1>1 DEF Has

(* The greatest use of some windows is the use of one of them. *)
LEMMA MaxUsedOf ==
  ASSUME NEW d, Doc(d), NEW ids, ids # {}, ids \subseteq DOMAIN d.win
  PROVE  /\ MaxUsed(d, ids) \in 0..1000
         /\ \E w \in ids : Used(d, w) = MaxUsed(d, ids)
         /\ \A w \in ids : Used(d, w) \in 0..1000 /\ Used(d, w) <= MaxUsed(d, ids)
<1> DEFINE T == {Used(d, w) : w \in ids}
<1>1. ASSUME NEW w \in ids PROVE Used(d, w) \in 0..1000
  <2>1. w \in DOMAIN d.win
    OBVIOUS
  <2>2. QED BY <2>1, WindowType
<1>2. T \subseteq Nat /\ T # {} /\ \A y \in T : y <= 1000
  <2>1. T # {}
    OBVIOUS
  <2>2. \A y \in T : y \in 0..1000
    BY <1>1
  <2> HIDE DEF T
  <2>3. T \subseteq Nat
    BY <2>2
  <2>4. \A y \in T : y <= 1000
    BY <2>2
  <2>5. QED BY <2>1, <2>3, <2>4
<1>3. Max(T) \in T /\ \A y \in T : y <= Max(T)
  <2>1. \E b \in Nat : \A y \in T : y <= b
    <3> WITNESS 1000 \in Nat
    <3> QED BY <1>2
  <2> HIDE DEF T
  <2>2. QED BY <1>2, <2>1, MaxOf
<1>4. \A w \in ids : Used(d, w) \in T
  OBVIOUS
<1>5. PICK v \in ids : Used(d, v) = Max(T)
  BY <1>3
<1>6. MaxUsed(d, ids) = Max(T)
  BY DEF MaxUsed
<1> HIDE DEF T
<1>7. QED BY <1>1, <1>3, <1>4, <1>5, <1>6

-----------------------------------------------------------------------------
(* The verdict on an answer, tool by tool. *)

Reason(d) == Says(d) \/ (d.status = "ok" /\ Stops(d, Full) # {})

(* A verdict is fair to an answer: exhausted only for a reason, usable only if
   no window stops the account. *)
Fair(d, r) ==
  /\ r.class = "exhausted" => Reason(d)
  /\ r.class \in {"ok", "soft"} => Stops(d, 1000) = {}

LEMMA UnknownFair == ASSUME NEW d PROVE Fair(d, Unknown) /\ Unknown.class = "unknown"
  BY DEF Fair, Unknown, Verdict

(* Where each window stops the account by itself, the level of the one that is
   used most decides. *)
LEMMA HottestDecides ==
  ASSUME NEW d, Doc(d), d.tool # "cursor", d.status = "ok",
         Binding(d) # {}, Binding(d) \subseteq DOMAIN d.win,
         NEW limit \in 995..1000, NEW r,
         r.class = Level(MaxUsed(d, Binding(d)), limit),
         \A w : ~Allowance(d, w)
  PROVE  Fair(d, r)
<1> DEFINE ws == Binding(d)
           used == MaxUsed(d, ws)
<1>1. used \in 0..1000 /\ \A w \in ws : Used(d, w) \in 0..1000 /\ Used(d, w) <= used
  BY MaxUsedOf
<1>2. PICK v \in ws : Used(d, v) = used
  BY MaxUsedOf
<1>3. Level(used, limit) \in {"ok", "soft", "exhausted"}
      /\ (Level(used, limit) = "exhausted" <=> used >= limit)
  <2> HIDE DEF used
  <2>1. QED BY <1>1 DEF Level
<1>4. ASSUME used >= limit PROVE Stops(d, Full) # {}
  <2>1. v \in {w \in ws : Used(d, w) >= Full /\ ~Allowance(d, w)}
    BY <1>1, <1>2, <1>4 DEF Full
  <2>2. QED BY <2>1 DEF Stops
<1>5. ASSUME ~(used >= limit) PROVE Stops(d, 1000) = {}
  <2>1. \A w \in ws : ~(Used(d, w) >= 1000)
    <3> HIDE DEF used, ws
    <3>1. QED BY <1>1, <1>5
  <2>2. QED BY <2>1 DEF Stops
<1>6. QED BY <1>3, <1>4, <1>5 DEF Fair, Reason

LEMMA ClaudeFair ==
  ASSUME NEW d, Doc(d), d.status = "ok", d.tool = "claude"
  PROVE  Fair(d, ParseClaudeUsage(d))
<1> DEFINE ws == There(d, {"5h", "weekly"})
<1>1. Binding(d) = ws /\ \A w : ~Allowance(d, w)
  BY DEF Binding, Allowance
<1>2. CASE ws = {} \/ Is(d, "error")
  BY <1>2, UnknownFair DEF ParseClaudeUsage
<1>3. CASE ~(ws = {} \/ Is(d, "error"))
  <2>1. ws # {} /\ ws \subseteq DOMAIN d.win
    BY <1>3 DEF There, Has
  <2>2. ParseClaudeUsage(d).class = Level(MaxUsed(d, ws), 1000)
    BY <1>3 DEF ParseClaudeUsage, Verdict
  <2>3. QED BY <1>1, <2>1, <2>2, HottestDecides DEF Full
<1>4. QED BY <1>2, <1>3

LEMMA ZCodeFair ==
  ASSUME NEW d, Doc(d), d.status = "ok", d.tool = "zcode"
  PROVE  Fair(d, ClassifyZCode(d))
<1> DEFINE ws == There(d, {"5h", "weekly"})
           bad == \/ d.flags \cap {"envelope", "duplicate"} # {} \/ ws = {}
                  \/ \E w \in {"5h", "weekly"} : Kind(d, w) = "bad"
<1>1. Binding(d) = ws /\ \A w : ~Allowance(d, w)
  BY DEF Binding, Allowance
<1>2. CASE bad
  BY <1>2, UnknownFair DEF ClassifyZCode
<1>3. CASE ~bad
  <2>1. ws # {} /\ ws \subseteq DOMAIN d.win
    BY <1>3 DEF There, Has
  <2>2. ClassifyZCode(d).class = Level(MaxUsed(d, ws), 1000)
    BY <1>3 DEF ClassifyZCode, Verdict
  <2>3. QED BY <1>1, <2>1, <2>2, HottestDecides DEF Full
<1>4. QED BY <1>2, <1>3

(* Next to no use at all the greatest use is what it was. *)
LEMMA MaxUsedEnd ==
  ASSUME NEW d, Doc(d), NEW ids, ids # {}, ids \subseteq DOMAIN d.win, "end" \in DOMAIN d.win
  PROVE  MaxUsed(d, ids \cup {"end"}) = MaxUsed(d, ids)
<1> DEFINE more == ids \cup {"end"}
           m == MaxUsed(d, ids)
           n == MaxUsed(d, more)
<1>1. m \in 0..1000 /\ \A w \in ids : Used(d, w) <= m
  BY MaxUsedOf
<1>2. PICK v \in ids : Used(d, v) = m
  BY MaxUsedOf
<1>3. more # {} /\ more \subseteq DOMAIN d.win
  OBVIOUS
<1>4. n \in 0..1000 /\ \A w \in more : Used(d, w) <= n
  <2> HIDE DEF more
  <2>1. QED BY <1>3, MaxUsedOf
<1>5. PICK x \in more : Used(d, x) = n
  BY <1>3, MaxUsedOf
<1>6. Used(d, "end") = 0
  BY WindowType
<1>7. m <= n
  BY <1>2, <1>4
<1>8. n <= m
  <2> HIDE DEF m, n
  <2>1. CASE x = "end"
    BY <2>1, <1>1, <1>4, <1>5, <1>6
  <2>2. CASE x \in ids
    BY <2>2, <1>1, <1>5
  <2>3. QED BY <2>1, <2>2
<1> HIDE DEF m, n
<1>9. m = n
  BY <1>1, <1>4, <1>7, <1>8
<1>10. QED BY <1>9 DEF m, n

LEMMA CodexFair ==
  ASSUME NEW d, Doc(d), d.status = "ok", d.tool = "codex"
  PROVE  Fair(d, classifyCodex(d))
<1> DEFINE ws == There(d, {"primary", "secondary"})
           r == classifyCodex(d)
           reached == d.flags \cap {"reached", "type", "other"} # {}
<1>1. Binding(d) = ws /\ \A w : ~Allowance(d, w)
  BY DEF Binding, Allowance
<1>2. ws \subseteq DOMAIN d.win /\ "end" \in DOMAIN d.win
  BY ToolWindows DEF There, Has
<1>3. reached => Says(d)
  BY DEF Says
<1>4. CASE ws = {"primary", "secondary"}
  <2>1. r.class = IF Is(d, "reached") THEN "exhausted" ELSE Level(MaxUsed(d, ws), Full)
    BY <1>4 DEF classifyCodex, Verdict
  <2>2. CASE Is(d, "reached")
    BY <2>1, <2>2, <1>3 DEF Fair, Reason, Is
  <2>3. CASE ~Is(d, "reached")
    BY <2>1, <2>3, <1>1, <1>2, <1>4, HottestDecides DEF Full
  <2>4. QED BY <2>2, <2>3
<1>5. CASE ws # {"primary", "secondary"}
  <2> DEFINE pct == MaxUsed(d, ws \cup {"end"})
  <2>1. r = classifyValue(reached \/ ws # {}, reached, pct, ws # {}, FALSE, FALSE, FALSE,
                          FirstReset(d, ws))
    BY <1>5 DEF classifyCodex
  <2> HIDE DEF pct, r, ws
  <2>2. CASE reached
    <3>1. r.class = "exhausted"
      BY <2>1, <2>2 DEF classifyValue, Verdict
    <3>2. QED BY <3>1, <2>2, <1>3 DEF Fair, Reason, r
  <2>3. CASE ~reached /\ ws = {}
    <3>1. r = Unknown
      BY <2>1, <2>3 DEF classifyValue
    <3>2. QED BY <3>1, UnknownFair DEF r
  <2>4. CASE ~reached /\ ws # {}
    <3>1. r.class = Level(pct, Full)
      BY <2>1, <2>4 DEF classifyValue, Verdict, Level
    <3>2. pct = MaxUsed(d, ws)
      BY <1>2, <2>4, MaxUsedEnd DEF pct
    <3>3. QED BY <3>1, <3>2, <2>4, <1>1, <1>2, HottestDecides DEF Full, r
  <2>5. QED BY <2>2, <2>3, <2>4
<1>6. QED BY <1>4, <1>5

LEMMA GrokFair ==
  ASSUME NEW d, Doc(d), d.status = "ok", d.tool = "grok"
  PROVE  Fair(d, classifyGrokBilling(d))
<1> DEFINE x == IF Kind(d, "credits") # "missing" THEN "credits" ELSE "legacy"
           used == IF Kind(d, x) = "window" THEN Used(d, x) ELSE 0
           extra == d.flags \cap {"prepaid", "ondemand"} # {}
           r == classifyGrokBilling(d)
<1>1. x \in DOMAIN d.win
  BY ToolWindows
<1>2. Binding(d) = There(d, {x}) /\ \A w : Allowance(d, w) <=> extra
  BY DEF Binding, Allowance
<1>3. Binding(d) = IF Kind(d, x) = "window" THEN {x} ELSE {}
  BY <1>1, <1>2 DEF There, Has
<1>4. used \in 0..1000 /\ (Kind(d, x) = "window" => Used(d, x) = used)
  <2> HIDE DEF x
  <2>1. Used(d, x) \in 0..1000
    BY <1>1, WindowType
  <2>2. QED BY <2>1
<1>5. \/ r = Unknown
      \/ r.class = IF Level(used, 1000) = "exhausted" /\ extra THEN "soft" ELSE Level(used, 1000)
  BY DEF classifyGrokBilling, Verdict
<1>6. CASE r = Unknown
  BY <1>6, UnknownFair
<1> HIDE DEF used, extra, r, x
<1>7. CASE r.class = IF Level(used, 1000) = "exhausted" /\ extra THEN "soft" ELSE Level(used, 1000)
  <2>1. CASE used >= 1000
    <3>1. Level(used, 1000) = "exhausted"
      BY <2>1 DEF Level
    <3>2. Kind(d, x) = "window"
      BY <2>1 DEF used
    <3>3. Used(d, x) >= Full
      BY <3>2, <1>4, <2>1 DEF Full
    <3>4. ~extra => x \in Stops(d, Full)
      BY <3>2, <3>3, <1>2, <1>3 DEF Stops
    <3>5. extra => Stops(d, 1000) = {}
      BY <1>2 DEF Stops
    <3>6. QED BY <1>7, <3>1, <3>4, <3>5 DEF Fair, Reason, r
  <2>2. CASE ~(used >= 1000)
    <3>1. Level(used, 1000) \in {"ok", "soft"}
      BY <2>2 DEF Level
    <3>2. \A w \in Binding(d) : ~(Used(d, w) >= 1000)
      BY <1>3, <1>4, <2>2
    <3>3. Stops(d, 1000) = {}
      BY <3>2 DEF Stops
    <3>4. QED BY <1>7, <3>1, <3>3 DEF Fair, r
  <2>3. QED BY <2>1, <2>2
<1>8. QED BY <1>5, <1>6, <1>7 DEF r

LEMMA CursorFair ==
  ASSUME NEW d, Doc(d), d.status = "ok", d.tool = "cursor"
  PROVE  Fair(d, classifyCursorPeriod(d))
<1> DEFINE ws == There(d, {"auto", "api"})
           none == There(d, {"auto", "api", "total"}) = {}
           both == ws = {"auto", "api"}
           used == IF both \/ ~Has(d, "total") THEN MaxUsed(d, ws) ELSE Used(d, "total")
           full == IF both THEN \A w \in ws : Used(d, w) >= Full ELSE used >= Full
           r == classifyCursorPeriod(d)
           B == Binding(d)
<1>1. \A w : Allowance(d, w) <=> Is(d, "allowance")
  BY DEF Allowance
<1>2. B = IF Has(d, "total") /\ ~both THEN There(d, {"total"}) ELSE ws
  BY DEF Binding
<1>3. CASE none
  <2>1. B = {}
    BY <1>2, <1>3 DEF There
  <2>2. Stops(d, 1000) = {}
    BY <2>1 DEF Stops
  <2>3. r = classifyValue(Is(d, "limit") , FALSE, 0, FALSE, Is(d, "gone") /\ Is(d, "capped"),
                          Is(d, "allowance"), Is(d, "gone") /\ Is(d, "hit"), Reset(d, "end"))
    BY <1>3 DEF classifyCursorPeriod
  <2>4. r.class = "exhausted" => Is(d, "gone")
    BY <2>3 DEF classifyValue, Verdict, Unknown, Level, Full
  <2>5. Is(d, "gone") => Says(d)
    BY <2>1 DEF Says, Is
  <2>6. QED BY <2>2, <2>4, <2>5 DEF Fair, Reason
<1>4. CASE ~none
  <2>1. B # {} /\ B \subseteq DOMAIN d.win
    BY <1>2, <1>4 DEF There, Has
  <2>2. full <=> \A w \in B : Used(d, w) >= Full
    <3>1. CASE both
      BY <1>2, <3>1
    <3>2. CASE ~both /\ Has(d, "total")
      <4>1. B = {"total"}
        BY <1>2, <3>2 DEF There
      <4>2. QED BY <4>1, <3>2
    <3>3. CASE ~both /\ ~Has(d, "total")
      <4>1. ws # {} /\ B = ws /\ used = MaxUsed(d, ws)
        BY <1>2, <3>3, <2>1
      <4>2. PICK v \in ws : ws = {v}
        BY <3>3, <4>1 DEF There
      <4> HIDE DEF ws
      <4>3. MaxUsed(d, ws) = Used(d, v)
        BY <2>1, <4>1, <4>2, MaxUsedOf
      <4>4. QED BY <3>3, <4>1, <4>2, <4>3
    <3>4. QED BY <3>1, <3>2, <3>3
  <2>3. IF full THEN r.class = (IF Is(d, "allowance") THEN "soft" ELSE "exhausted")
        ELSE r.class \in {"ok", "soft"}
    BY <1>4 DEF classifyCursorPeriod, Verdict
  <2> HIDE DEF full, r, B
  <2>4. CASE full /\ Is(d, "allowance")
    <3>1. Stops(d, 1000) = {}
      BY <1>1, <2>4 DEF Stops
    <3>2. QED BY <2>3, <2>4, <3>1 DEF Fair, r
  <2>5. CASE full /\ ~Is(d, "allowance")
    <3>1. {w \in Binding(d) : Used(d, w) >= Full /\ ~Allowance(d, w)} = B
      BY <1>1, <2>2, <2>5 DEF B
    <3>2. Stops(d, Full) # {}
      BY <2>1, <3>1 DEF Stops, B
    <3>3. QED BY <2>3, <2>5, <3>2 DEF Fair, Reason, r
  <2>6. CASE ~full
    <3>1. PICK v \in B : ~(Used(d, v) >= Full)
      BY <2>2, <2>6
    <3>2. Used(d, v) \in 0..1000
      BY <2>1, <3>1, WindowType
    <3>3. v \notin {w \in Binding(d) : Used(d, w) >= 1000 /\ ~Allowance(d, w)}
      BY <3>1, <3>2 DEF Full
    <3>4. Stops(d, 1000) = {}
      BY <3>1, <3>3 DEF Stops, B
    <3>5. QED BY <2>3, <2>6, <3>4 DEF Fair, r
  <2>7. QED BY <2>4, <2>5, <2>6
<1>5. QED BY <1>3, <1>4

(* The windows a Devin answer shows, and what is used of them. *)
Shown(d) == {"daily", "weekly"} \ ((IF Is(d, "hide_daily") THEN {"daily"} ELSE {})
                                     \cup (IF Is(d, "hide_weekly") THEN {"weekly"} ELSE {}))
Use(d, w) == IF Kind(d, w) = "missing" THEN 1000 ELSE Used(d, w)
MostUse(d) == Max({Use(d, w) : w \in Shown(d)})

LEMMA DevinShown ==
  ASSUME NEW d, Doc(d), d.tool = "devin"
  PROVE  /\ Shown(d) \subseteq {"daily", "weekly"} /\ Shown(d) \subseteq DOMAIN d.win
         /\ \A w \in Shown(d) : /\ Kind(d, w) \in {"window", "missing", "bad"}
                                /\ Use(d, w) \in 0..1000
<1>1. Shown(d) \subseteq {"daily", "weekly"}
  BY DEF Shown
<1>2. Shown(d) \subseteq DOMAIN d.win
  BY <1>1, ToolWindows
<1>3. ASSUME NEW w \in Shown(d)
      PROVE  Kind(d, w) \in {"window", "missing", "bad"} /\ Use(d, w) \in 0..1000
  <2>1. w \in DOMAIN d.win
    BY <1>2
  <2>2. Kind(d, w) \in {"window", "missing", "bad"} /\ Used(d, w) \in 0..1000
    BY <2>1 DEF Doc, Typed
  <2>3. QED BY <2>2 DEF Use
<1>4. QED BY <1>1, <1>2, <1>3

(* A verdict on a Devin answer is that of the window used most. *)
LEMMA DevinVerdict ==
  ASSUME NEW d, Doc(d), d.tool = "devin", ParseDevinStatus(d) # Unknown
  PROVE  /\ \A w \in Shown(d) : Kind(d, w) # "bad"
         /\ MostUse(d) \in 0..1000
         /\ \A w \in Shown(d) : Use(d, w) <= MostUse(d)
         /\ \E w \in Shown(d) : Use(d, w) = MostUse(d)
         /\ ParseDevinStatus(d).class = Level(MostUse(d), Full)
<1> DEFINE T == {Use(d, w) : w \in Shown(d)}
<1>1. Shown(d) # {} /\ \A w \in Shown(d) : Kind(d, w) # "bad"
  BY DEF ParseDevinStatus, Shown
<1>2. \A w \in Shown(d) : Use(d, w) \in 0..1000
  BY DevinShown
<1>3. T \subseteq Nat /\ T # {} /\ \E b \in Nat : \A y \in T : y <= b
  <2>1. T # {}
    BY <1>1
  <2>2. \A y \in T : y \in 0..1000
    BY <1>2
  <2> HIDE DEF T
  <2>3. \E b \in Nat : \A y \in T : y <= b
    <3> WITNESS 1000 \in Nat
    <3> QED BY <2>2
  <2>4. QED BY <2>1, <2>2, <2>3
<1>4. Max(T) \in T /\ \A y \in T : y <= Max(T)
  <2> HIDE DEF T
  <2>1. QED BY <1>3, MaxOf
<1>5. \A w \in Shown(d) : Use(d, w) \in T
  OBVIOUS
<1>6. PICK v \in Shown(d) : Use(d, v) = Max(T)
  BY <1>4
<1>7. MostUse(d) = Max(T)
  BY DEF MostUse
<1>8. ParseDevinStatus(d).class = Level(MostUse(d), Full)
  BY DEF ParseDevinStatus, Verdict, Shown, Use, MostUse
<1> HIDE DEF T
<1>9. MostUse(d) \in 0..1000 /\ \A w \in Shown(d) : Use(d, w) <= MostUse(d)
  BY <1>2, <1>4, <1>5, <1>6, <1>7
<1>10. QED BY <1>1, <1>6, <1>7, <1>8, <1>9

(* Used up, it waits for the windows that are. *)
LEMMA DevinReset ==
  ASSUME NEW d, ParseDevinStatus(d) # Unknown, MostUse(d) >= Full
  PROVE  ParseDevinStatus(d).reset = LastReset(d, {w \in Shown(d) : Use(d, w) >= Full})
BY DEF ParseDevinStatus, Verdict, Shown, Use, MostUse

LEMMA DevinBinding ==
  ASSUME NEW d, Doc(d), d.tool = "devin"
  PROVE  /\ Binding(d) = {w \in Shown(d) : Kind(d, w) = "window"}
         /\ \A w \in Binding(d) : Use(d, w) = Used(d, w)
         /\ \A w : ~Allowance(d, w)
<1>1. Shown(d) \subseteq {"daily", "weekly"} /\ Shown(d) \subseteq DOMAIN d.win
  BY DevinShown
<1>2. {w \in {"daily", "weekly"} :
         ~Is(d, IF w = "daily" THEN "hide_daily" ELSE "hide_weekly")} = Shown(d)
  BY DEF Shown
<1>3. Binding(d) = There(d, Shown(d))
  BY <1>2 DEF Binding
<1>4. Binding(d) = {w \in Shown(d) : Kind(d, w) = "window"}
  BY <1>1, <1>3 DEF There, Has
<1>5. \A w \in Binding(d) : Use(d, w) = Used(d, w)
  BY <1>4 DEF Use
<1>6. \A w : ~Allowance(d, w)
  BY DEF Allowance
<1>7. QED BY <1>4, <1>5, <1>6

LEMMA DevinFair ==
  ASSUME NEW d, Doc(d), d.status = "ok", d.tool = "devin"
  PROVE  Fair(d, ParseDevinStatus(d))
<1> DEFINE r == ParseDevinStatus(d)
           used == MostUse(d)
<1>1. CASE r = Unknown
  BY <1>1, UnknownFair
<1>2. CASE r # Unknown
  <2>1. ParseDevinStatus(d) # Unknown
    BY <1>2
  <2>2. \A w \in Shown(d) : Kind(d, w) # "bad"
    BY <2>1, DevinVerdict
  <2>3. used \in 0..1000 /\ \A w \in Shown(d) : Use(d, w) <= used
    BY <2>1, DevinVerdict
  <2>4. r.class = Level(used, Full)
    BY <2>1, DevinVerdict
  <2>5. PICK v \in Shown(d) : Use(d, v) = used
    BY <2>1, DevinVerdict
  <2> HIDE DEF r, used
  <2>6. CASE used >= Full
    <3>1. r.class = "exhausted"
      BY <2>3, <2>4, <2>6 DEF Level
    <3>2. CASE Kind(d, v) = "missing"
      <4>1. v \in {"daily", "weekly"}
        BY DevinShown
      <4>2. Says(d)
        BY <3>2, <4>1 DEF Says
      <4>3. QED BY <3>1, <4>2 DEF Fair, Reason, r
    <3>3. CASE Kind(d, v) # "missing"
      <4>1. Kind(d, v) = "window"
        BY <3>3, <2>2, DevinShown
      <4>2. v \in Binding(d)
        BY <4>1, DevinBinding
      <4>3. Used(d, v) >= Full /\ ~Allowance(d, v)
        BY <4>2, <2>5, <2>6, DevinBinding
      <4>4. v \in Stops(d, Full)
        BY <4>2, <4>3 DEF Stops
      <4>5. QED BY <3>1, <4>4 DEF Fair, Reason, r
    <3>4. QED BY <3>2, <3>3
  <2>7. CASE ~(used >= Full)
    <3>1. r.class # "exhausted"
      BY <2>3, <2>4, <2>7 DEF Level
    <3>2. \A w \in Binding(d) : Used(d, w) \in 0..1000 /\ Used(d, w) <= used
      <4>1. \A w \in Binding(d) : w \in Shown(d) /\ Use(d, w) = Used(d, w)
        BY DevinBinding
      <4>2. QED BY <4>1, <2>3, DevinShown
    <3>3. \A w \in Binding(d) : ~(Used(d, w) >= 1000)
      BY <3>2, <2>3, <2>7 DEF Full
    <3>4. Stops(d, 1000) = {}
      BY <3>3 DEF Stops
    <3>5. QED BY <3>1, <3>4 DEF Fair, r
  <2>8. QED BY <2>6, <2>7
<1>3. QED BY <1>1, <1>2

LEMMA KimiFair ==
  ASSUME NEW d, Doc(d), d.tool = "kimi"
  PROVE  Fair(d, classifyKimi(d))
<1> DEFINE bad == \E w \in {"5h", "monthly"} : Kind(d, w) = "bad"
           ws == IF bad \/ Is(d, "error") \/ d.status # "ok" THEN {} ELSE KimiWindows(d)
           r0 == IF d.status = "denied" THEN Verdict("expired", 0, 0) ELSE ParseKimiUsage(d, ws)
           merged == Has(d, "web") /\ ws \cap {"monthly", "listed"} = {}
           r == classifyKimi(d)
           used == MaxUsed(d, ws)
           web == IF Level(Used(d, "web"), Full) = "exhausted" /\ Is(d, "wallet") THEN "soft"
                  ELSE Level(Used(d, "web"), Full)
<1>1. r = IF merged THEN MergeKimiWebStats(r0, d) ELSE r0
  BY DEF classifyKimi
<1>2. merged => r.class = CASE r0.class = "ok" -> web
                            [] r0.class = "soft" /\ web = "exhausted" -> web
                            [] OTHER -> r0.class
  <2> HIDE DEF merged, r0
  <2>1. QED BY <1>1 DEF MergeKimiWebStats, Verdict
<1>3. CASE ws = {}
  <2>1. r0.class \in {"unknown", "expired"}
    BY <1>3 DEF ParseKimiUsage, Verdict, Unknown
  <2> HIDE DEF r0, r, web, merged
  <2>2. r.class \in {"unknown", "expired"}
    BY <2>1, <1>1, <1>2
  <2>3. QED BY <2>2 DEF Fair, r
<1>4. CASE ws # {}
  <2>1. d.status = "ok" /\ ws = KimiWindows(d) /\ r0 = ParseKimiUsage(d, ws)
    BY <1>4
  <2>2. ws \subseteq DOMAIN d.win /\ "web" \notin ws /\ "web" \in DOMAIN d.win
    <3>1. "web" \in DOMAIN d.win
      BY ToolWindows
    <3>2. QED BY <2>1, <3>1 DEF KimiWindows, There, Has
  <2>3. Binding(d) = IF Has(d, "web") /\ ws \cap {"monthly", "listed"} = {}
                     THEN ws \cup {"web"} ELSE ws
    BY <2>1 DEF Binding, KimiWindows, There, Has
  <2>4. \A w : Allowance(d, w) <=> Is(d, IF w = "web" THEN "wallet" ELSE "booster")
    BY DEF Allowance
  <2>5. /\ used \in 0..1000
        /\ \A w \in ws : Used(d, w) \in 0..1000 /\ Used(d, w) <= used
    <3> HIDE DEF ws
    <3>1. QED BY <1>4, <2>2, MaxUsedOf
  <2>6. PICK v \in ws : Used(d, v) = used
    <3> HIDE DEF ws
    <3>1. QED BY <1>4, <2>2, MaxUsedOf
  <2>7. r0.class = IF used >= 1000 /\ Is(d, "booster") THEN "unknown" ELSE Level(used, 1000)
    <3> HIDE DEF ws
    <3>1. QED BY <1>4, <2>1 DEF ParseKimiUsage, Verdict
  <2>8. Used(d, "web") \in 0..1000
    BY <2>2, WindowType
  <2>9. merged <=> Has(d, "web") /\ ws \cap {"monthly", "listed"} = {}
    OBVIOUS
  <2>10. r0.class = r.class \/ merged
    BY <1>1
  <2> HIDE DEF ws, r0, r, used, merged
  <2>11. r0.class = "exhausted" => v \in Stops(d, Full)
    <3>1. r0.class = "exhausted" => used >= 1000 /\ ~Is(d, "booster")
      BY <2>5, <2>7 DEF Level
    <3>2. v \in Binding(d) /\ v # "web"
      BY <2>2, <2>3, <2>6
    <3>3. QED BY <3>1, <3>2, <2>4, <2>5, <2>6 DEF Stops, Full
  <2>12. web = "exhausted" /\ merged => "web" \in Stops(d, Full)
    <3>1. web = "exhausted" => Used(d, "web") >= Full /\ ~Is(d, "wallet")
      BY <2>8 DEF Level, Full
    <3>2. merged => "web" \in Binding(d)
      BY <2>3, <2>9
    <3>3. QED BY <3>1, <3>2, <2>4 DEF Stops
  <2>13. r0.class \in {"ok", "soft"} => \A w \in ws : ~(Used(d, w) >= 1000)
    <3>1. r0.class \in {"ok", "soft"} => ~(used >= 1000)
      BY <2>5, <2>7 DEF Level
    <3>2. QED BY <3>1, <2>5, SMTT(30)
  <2>14. web # "exhausted" => ~(Used(d, "web") >= 1000) \/ Allowance(d, "web")
    <3>1. web # "exhausted" => ~(Used(d, "web") >= 1000) \/ Is(d, "wallet")
      BY <2>8 DEF Level, Full
    <3>2. QED BY <3>1, <2>4
  <2> HIDE DEF web
  <2>15. ASSUME r.class = "exhausted" PROVE Reason(d)
    <3>1. r0.class = "exhausted" \/ (web = "exhausted" /\ merged)
      BY <2>15, <1>2, <2>10
    <3>2. QED BY <3>1, <2>1, <2>11, <2>12 DEF Reason
  <2>16. ASSUME r.class \in {"ok", "soft"} PROVE Stops(d, 1000) = {}
    <3>1. r0.class \in {"ok", "soft"} /\ (merged => web # "exhausted")
      BY <2>16, <1>2, <2>10
    <3>2. \A w \in Binding(d) : ~(Used(d, w) >= 1000) \/ Allowance(d, w)
      BY <3>1, <2>3, <2>9, <2>13, <2>14
    <3>3. QED BY <3>2 DEF Stops
  <2>17. QED BY <2>15, <2>16 DEF Fair, r
<1>5. QED BY <1>3, <1>4

(* Every verdict is fair to its answer. *)
LEMMA ClassifyFair == ASSUME NEW d, Doc(d) PROVE Fair(d, Classify(d))
<1> DEFINE r == IF d.status = "ok" /\ ~Is(d, "capacity") THEN ByTool(d) ELSE Unknown
<1>1. CASE d.tool = "kimi"
  BY <1>1, KimiFair DEF Classify
<1>2. CASE d.tool # "kimi"
  <2>1. d.status = "ok" => Fair(d, ByTool(d))
    <3>1. d.tool \in {"codex", "grok", "cursor", "devin", "zcode", "claude"}
      BY <1>2 DEF Doc, Named, Tools
    <3>2. QED BY <3>1, CodexFair, GrokFair, CursorFair, DevinFair, ZCodeFair, ClaudeFair
             DEF ByTool
  <2>2. Fair(d, r)
    BY <2>1, UnknownFair
  <2>3. SaysUsedUp(d) => Says(d)
    BY DEF Says
  <2> HIDE DEF r
  <2>4. Classify(d) = IF d.status = "denied" THEN Verdict("expired", 0, 0)
                      ELSE IF r.class = "unknown" /\ SaysUsedUp(d)
                      THEN Verdict("exhausted", 1000, Reset(d, "end"))
                      ELSE r
    BY <1>2 DEF Classify, r
  <2>5. QED BY <2>2, <2>3, <2>4 DEF Fair, Reason, Verdict
<1>3. QED BY <1>1, <1>2

-----------------------------------------------------------------------------
(* When a used-up account is asked again *)

LastWaits(d, ids) ==
  LastReset(d, ids) # 0 => \A w \in ids : Reset(d, w) \in 1..LastReset(d, ids)

(* The last of the resets of at most three windows. *)
LEMMA LastResetOf ==
  ASSUME NEW d, Doc(d), NEW x, NEW y, NEW z, {x, y, z} \subseteq DOMAIN d.win,
         NEW ids, ids \subseteq {x, y, z}, ids # {}
  PROVE  LastWaits(d, ids)
<1> DEFINE T == {Reset(d, w) : w \in ids}
<1>1. \A w \in {x, y, z} : Reset(d, w) \in Nat
  BY WindowType
<1>2. T \subseteq Nat /\ T # {}
  BY <1>1
<1>3. \E b \in Nat : \A n \in T : n <= b
  <2>1. Reset(d, x) + Reset(d, y) + Reset(d, z) \in Nat
    BY <1>1
  <2>2. \A w \in ids : Reset(d, w) <= Reset(d, x) + Reset(d, y) + Reset(d, z)
    BY <1>1
  <2>3. QED BY <2>1, <2>2
<1>4. Max(T) \in T /\ \A n \in T : n <= Max(T)
  <2> HIDE DEF T
  <2>1. QED BY <1>2, <1>3, MaxOf
<1>5. \A w \in ids : Reset(d, w) \in T
  OBVIOUS
<1>6. LastReset(d, ids) # 0 =>
        LastReset(d, ids) = Max(T) /\ \A w \in ids : Reset(d, w) # 0
  BY DEF LastReset
<1> HIDE DEF T
<1>7. QED BY <1>1, <1>2, <1>4, <1>5, <1>6 DEF LastWaits

(* A verdict that an account is used up names no reset before that of a window
   that is. *)
Patient(d, r) ==
  r.class = "exhausted" =>
    \A w \in Binding(d) \ {"web"} :
      Used(d, w) >= 1000 /\ r.reset # 0 => Reset(d, w) \in 1..r.reset

LEMMA ZCodePatient ==
  ASSUME NEW d, Doc(d), d.tool = "zcode"
  PROVE  Patient(d, ClassifyZCode(d))
<1> DEFINE ws == There(d, {"5h", "weekly"})
           used == MaxUsed(d, ws)
           r == ClassifyZCode(d)
<1>1. CASE r = Unknown
  BY <1>1 DEF Patient, Unknown, Verdict
<1>2. CASE r # Unknown
  <2>1. /\ ws # {} /\ r.class = Level(used, 1000)
        /\ used >= 1000 => r.reset = LastReset(d, Hottest(d, ws))
    BY <1>2 DEF ClassifyZCode, Verdict
  <2>2. Binding(d) = ws /\ ws \subseteq DOMAIN d.win /\ {"5h", "weekly"} \subseteq DOMAIN d.win
    <3>1. {"5h", "weekly"} \subseteq DOMAIN d.win
      BY ToolWindows
    <3>2. QED BY <3>1 DEF Binding, There, Has
  <2>3. ws \subseteq {"5h", "weekly", "weekly"} /\ {"5h", "weekly", "weekly"} \subseteq DOMAIN d.win
    BY <2>2 DEF There
  <2> HIDE DEF ws, r
  <2>4. used \in 0..1000 /\ \A w \in ws : Used(d, w) \in 0..1000 /\ Used(d, w) <= used
    BY <2>1, <2>2, MaxUsedOf
  <2>5. Hottest(d, ws) # {} /\ Hottest(d, ws) \subseteq ws
    BY <2>1, <2>2, MaxUsedOf DEF Hottest
  <2>6. LastWaits(d, Hottest(d, ws))
    BY <2>3, <2>5, LastResetOf
  <2>7. r.class = "exhausted" => used >= 1000
    BY <2>1, <2>4 DEF Level
  <2>8. \A w \in ws : Used(d, w) >= 1000 => w \in Hottest(d, ws)
    BY <2>4 DEF Hottest
  <2>9. QED BY <2>1, <2>2, <2>6, <2>7, <2>8 DEF Patient, LastWaits, r
<1>3. QED BY <1>1, <1>2

LEMMA DevinPatient ==
  ASSUME NEW d, Doc(d), d.tool = "devin"
  PROVE  Patient(d, ParseDevinStatus(d))
<1> DEFINE full == {w \in Shown(d) : Use(d, w) >= Full}
           r == ParseDevinStatus(d)
<1>1. CASE r = Unknown
  BY <1>1 DEF Patient, Unknown, Verdict
<1>2. CASE r # Unknown
  <2> ParseDevinStatus(d) # Unknown
    BY <1>2
  <2>1. MostUse(d) \in 0..1000 /\ r.class = Level(MostUse(d), Full)
    <3>1. MostUse(d) \in 0..1000
      BY DevinVerdict
    <3>2. r.class = Level(MostUse(d), Full)
      BY DevinVerdict
    <3>3. QED BY <3>1, <3>2
  <2>2. MostUse(d) >= Full => r.reset = LastReset(d, full)
    BY DevinReset
  <2>3. PICK v \in Shown(d) : Use(d, v) = MostUse(d)
    BY DevinVerdict
  <2>4. /\ full \subseteq {"daily", "weekly", "weekly"}
        /\ {"daily", "weekly", "weekly"} \subseteq DOMAIN d.win
    <3>1. Shown(d) \subseteq {"daily", "weekly"}
      BY DevinShown
    <3>2. "daily" \in DOMAIN d.win /\ "weekly" \in DOMAIN d.win
      BY ToolWindows
    <3>3. QED BY <3>1, <3>2
  <2>5. r.class = "exhausted" => MostUse(d) >= Full
    BY <2>1 DEF Level
  <2>6. MostUse(d) >= Full => full # {}
    BY <2>3
  <2>7. \A w \in Binding(d) : Used(d, w) \in 0..1000 /\ w \in Shown(d) /\ Use(d, w) = Used(d, w)
    <3>1. \A w \in Binding(d) : w \in Shown(d) /\ Use(d, w) = Used(d, w)
      BY DevinBinding
    <3>2. QED BY <3>1, DevinShown
  <2>8. \A w \in Binding(d) : Used(d, w) >= 1000 => w \in full
    BY <2>7 DEF Full
  <2> HIDE DEF full, r
  <2>9. full # {} => LastWaits(d, full)
    BY <2>4, LastResetOf
  <2>10. QED BY <2>2, <2>5, <2>6, <2>8, <2>9 DEF Patient, LastWaits, r
<1>3. QED BY <1>1, <1>2

LEMMA KimiPatient ==
  ASSUME NEW d, Doc(d), d.tool = "kimi"
  PROVE  Patient(d, classifyKimi(d))
<1> DEFINE bad == \E w \in {"5h", "monthly"} : Kind(d, w) = "bad"
           ws == IF bad \/ Is(d, "error") \/ d.status # "ok" THEN {} ELSE KimiWindows(d)
           r0 == IF d.status = "denied" THEN Verdict("expired", 0, 0) ELSE ParseKimiUsage(d, ws)
           merged == Has(d, "web") /\ ws \cap {"monthly", "listed"} = {}
           r == classifyKimi(d)
           used == MaxUsed(d, ws)
<1>1. r = IF merged THEN MergeKimiWebStats(r0, d) ELSE r0
  BY DEF classifyKimi
<1>2. /\ r.class = "exhausted" => r0.class \in {"ok", "soft", "exhausted"}
      /\ ~(Used(d, "web") > r0.used) => r.reset = r0.reset
  <2> HIDE DEF merged, r0
  <2>1. QED BY <1>1 DEF MergeKimiWebStats, Verdict
<1>3. CASE ws = {}
  <2>1. r0.class \in {"unknown", "expired"}
    BY <1>3 DEF ParseKimiUsage, Verdict, Unknown
  <2> HIDE DEF r0, r
  <2>2. QED BY <2>1, <1>2 DEF Patient, r
<1>4. CASE ws # {}
  <2>1. d.status = "ok" /\ ws = KimiWindows(d) /\ r0 = ParseKimiUsage(d, ws)
    BY <1>4
  <2>2. /\ ws \subseteq {"5h", "monthly", "listed"}
        /\ {"5h", "monthly", "listed"} \subseteq DOMAIN d.win /\ "web" \in DOMAIN d.win
    <3>1. ws \subseteq {"5h", "monthly", "listed"}
      BY <2>1 DEF KimiWindows, There
    <3>2. QED BY <3>1, ToolWindows
  <2>3. Binding(d) \ {"web"} \subseteq ws
    BY <2>1 DEF Binding, KimiWindows, There, Has
  <2>4. Used(d, "web") \in 0..1000
    BY <2>2, WindowType
  <2>5. /\ r0.class = IF used >= 1000 /\ Is(d, "booster") THEN "unknown" ELSE Level(used, 1000)
        /\ r0.used = used
        /\ used >= 1000 => r0.reset = LastReset(d, Hottest(d, ws))
    <3> HIDE DEF ws
    <3>1. QED BY <1>4, <2>1 DEF ParseKimiUsage, Verdict
  <2> HIDE DEF ws, r0, r
  <2>6. used \in 0..1000 /\ \A w \in ws : Used(d, w) \in 0..1000 /\ Used(d, w) <= used
    <3>1. ws # {} /\ ws \subseteq DOMAIN d.win
      BY <1>4, <2>2
    <3>2. QED BY <3>1, MaxUsedOf
  <2>7. Hottest(d, ws) # {} /\ Hottest(d, ws) \subseteq ws
    <3>1. ws # {} /\ ws \subseteq DOMAIN d.win
      BY <1>4, <2>2
    <3>2. PICK v \in ws : Used(d, v) = MaxUsed(d, ws)
      BY <3>1, MaxUsedOf
    <3>3. QED BY <3>2 DEF Hottest
  <2>8. LastWaits(d, Hottest(d, ws))
    <3>1. Hottest(d, ws) \subseteq {"5h", "monthly", "listed"}
      BY <2>2, <2>7
    <3>2. QED BY <2>2, <2>7, <3>1, LastResetOf
  <2> HIDE DEF used
  <2>9. ASSUME r.class = "exhausted", NEW w \in ws, Used(d, w) >= 1000, r.reset # 0
        PROVE  Reset(d, w) \in 1..r.reset
    <3>1. used >= 1000
      BY <2>6, <2>9
    <3>2. w \in Hottest(d, ws)
      <4>1. used <= 1000 /\ Used(d, w) <= used
        BY <2>6
      <4>2. Used(d, w) = used
        BY <2>6, <2>9, <4>1
      <4>3. QED BY <4>2 DEF Hottest, used
    <3>3. r.reset = LastReset(d, Hottest(d, ws))
      BY <1>2, <2>4, <2>5, <2>6, <3>1
    <3>4. QED BY <2>8, <2>9, <3>2, <3>3 DEF LastWaits
  <2>10. QED BY <2>3, <2>9 DEF Patient, r
<1>5. QED BY <1>3, <1>4

(* Every verdict on a Devin, Kimi or ZCode answer waits for the last window. *)
LEMMA ClassifyPatient ==
  ASSUME NEW d, Doc(d), d.tool \in {"devin", "kimi", "zcode"}
  PROVE  Patient(d, Classify(d))
<1> DEFINE r == IF d.status = "ok" /\ ~Is(d, "capacity") THEN ByTool(d) ELSE Unknown
<1>1. CASE d.tool = "kimi"
  BY <1>1, KimiPatient DEF Classify
<1>2. CASE d.tool \in {"devin", "zcode"}
  <2>1. Patient(d, ByTool(d))
    BY <1>2, DevinPatient, ZCodePatient DEF ByTool
  <2>2. Patient(d, r)
    BY <2>1 DEF Patient, Unknown, Verdict
  <2>3. ~SaysUsedUp(d)
    BY <1>2 DEF SaysUsedUp
  <2> HIDE DEF r
  <2>4. Classify(d) = r \/ Classify(d).class = "expired"
    BY <1>2, <2>3 DEF Classify, Verdict, r
  <2>5. QED BY <2>2, <2>4 DEF Patient
<1>3. QED BY <1>1, <1>2

-----------------------------------------------------------------------------
(* The specification *)

InputOK ==
  input \in [of : {"answer"}, doc : Documents] \cup [of : {"samples"}, samples : SampleSeqs] \cup Logs

(* A result is that of its input. *)
OutcomeInv ==
  /\ result.kind = "rows" => input \in Logs /\ result.rows = PruneQuotaLog(input)
  /\ result.kind = "verdict" =>
       /\ input.doc \in Documents
       /\ result.class = Classify(input.doc).class /\ result.reset = Classify(input.doc).reset

LEMMA Outcomes == Spec => [](InputOK /\ OutcomeInv)
<1>1. Init => InputOK /\ OutcomeInv
  BY DEF Init, InputOK, OutcomeInv, NoResult
<1>2. InputOK /\ OutcomeInv /\ [Next]_vars => (InputOK /\ OutcomeInv)'
  <2> SUFFICES ASSUME InputOK, OutcomeInv, [Next]_vars
               PROVE  (InputOK /\ OutcomeInv)'
    OBVIOUS
  <2>1. CASE Probe
    <3>1. input.doc \in Documents
      BY <2>1, LogsAssumption DEF Probe, InputOK
    <3>2. QED BY <2>1, <3>1 DEF Probe, InputOK, OutcomeInv
  <2>2. CASE quotaInterval
    BY <2>2 DEF quotaInterval, InputOK, OutcomeInv
  <2>3. CASE Prune
    <3>1. input \in Logs
      BY <2>3 DEF Prune, InputOK
    <3>2. QED BY <2>3, <3>1 DEF Prune, InputOK, OutcomeInv
  <2>4. CASE UNCHANGED vars
    BY <2>4 DEF vars, InputOK, OutcomeInv
  <2>5. QED BY <2>1, <2>2, <2>3, <2>4 DEF Next
<1>3. QED BY <1>1, <1>2, PTL DEF Spec

(* However many rows, and whatever their times, pruning quota_log leaves every
   reader of an account's log what it read before. *)
THEOREM PruneSafe == Spec => []PruneKeepsReads
<1>1. InputOK /\ OutcomeInv => PruneKeepsReads
  <2> SUFFICES ASSUME InputOK, OutcomeInv, result.kind = "rows", input.account
               PROVE  Reads(input.rows, result.rows) = Reads(input.rows, DOMAIN input.rows)
    BY DEF PruneKeepsReads
  <2>1. input \in Logs /\ result.rows = PruneQuotaLog(input)
    BY DEF OutcomeInv
  <2>2. Rows(input.rows, DOMAIN input.rows)
    BY <2>1, LogsAssumption DEF Rows
  <2>3. QED BY <2>1, <2>2, PrunedReads
<1>2. QED BY <1>1, Outcomes, PTL

(* No account is called exhausted unless its answer shows that it is used up,
   whatever tools, windows and flags the answers combine. *)
THEOREM NotTooEarly == Spec => []NeverTooEarly
<1>1. InputOK /\ OutcomeInv => NeverTooEarly
  <2> SUFFICES ASSUME OutcomeInv, result.kind = "verdict", result.class = "exhausted"
               PROVE  Reason(input.doc)
    BY DEF NeverTooEarly, Reason
  <2>1. Doc(input.doc) /\ Classify(input.doc).class = "exhausted"
    BY Docs DEF OutcomeInv
  <2>2. QED BY <2>1, ClassifyFair DEF Fair
<1>2. QED BY <1>1, Outcomes, PTL

(* No account whose answer shows that it is used up is called usable, whatever
   tools, windows and flags the answers combine. *)
THEOREM NotMissed == Spec => []NeverMissed
<1>1. InputOK /\ OutcomeInv => NeverMissed
  <2> SUFFICES ASSUME OutcomeInv, result.kind = "verdict", result.class \in {"ok", "soft"}
               PROVE  Stops(input.doc, 1000) = {}
    BY DEF NeverMissed
  <2>1. Doc(input.doc) /\ Classify(input.doc).class \in {"ok", "soft"}
    BY Docs DEF OutcomeInv
  <2>2. QED BY <2>1, ClassifyFair DEF Fair
<1>2. QED BY <1>1, Outcomes, PTL

(* The reset named for a used-up Devin, Kimi or ZCode account is not before
   that of any window that is used up, whatever the times. *)
THEOREM ResetIsLast == Spec => []ResetWaits
<1>1. InputOK /\ OutcomeInv => ResetWaits
  <2> SUFFICES ASSUME OutcomeInv, result.kind = "verdict", result.class = "exhausted",
                      input.doc.tool \in {"devin", "kimi", "zcode"},
                      NEW w \in Binding(input.doc) \ {"web"},
                      Used(input.doc, w) >= 1000, result.reset # 0
               PROVE  Reset(input.doc, w) \in 1..result.reset
    BY DEF ResetWaits
  <2>1. /\ Doc(input.doc)
        /\ result.class = Classify(input.doc).class /\ result.reset = Classify(input.doc).reset
    BY Docs DEF OutcomeInv
  <2>2. Patient(input.doc, Classify(input.doc))
    BY <2>1, ClassifyPatient
  <2>3. QED BY <2>1, <2>2 DEF Patient
<1>2. QED BY <1>1, Outcomes, PTL
=============================================================================
