------------------------------ MODULE QuotaProofs ------------------------------
(***************************************************************************)
(* Theorems about Quota, for any worlds, intervals, delays and number of   *)
(* failed requests.                                                        *)
(***************************************************************************)
EXTENDS Quota, FiniteSets, SequenceTheorems, FiniteSetTheorems, NaturalsInduction,
        WellFoundedInduction, TLAPS

(* What the plans have in common.  The tool lock is held exactly while the
   next call is one of `Locking`; behind another call such a call stands only
   where `Leads` has them together. *)
Locking == {"wait", "confirm", "auto", "source", "target", "rank"}
Leads ==
  { <<"wait", "confirm">>, <<"confirm", "rank">>, <<"confirm", "source">>,
    <<"confirm", "target">>, <<"auto", "source">>, <<"auto", "target">>, <<"source", "auto">> }

CallOK(c) ==
  /\ c.f \in {"ask", "wait", "auto", "confirm", "target", "queue", "set", "recovered", "judge",
              "renew"} => c.id \in Ids
  /\ c.f \in {"pick", "rank", "queue", "set", "recovered", "source", "target"} => c.from \in Ids
  /\ c.f = "set" => c.why \in {"exhausted", "expiring"}
  /\ c.f = "rank" => c.ids # {}

Chain(p) ==
  \A i \in 1..Len(p) :
    /\ CallOK(p[i])
    /\ i > 1 /\ p[i].f \in Locking => <<p[i - 1].f, p[i].f>> \in Leads
    /\ p[i].f \in {"confirm", "auto"} => i < Len(p) /\ p[i + 1].f \in Locking
    /\ p[i].f = "source" => i + 2 <= Len(p) /\ p[i + 1].f = "auto" /\ p[i + 2].f = "target"

Locked(p) == p # <<>> /\ Head(p).f \in Locking
PlanOK(r) == Chain(r.plan) /\ (r.lock <=> Locked(r.plan))

PlanInv ==
  /\ \A x \in Actors : PlanOK(act[x])
  /\ ~(act["worker"].lock /\ act["web"].lock)
PendingInv == pending = NoPending \/ {pending.from, pending.to} \subseteq Ids

Action == [plan : Seq(Calls), lock : BOOLEAN, class : Classes, backoff : BOOLEAN]
Inv == TypeOK /\ PlanInv /\ PendingInv

-----------------------------------------------------------------------------
(* Sequences of calls *)

LEMMA Tails ==
  ASSUME NEW S, NEW p \in Seq(S), p # <<>>
  PROVE  /\ Tail(p) \in Seq(S) /\ Len(p) \in Nat \ {0} /\ Len(Tail(p)) = Len(p) - 1
         /\ Head(p) = p[1] /\ Head(p) \in S
         /\ \A i \in 1..Len(Tail(p)) : Tail(p)[i] = p[i + 1]
         /\ Tail(p) # <<>> <=> Len(p) > 1
<1>1. Len(p) \in Nat \ {0} /\ Head(p) = p[1] /\ p[1] \in S
  OBVIOUS
<1>2. Tail(p) \in Seq(S) /\ Len(Tail(p)) = Len(p) - 1
  OBVIOUS
<1>3. \A i \in 1..Len(Tail(p)) : Tail(p)[i] = p[i + 1]
  OBVIOUS
<1>4. Tail(p) # <<>> <=> Len(Tail(p)) # 0
  BY <1>2, EmptySeq
<1> QED
  BY <1>1, <1>2, <1>3, <1>4

LEMMA Joined ==
  ASSUME NEW S, NEW p \in Seq(S), NEW r \in Seq(S)
  PROVE  /\ p \o r \in Seq(S) /\ Len(p \o r) = Len(p) + Len(r)
         /\ \A i \in 1..Len(p) : (p \o r)[i] = p[i]
         /\ \A i \in 1..Len(r) : (p \o r)[Len(p) + i] = r[i]
         /\ Len(p) \in Nat /\ Len(r) \in Nat
         /\ p # <<>> => p \o r # <<>> /\ Head(p \o r) = Head(p)
         /\ p = <<>> => p \o r = r
OBVIOUS

(* The calls of one plan are in another. *)
Within(r, s) == \A i \in 1..Len(r) : \E j \in 1..Len(s) : s[j] = r[i]

LEMMA JoinKeeps ==
  ASSUME NEW S, NEW p \in Seq(S), NEW r \in Seq(S)
  PROVE  Within(r, p \o r)
<1> DEFINE u == p \o r
<1>1. Len(u) = Len(p) + Len(r) /\ Len(p) \in Nat /\ Len(r) \in Nat
  BY Joined
<1>2. \A k \in 1..Len(r) : u[Len(p) + k] = r[k]
  BY Joined
<1> HIDE DEF u
<1>3. ASSUME NEW i \in 1..Len(r) PROVE \E j \in 1..Len(u) : u[j] = r[i]
  <2>1. Len(p) + i \in 1..Len(u) /\ u[Len(p) + i] = r[i]
    BY <1>1, <1>2
  <2> QED
    BY <2>1
<1>4. Within(r, u)
  BY <1>3 DEF Within
<1> QED
  BY <1>4 DEF u

(* Behind its first call a plan is a plan, and the first call tells whether
   the next one holds the lock. *)
LEMMA ChainTail ==
  ASSUME NEW p \in Seq(Calls), p # <<>>, Chain(p)
  PROVE  /\ Tail(p) \in Seq(Calls) /\ Chain(Tail(p)) /\ CallOK(Head(p)) /\ Head(p) \in Calls
         /\ Locked(Tail(p)) => <<Head(p).f, Head(Tail(p)).f>> \in Leads
         /\ Head(p).f \in {"confirm", "auto"} => Locked(Tail(p))
         /\ Head(p).f = "source" =>
              /\ Locked(Tail(p)) /\ Tail(Tail(p)) # <<>>
              /\ Head(Tail(Tail(p))).f = "target"
<1> DEFINE t == Tail(p)
<1> SUFFICES /\ t \in Seq(Calls) /\ Chain(t) /\ CallOK(Head(p)) /\ Head(p) \in Calls
             /\ Locked(t) => <<Head(p).f, Head(t).f>> \in Leads
             /\ Head(p).f \in {"confirm", "auto"} => Locked(t)
             /\ Head(p).f = "source" =>
                  Locked(t) /\ Tail(t) # <<>> /\ Head(Tail(t)).f = "target"
  OBVIOUS
<1>1. /\ t \in Seq(Calls) /\ Len(p) \in Nat \ {0} /\ Len(t) = Len(p) - 1 /\ Head(p) = p[1]
      /\ Head(p) \in Calls /\ (t # <<>> <=> Len(p) > 1)
  BY Tails
<1>2. \A i \in 1..Len(t) : t[i] = p[i + 1]
  BY Tails
<1> HIDE DEF t
<1>3. Chain(t)
  <2> SUFFICES ASSUME NEW i \in 1..Len(t) PROVE
        /\ CallOK(t[i])
        /\ i > 1 /\ t[i].f \in Locking => <<t[i - 1].f, t[i].f>> \in Leads
        /\ t[i].f \in {"confirm", "auto"} => i < Len(t) /\ t[i + 1].f \in Locking
        /\ t[i].f = "source" => i + 2 <= Len(t) /\ t[i + 1].f = "auto" /\ t[i + 2].f = "target"
    BY DEF Chain
  <2>1. i + 1 \in 1..Len(p) /\ t[i] = p[i + 1] /\ i + 1 > 1
    BY <1>1, <1>2
  <2>2. /\ CallOK(p[i + 1])
        /\ p[i + 1].f \in Locking => <<p[i].f, p[i + 1].f>> \in Leads
        /\ p[i + 1].f \in {"confirm", "auto"} => i + 1 < Len(p) /\ p[i + 2].f \in Locking
        /\ p[i + 1].f = "source" => i + 3 <= Len(p) /\ p[i + 2].f = "auto" /\ p[i + 3].f = "target"
    BY <2>1 DEF Chain
  <2>3. i > 1 => t[i - 1] = p[i]
    BY <1>1, <1>2
  <2>4. i + 1 < Len(p) => i < Len(t) /\ t[i + 1] = p[i + 2]
    BY <1>1, <1>2
  <2>5. i + 3 <= Len(p) => i + 2 <= Len(t) /\ t[i + 2] = p[i + 3] /\ t[i + 1] = p[i + 2]
    BY <1>1, <1>2
  <2> QED
    BY <2>1, <2>2, <2>3, <2>4, <2>5
<1>4. t # <<>> => Head(t) = p[2] /\ 2 \in 1..Len(p)
  BY <1>1, <1>2, Tails
<1>5. Len(t) > 1 => Tail(t) # <<>> /\ Head(Tail(t)) = t[2] /\ t[2] = p[3]
  BY <1>1, <1>2, Tails
<1>6. /\ CallOK(p[1])
      /\ p[1].f \in {"confirm", "auto"} => 1 < Len(p) /\ p[2].f \in Locking
      /\ p[1].f = "source" => 3 <= Len(p) /\ p[2].f = "auto" /\ p[3].f = "target"
  <2>1. 1 \in 1..Len(p) /\ 1 + 1 = 2 /\ 1 + 2 = 3
    BY <1>1
  <2> QED
    BY <2>1 DEF Chain
<1>7. Locked(t) => <<Head(p).f, Head(t).f>> \in Leads
  BY <1>1, <1>4 DEF Chain, Locked
<1>8. Head(p).f \in {"confirm", "auto"} => Locked(t)
  BY <1>1, <1>4, <1>6 DEF Locked
<1>9. Head(p).f = "source" => Locked(t) /\ Tail(t) # <<>> /\ Head(Tail(t)).f = "target"
  BY <1>1, <1>4, <1>5, <1>6 DEF Locked, Locking
<1>10. CallOK(Head(p))
  BY <1>1, <1>6
<1> QED
  BY <1>1, <1>3, <1>7, <1>8, <1>9, <1>10

(* A plan may stand in front of another that does not start under the lock. *)
LEMMA ChainJoin ==
  ASSUME NEW p \in Seq(Calls), Chain(p), NEW r \in Seq(Calls), Chain(r), ~Locked(r)
  PROVE  /\ p \o r \in Seq(Calls) /\ Chain(p \o r)
         /\ Locked(p \o r) <=> Locked(p)
<1> DEFINE s == p \o r
<1>1. /\ s \in Seq(Calls) /\ Len(s) = Len(p) + Len(r) /\ Len(p) \in Nat /\ Len(r) \in Nat
      /\ p # <<>> => s # <<>> /\ Head(s) = Head(p)
      /\ p = <<>> => s = r
  BY Joined
<1>2. \A i \in 1..Len(p) : s[i] = p[i]
  BY Joined
<1>3. \A i \in 1..Len(r) : s[Len(p) + i] = r[i]
  BY Joined
<1> HIDE DEF s
<1>4. Locked(s) <=> Locked(p)
  BY <1>1 DEF Locked
<1>5. Len(r) > 0 => r[1].f \notin Locking
  BY DEF Locked
<1>6. Chain(s)
  <2> SUFFICES ASSUME NEW i \in 1..Len(s) PROVE
        /\ CallOK(s[i])
        /\ i > 1 /\ s[i].f \in Locking => <<s[i - 1].f, s[i].f>> \in Leads
        /\ s[i].f \in {"confirm", "auto"} => i < Len(s) /\ s[i + 1].f \in Locking
        /\ s[i].f = "source" => i + 2 <= Len(s) /\ s[i + 1].f = "auto" /\ s[i + 2].f = "target"
    BY DEF Chain
  <2>1. CASE i <= Len(p)
    <3>1. i \in 1..Len(p)
      BY <1>1, <2>1
    <3>2. /\ CallOK(p[i])
          /\ i > 1 /\ p[i].f \in Locking => <<p[i - 1].f, p[i].f>> \in Leads
          /\ p[i].f \in {"confirm", "auto"} => i < Len(p) /\ p[i + 1].f \in Locking
          /\ p[i].f = "source" => i + 2 <= Len(p) /\ p[i + 1].f = "auto" /\ p[i + 2].f = "target"
      BY <3>1 DEF Chain
    <3>3. i < Len(p) => i < Len(s) /\ s[i + 1] = p[i + 1]
      BY <1>1, <1>2
    <3>4. i + 2 <= Len(p) => i < Len(p) /\ i + 2 <= Len(s) /\ s[i + 2] = p[i + 2]
      BY <1>1, <1>2
    <3>5. i > 1 => s[i - 1] = p[i - 1]
      BY <1>1, <1>2, <2>1
    <3>6. s[i] = p[i]
      BY <1>2, <2>1
    <3> QED
      BY <3>2, <3>3, <3>4, <3>5, <3>6
  <2>2. CASE i > Len(p)
    <3> DEFINE k == i - Len(p)
    <3>1. k \in 1..Len(r) /\ i = Len(p) + k
      BY <1>1, <2>2
    <3> HIDE DEF k
    <3>2. /\ CallOK(r[k])
          /\ k > 1 /\ r[k].f \in Locking => <<r[k - 1].f, r[k].f>> \in Leads
          /\ r[k].f \in {"confirm", "auto"} => k < Len(r) /\ r[k + 1].f \in Locking
          /\ r[k].f = "source" => k + 2 <= Len(r) /\ r[k + 1].f = "auto" /\ r[k + 2].f = "target"
      BY <3>1 DEF Chain
    <3>3. s[i] = r[k]
      BY <3>1, <1>3
    <3>4. k > 1 => s[i - 1] = r[k - 1]
      <4>1. k > 1 => k - 1 \in 1..Len(r) /\ i - 1 = Len(p) + (k - 1)
        BY <1>1, <3>1
      <4> QED
        BY <4>1, <1>3
    <3>5. k < Len(r) => i < Len(s) /\ s[i + 1] = r[k + 1]
      <4>1. k < Len(r) => k + 1 \in 1..Len(r) /\ i + 1 = Len(p) + (k + 1) /\ i < Len(s)
        BY <1>1, <3>1
      <4> QED
        BY <4>1, <1>3
    <3>6. k + 2 <= Len(r) => k < Len(r) /\ i + 2 <= Len(s) /\ s[i + 2] = r[k + 2]
      <4>1. k + 2 <= Len(r) => /\ k + 2 \in 1..Len(r) /\ i + 2 = Len(p) + (k + 2)
                              /\ k < Len(r) /\ i + 2 <= Len(s)
        BY <1>1, <3>1
      <4> QED
        BY <4>1, <1>3
    <3>7. k = 1 => s[i].f \notin Locking
      BY <3>1, <3>3, <1>5
    <3>8. i > 1 /\ s[i].f \in Locking => <<s[i - 1].f, s[i].f>> \in Leads
      <4>1. CASE k = 1
        BY <4>1, <3>7
      <4>2. CASE k > 1
        BY <4>2, <3>2, <3>3, <3>4
      <4> QED
        BY <4>1, <4>2, <3>1
    <3> QED
      BY <3>2, <3>3, <3>5, <3>6, <3>8
  <2> QED
    BY <1>1, <2>1, <2>2
<1> QED
  BY <1>1, <1>4, <1>6 DEF s

-----------------------------------------------------------------------------
(* What a step does to the plan of its actor *)

Moved(x) ==
  \E r \in Action :
    /\ act' = [act EXCEPT ![x] = r] /\ PlanOK(r)
    /\ r.lock => act[x].lock \/ Free

(* The step leaves the calls behind the first one in the plan. *)
Passes(x) ==
  /\ Moved(x)
  /\ Within(Later(x), act'[x].plan)

ActInv == act \in [Actors -> Action] /\ PlanInv

LEMMA ActTypes == Inv => ActInv /\ \A x \in Actors : act[x] \in Action
BY DEF Inv, ActInv, TypeOK, Action

LEMMA MovedInv ==
  ASSUME Inv, NEW x \in Actors, Moved(x), world' = world
  PROVE  ActInv' /\ (\A y \in Actors : act[y].lock => act[y].plan # <<>>)'
<1>1. Actors' = Actors /\ Action' = Action /\ Ids' = Ids /\ Calls' = Calls
  BY DEF Action, Calls, Ids
<1>2. PICK r \in Action :
        /\ act' = [act EXCEPT ![x] = r] /\ PlanOK(r)
        /\ r.lock => act[x].lock \/ Free
  BY DEF Moved
<1>3. act \in [Actors -> Action] /\ PlanInv
  BY ActTypes DEF ActInv
<1>4. act' \in [Actors -> Action] /\ act'[x] = r /\ \A y \in Actors \ {x} : act'[y] = act[y]
  BY <1>2, <1>3
<1>5. ASSUME NEW y \in Actors PROVE PlanOK(act'[y])
  BY <1>2, <1>3, <1>4 DEF PlanInv
<1>6. \A c : CallOK(c)' <=> CallOK(c)
  BY <1>1 DEF CallOK
<1>7. \A y \in Actors : PlanOK(act[y])'
  <2>1. \A p : Chain(p)' <=> Chain(p)
    BY <1>6 DEF Chain
  <2>2. \A y \in Actors : PlanOK(act[y])' <=> PlanOK(act'[y])
    BY <2>1 DEF PlanOK, Locked
  <2> QED
    BY <1>1, <1>5, <2>2
<1>8. \A y \in Actors : act'[y].lock => act'[y].plan # <<>>
  BY <1>5 DEF PlanOK, Locked
<1>9. \A y \in Actors \ {x} : act[y].lock => ~act'[x].lock
  <2> SUFFICES ASSUME NEW y \in Actors \ {x}, act[y].lock PROVE ~act'[x].lock
    OBVIOUS
  <2>1. ~Free
    BY DEF Free
  <2>2. ~act[x].lock
    BY <1>3 DEF PlanInv, Actors
  <2> QED
    BY <1>2, <1>4, <2>1, <2>2
<1>10. ~(act'["worker"].lock /\ act'["web"].lock)
  <2>1. CASE x = "worker"
    BY <1>4, <1>9, <2>1 DEF Actors
  <2>2. CASE x = "web"
    BY <1>4, <1>9, <2>2 DEF Actors
  <2> QED
    BY <2>1, <2>2 DEF Actors
<1> QED
  BY <1>1, <1>4, <1>7, <1>8, <1>10 DEF ActInv, PlanInv

(* The call an actor has come to. *)
LEMMA TopOK ==
  ASSUME Inv, NEW x \in Actors, Top(x).f # ""
  PROVE  /\ act[x] \in Action /\ act[x].plan # <<>> /\ Top(x) = Head(act[x].plan)
         /\ Top(x) \in Calls /\ CallOK(Top(x))
         /\ Later(x) \in Seq(Calls) /\ Chain(Later(x))
         /\ act[x].lock <=> Top(x).f \in Locking
         /\ Locked(Later(x)) => <<Top(x).f, Head(Later(x)).f>> \in Leads
         /\ Top(x).f \in {"confirm", "auto"} => Locked(Later(x))
         /\ Top(x).f = "source" =>
              /\ Locked(Later(x)) /\ Tail(Later(x)) # <<>>
              /\ Head(Tail(Later(x))).f = "target"
<1> DEFINE p == act[x].plan
<1>1. act[x] \in Action /\ PlanOK(act[x])
  BY ActTypes DEF ActInv, PlanInv
<1>2. p # <<>> /\ Top(x) = Head(p) /\ Later(x) = Tail(p)
  BY DEF Top, Call, Later
<1>4. (act[x].lock <=> Top(x).f \in Locking)
  BY <1>1, <1>2 DEF PlanOK, Locked
<1> HIDE DEF p
<1>5. p \in Seq(Calls) /\ Chain(p)
  BY <1>1 DEF Action, PlanOK, p
<1>6. /\ Tail(p) \in Seq(Calls) /\ Chain(Tail(p)) /\ CallOK(Head(p)) /\ Head(p) \in Calls
      /\ Locked(Tail(p)) => <<Head(p).f, Head(Tail(p)).f>> \in Leads
      /\ Head(p).f \in {"confirm", "auto"} => Locked(Tail(p))
      /\ Head(p).f = "source" =>
           /\ Locked(Tail(p)) /\ Tail(Tail(p)) # <<>>
           /\ Head(Tail(Tail(p))).f = "target"
  BY <1>2, <1>5, ChainTail
<1> QED
  BY <1>1, <1>2, <1>4, <1>6 DEF p

LEMMA OpenTop ==
  ASSUME Inv, NEW x \in Actors, Top(x).f # "", Top(x).f \notin Locking \ {"rank", "target"}
  PROVE  ~Locked(Later(x)) /\ Later(x) \in Seq(Calls) /\ Chain(Later(x))
BY TopOK DEF Leads, Locking

LEMMA IdleType == Idle \in Action
<1>1. <<>> \in Seq(Calls)
  OBVIOUS
<1> QED
  BY <1>1 DEF Idle, Action, Classes

LEMMA Returned ==
  ASSUME Inv, NEW x \in Actors, NEW p, NEW lock, Returns(x, p, lock)
  PROVE  act'[x].plan = p /\ act'[x].lock = lock /\ act'[x].class = "unknown"
<1> DEFINE r == [Idle EXCEPT !.plan = p, !.lock = lock]
<1>1. act \in [Actors -> Action]
  BY ActTypes DEF ActInv
<1>2. act' = [act EXCEPT ![x] = r]
  BY DEF Returns
<1>3. r.plan = p /\ r.lock = lock /\ r.class = "unknown"
  BY DEF Idle
<1> HIDE DEF r
<1> QED
  BY <1>1, <1>2, <1>3

LEMMA ReturnsFree ==
  ASSUME Inv, NEW x \in Actors, NEW p \in Seq(Calls), Chain(p), ~Locked(p), Returns(x, p, FALSE)
  PROVE  Moved(x)
<1> DEFINE r == [Idle EXCEPT !.plan = p, !.lock = FALSE]
<1>1. r \in Action /\ r.plan = p /\ r.lock = FALSE
  BY IdleType DEF Action
<1>2. act' = [act EXCEPT ![x] = r]
  BY DEF Returns
<1>3. PlanOK(r)
  BY <1>1 DEF PlanOK
<1> QED
  BY <1>1, <1>2, <1>3 DEF Moved

LEMMA ReturnsLocked ==
  ASSUME Inv, NEW x \in Actors, NEW p \in Seq(Calls), Chain(p), Locked(p), Returns(x, p, TRUE),
         Free \/ act[x].lock
  PROVE  Moved(x)
<1> DEFINE r == [Idle EXCEPT !.plan = p, !.lock = TRUE]
<1>1. r \in Action /\ r.plan = p /\ r.lock = TRUE
  BY IdleType DEF Action
<1>2. act' = [act EXCEPT ![x] = r]
  BY DEF Returns
<1>3. PlanOK(r)
  BY <1>1 DEF PlanOK
<1> QED
  BY <1>1, <1>2, <1>3 DEF Moved

(* A call made without the lock goes on to others that start without it. *)
LEMMA DoOpen ==
  ASSUME Inv, NEW x \in Actors, Top(x).f # "", Top(x).f \notin Locking,
         NEW p \in Seq(Calls), Chain(p), ~Locked(p), Do(x, p)
  PROVE  Passes(x)
<1> DEFINE s == p \o Later(x)
<1>1. s \in Seq(Calls) /\ Chain(s) /\ ~Locked(s)
  BY OpenTop, ChainJoin
<1>2. act[x].lock = FALSE
  BY TopOK DEF Action
<1>3. Returns(x, s, FALSE)
  BY <1>2 DEF Do
<1>4. act'[x].plan = s
  BY <1>3, Returned
<1>5. Later(x) \in Seq(Calls)
  BY TopOK
<1>6. Within(Later(x), s)
  BY <1>5, JoinKeeps
<1>7. Moved(x)
  BY <1>1, <1>3, ReturnsFree
<1> QED
  BY <1>4, <1>6, <1>7 DEF Passes

(* A call takes the lock. *)
LEMMA DoLocked ==
  ASSUME Inv, NEW x \in Actors, Top(x).f # "", Top(x).f \notin Locking, Free,
         NEW p \in Seq(Calls), Chain(p), Locked(p), Returns(x, p \o Later(x), TRUE)
  PROVE  Moved(x)
<1>1. p \o Later(x) \in Seq(Calls) /\ Chain(p \o Later(x)) /\ Locked(p \o Later(x))
  BY OpenTop, ChainJoin
<1> QED
  BY <1>1, ReturnsLocked

LEMMA NoCalls == <<>> \in Seq(Calls) /\ Chain(<<>>) /\ ~Locked(<<>>)
BY EmptySeq DEF Chain, Locked

LEMMA DoneOpen ==
  ASSUME Inv, NEW x \in Actors, Top(x).f # "", Top(x).f \notin Locking, Done(x)
  PROVE  Passes(x)
BY NoCalls, DoOpen DEF Done

(* A call that answers the next one. *)
LEMMA GotMoved ==
  ASSUME Inv, NEW x \in Actors, Top(x).f # "", NEW class \in Classes,
         NEW backoff \in BOOLEAN, NEW lock \in BOOLEAN, Got(x, class, backoff, lock),
         lock <=> Locked(Later(x)), lock => act[x].lock
  PROVE  Moved(x)
<1>1. Later(x) \in Seq(Calls) /\ Chain(Later(x))
  BY TopOK
<1>2. CASE Later(x) = <<>>
  <2>1. Returns(x, <<>>, FALSE)
    BY <1>2 DEF Got
  <2> QED
    BY <2>1, NoCalls, ReturnsFree
<1>3. CASE Later(x) # <<>>
  <2> DEFINE r == [plan |-> Later(x), lock |-> lock, class |-> class, backoff |-> backoff]
  <2>1. r \in Action /\ r.plan = Later(x)
    BY <1>1 DEF Action
  <2>2. act' = [act EXCEPT ![x] = r]
    BY <1>3 DEF Got
  <2>3. PlanOK(r)
    BY <1>1 DEF PlanOK
  <2> QED
    BY <2>1, <2>2, <2>3 DEF Moved
<1> QED
  BY <1>2, <1>3

-----------------------------------------------------------------------------
(* The calls themselves *)

Names ==
  { "keepalive", "renew", "local", "current", "current!", "parked", "parked!", "recovered", "judge",
    "limit", "limited", "reset", "expiring", "pick", "rank", "queue", "set", "apply", "source",
    "target", "ask", "wait", "auto", "confirm" }

LEMMA CallType ==
  ASSUME NEW f \in Names
  PROVE  /\ Call(f) \in Calls /\ Call(f).f = f /\ Call(f).id = 0 /\ Call(f).from = 0
         /\ Call(f).ids = {}
<1>1. {} \in SUBSET Ids
  OBVIOUS
<1> QED
  BY <1>1 DEF Call, Calls, Names

LEMMA WithType ==
  ASSUME NEW f \in Names, NEW id \in Ids
  PROVE  /\ With(f, id) \in Calls /\ With(f, id).f = f /\ With(f, id).id = id
         /\ With(f, id).from = 0
<1>1. Call(f) \in Calls /\ Call(f).f = f /\ Call(f).from = 0
  BY CallType
<1> QED
  BY <1>1 DEF With, Calls

LEMMA AskType ==
  ASSUME NEW id \in Ids, NEW gate \in BOOLEAN
  PROVE  Ask(id, gate) \in Calls /\ Ask(id, gate).f = "ask" /\ Ask(id, gate).id = id
<1>1. Call("ask") \in Calls /\ Call("ask").f = "ask"
  BY CallType DEF Names
<1> QED
  BY <1>1 DEF Ask, Calls

LEMMA One ==
  ASSUME NEW c \in Calls, CallOK(c), c.f \notin {"confirm", "auto", "source"}
  PROVE  <<c>> \in Seq(Calls) /\ Chain(<<c>>) /\ (Locked(<<c>>) <=> c.f \in Locking)
<1>1. <<c>> \in Seq(Calls) /\ Len(<<c>>) = 1 /\ <<c>>[1] = c /\ <<c>> # <<>> /\ Head(<<c>>) = c
  OBVIOUS
<1>2. Chain(<<c>>)
  BY <1>1 DEF Chain
<1> QED
  BY <1>1, <1>2 DEF Locked

LEMMA Two ==
  ASSUME NEW c \in Calls, NEW d \in Calls, CallOK(c), CallOK(d), c.f \notin Locking, d.f \notin Locking
  PROVE  /\ <<c, d>> \in Seq(Calls) /\ Chain(<<c, d>>) /\ ~Locked(<<c, d>>)
<1>1. <<c, d>> = <<c>> \o <<d>>
  <2>1. /\ <<c>> \in Seq(Calls) /\ <<d>> \in Seq(Calls) /\ Len(<<c>>) = 1 /\ Len(<<d>>) = 1
        /\ <<c, d>> \in Seq(Calls) /\ Len(<<c, d>>) = 2
    OBVIOUS
  <2>2. <<c>> \o <<d>> \in Seq(Calls) /\ Len(<<c>> \o <<d>>) = 2
    BY <2>1, ConcatProperties
  <2>3. (<<c>> \o <<d>>)[1] = c /\ (<<c>> \o <<d>>)[2] = d
    OBVIOUS
  <2>4. \A i \in 1..2 : <<c, d>>[i] = (<<c>> \o <<d>>)[i]
    BY <2>3
  <2> QED
    BY <2>1, <2>2, <2>4, SeqEqual
<1>2. /\ <<c>> \in Seq(Calls) /\ Chain(<<c>>) /\ ~Locked(<<c>>)
      /\ <<d>> \in Seq(Calls) /\ Chain(<<d>>) /\ ~Locked(<<d>>)
  BY One DEF Locking
<1> DEFINE e == <<c>>  f == <<d>>
<1>3. <<c, d>> = e \o f /\ e \in Seq(Calls) /\ Chain(e) /\ ~Locked(e)
      /\ f \in Seq(Calls) /\ Chain(f) /\ ~Locked(f)
  BY <1>1, <1>2
<1> HIDE DEF e, f
<1>4. e \o f \in Seq(Calls) /\ Chain(e \o f) /\ ~Locked(e \o f)
  BY <1>3, ChainJoin
<1> QED
  BY <1>3, <1>4

(* The request of an automatic quota check and what uses it. *)
LEMMA AskThen ==
  ASSUME NEW a \in Ids, NEW r \in Seq(Calls), Chain(r), r # <<>>,
         Head(r).f \in {"rank", "source", "target"}
  PROVE  /\ Requests(a) \o r \in Seq(Calls) /\ Chain(Requests(a) \o r)
         /\ Locked(Requests(a) \o r)
<1> DEFINE w == With("wait", a)
           c == With("confirm", a)
           s == Requests(a) \o r
<1>1. w \in Calls /\ w.f = "wait" /\ w.id = a /\ c \in Calls /\ c.f = "confirm" /\ c.id = a
  BY WithType DEF Names
<1> HIDE DEF w, c
<1>2. /\ <<w, c>> \in Seq(Calls) /\ Len(<<w, c>>) = 2
      /\ s \in Seq(Calls) /\ Len(s) = 2 + Len(r) /\ Len(r) \in Nat /\ Len(r) > 0 /\ Head(r) = r[1]
      /\ s[1] = w /\ s[2] = c /\ s # <<>> /\ Head(s) = w
      /\ \A i \in 1..Len(r) : s[i + 2] = r[i]
  <2>1. s = <<w, c>> \o r /\ <<w, c>> \in Seq(Calls) /\ Len(<<w, c>>) = 2
    BY <1>1 DEF Requests, w, c
  <2> QED
    BY <2>1, <1>1, Joined, Tails
<1> HIDE DEF s
<1>3. CallOK(w) /\ CallOK(c)
  BY <1>1 DEF CallOK
<1>4. Chain(s)
  <2> SUFFICES ASSUME NEW i \in 1..Len(s) PROVE
        /\ CallOK(s[i])
        /\ i > 1 /\ s[i].f \in Locking => <<s[i - 1].f, s[i].f>> \in Leads
        /\ s[i].f \in {"confirm", "auto"} => i < Len(s) /\ s[i + 1].f \in Locking
        /\ s[i].f = "source" => i + 2 <= Len(s) /\ s[i + 1].f = "auto" /\ s[i + 2].f = "target"
    BY DEF Chain
  <2>1. CASE i = 1
    BY <2>1, <1>1, <1>2, <1>3
  <2>2. CASE i = 2
    <3>1. s[i + 1] = r[1] /\ s[i - 1] = w /\ s[i] = c
      BY <2>2, <1>2
    <3>2. r[1].f \in Locking
      BY <1>2 DEF Locking
    <3> QED
      BY <2>2, <1>1, <1>2, <1>3, <3>1, <3>2 DEF Leads
  <2>3. CASE i > 2
    <3> DEFINE k == i - 2
    <3>1. k \in 1..Len(r) /\ i = k + 2 /\ (k = 1 \/ k > 1)
      BY <1>2, <2>3
    <3> HIDE DEF k
    <3>2. /\ CallOK(r[k])
          /\ k > 1 /\ r[k].f \in Locking => <<r[k - 1].f, r[k].f>> \in Leads
          /\ r[k].f \in {"confirm", "auto"} => k < Len(r) /\ r[k + 1].f \in Locking
          /\ r[k].f = "source" => k + 2 <= Len(r) /\ r[k + 1].f = "auto" /\ r[k + 2].f = "target"
      BY <3>1 DEF Chain
    <3>3. s[i] = r[k]
      BY <3>1, <1>2
    <3>4. k > 1 => s[i - 1] = r[k - 1]
      <4>1. k > 1 => k - 1 \in 1..Len(r) /\ i - 1 = (k - 1) + 2
        BY <1>2, <3>1
      <4> QED
        BY <4>1, <1>2
    <3>5. k < Len(r) => i < Len(s) /\ s[i + 1] = r[k + 1]
      <4>1. k < Len(r) => k + 1 \in 1..Len(r) /\ i + 1 = (k + 1) + 2 /\ i < Len(s)
        BY <1>2, <3>1
      <4> QED
        BY <4>1, <1>2
    <3>6. k + 2 <= Len(r) => k < Len(r) /\ i + 2 <= Len(s) /\ s[i + 2] = r[k + 2]
      <4>1. k + 2 <= Len(r) => /\ k + 2 \in 1..Len(r) /\ i + 2 = (k + 2) + 2
                              /\ k < Len(r) /\ i + 2 <= Len(s)
        BY <1>2, <3>1
      <4> QED
        BY <4>1, <1>2
    <3>7. CASE k = 1
      <4>1. s[i - 1] = c /\ s[i] = Head(r)
        BY <1>2, <3>1, <3>3, <3>7
      <4> QED
        BY <4>1, <1>1, <3>2, <3>3, <3>5, <3>6 DEF Leads
    <3>8. CASE k > 1
      BY <3>8, <3>2, <3>3, <3>4, <3>5, <3>6
    <3> QED
      BY <3>1, <3>7, <3>8
  <2> QED
    BY <1>2, <2>1, <2>2, <2>3
<1>5. Locked(s)
  BY <1>1, <1>2 DEF Locked, Locking
<1> QED
  BY <1>2, <1>4, <1>5 DEF s
-----------------------------------------------------------------------------
(* Requests and answers leave a plan *)

LEMMA MinIn == ASSUME NEW S \in SUBSET (1..3), S # {} PROVE Min(S) \in S
<1>1. \E m \in S : \A y \in S : m <= y
  <2>1. \A y \in S : y = 1 \/ y = 2 \/ y = 3
    OBVIOUS
  <2>2. CASE 1 \in S
    <3>1. \A y \in S : 1 <= y
      BY <2>1
    <3> QED
      BY <2>2, <3>1
  <2>3. CASE 1 \notin S /\ 2 \in S
    <3>1. \A y \in S : 2 <= y
      BY <2>1, <2>3
    <3> QED
      BY <2>3, <3>1
  <2>4. CASE 1 \notin S /\ 2 \notin S
    <3>1. \A y \in S : y = 3
      BY <2>1, <2>4
    <3>2. PICK m \in S : m = 3
      BY <3>1
    <3>3. \A y \in S : m <= y
      BY <3>1, <3>2
    <3> QED
      BY <3>3
  <2> QED
    BY <2>2, <2>3, <2>4
<1> QED
  BY <1>1, Zenon DEF Min

LEMMA Accounts == Ids \subseteq 1..3 /\ 1 \in Ids /\ Ids \subseteq Nat \ {0}
BY DEF Ids

LEMMA RowTypes ==
  ASSUME Inv, NEW a \in Ids
  PROVE  q[a] \in Account /\ q[a].class \in Classes
BY DEF Inv, TypeOK, Account

LEMMA ProbeMoves == ASSUME Inv, NEW x \in Actors, Probe(x) PROVE Moved(x)
<1> DEFINE a == Top(x).id
<1>1. Top(x).f = "ask" /\ Free
  BY DEF Probe, At
<1>2. a \in Ids /\ ~Locked(Later(x))
  BY <1>1, TopOK, OpenTop DEF CallOK, Locking
<1>3. q[a].class \in Classes /\ "unknown" \in Classes
  BY <1>2, RowTypes DEF Classes
<1>4. \/ Got(x, q[a].class, TRUE, FALSE)
      \/ Got(x, "unknown", FALSE, FALSE)
      \/ Got(x, q[a].class, FALSE, FALSE)
      \/ Returns(x, <<With("wait", a)>> \o Later(x), TRUE)
  BY DEF Probe
<1>5. /\ <<With("wait", a)>> \in Seq(Calls) /\ Chain(<<With("wait", a)>>)
      /\ Locked(<<With("wait", a)>>)
  <2>1. With("wait", a) \in Calls /\ With("wait", a).f = "wait" /\ CallOK(With("wait", a))
    BY <1>2, WithType DEF Names, CallOK
  <2> QED
    BY <2>1, One DEF Locking
<1>6. ASSUME NEW class \in Classes, NEW b \in BOOLEAN, Got(x, class, b, FALSE) PROVE Moved(x)
  BY <1>1, <1>2, <1>6, GotMoved
<1>7. CASE Returns(x, <<With("wait", a)>> \o Later(x), TRUE)
  BY <1>1, <1>5, <1>7, DoLocked DEF Locking
<1> HIDE DEF a
<1> QED
  BY <1>3, <1>4, <1>6, <1>7

LEMMA QuotaTypes ==
  ASSUME Inv, NEW a \in Ids
  PROVE  automaticQuota(a) \in Classes \cup {"ask"}
BY RowTypes DEF automaticQuota, Classes

LEMMA ProbeAutoMoves == ASSUME Inv, NEW x \in Actors, ProbeAuto(x) PROVE Moved(x)
<1> DEFINE a == Top(x).id
<1>1. Top(x).f = "auto"
  BY DEF ProbeAuto, At
<1>2. /\ a \in Ids /\ Locked(Later(x)) /\ Later(x) \in Seq(Calls) /\ Chain(Later(x))
      /\ Later(x) # <<>> /\ Head(Later(x)).f \in {"rank", "source", "target"}
      /\ act[x].lock = TRUE
  BY <1>1, TopOK DEF CallOK, Locking, Leads, Locked, Action
<1>3. CASE automaticQuota(a) = "ask"
  <2>1. Returns(x, Requests(a) \o Later(x), TRUE)
    BY <1>2, <1>3 DEF ProbeAuto, Do
  <2>2. /\ Requests(a) \o Later(x) \in Seq(Calls) /\ Chain(Requests(a) \o Later(x))
        /\ Locked(Requests(a) \o Later(x))
    BY <1>2, AskThen
  <2> QED
    BY <1>2, <2>1, <2>2, ReturnsLocked
<1>4. CASE automaticQuota(a) # "ask"
  <2>1. Got(x, automaticQuota(a), FALSE, TRUE) /\ automaticQuota(a) \in Classes
    BY <1>2, <1>4, QuotaTypes DEF ProbeAuto
  <2> QED
    BY <1>1, <1>2, <2>1, GotMoved
<1> QED
  BY <1>3, <1>4

LEMMA ConfirmMoves == ASSUME Inv, NEW x \in Actors, Confirm(x) PROVE Moved(x)
<1>1. Top(x).f = "confirm"
  BY DEF Confirm, At
<1>2. Locked(Later(x)) /\ act[x].lock = TRUE /\ act[x].class \in Classes
  BY <1>1, TopOK DEF Locking, Action
<1>3. Got(x, act[x].class, FALSE, TRUE) \/ Got(x, "unknown", FALSE, TRUE)
  BY <1>2 DEF Confirm
<1>4. "unknown" \in Classes
  BY DEF Classes
<1>5. ASSUME NEW class \in Classes, Got(x, class, FALSE, TRUE) PROVE Moved(x)
  BY <1>1, <1>2, <1>5, GotMoved
<1> QED
  BY <1>2, <1>3, <1>4, <1>5

LEMMA KeepsLock ==
  ASSUME Inv, NEW x \in Actors, At(x, "wait")
  PROVE  (Keeps(x) <=> Locked(Later(x))) /\ act[x].lock = TRUE /\ Top(x).id \in Ids
<1> DEFINE p == act[x].plan
<1>1. Top(x).f = "wait"
  BY DEF At
<1>2. /\ act[x] \in Action /\ p \in Seq(Calls) /\ p # <<>> /\ act[x].lock = TRUE
      /\ Top(x).id \in Ids /\ Later(x) = Tail(p)
      /\ Locked(Later(x)) => Head(Later(x)).f = "confirm"
  BY <1>1, TopOK DEF Locking, Action, CallOK, Leads, Later
<1>3. Tail(p) # <<>> <=> Len(p) > 1
  BY <1>2, Tails
<1>4. Len(p) > 1 => Head(Tail(p)) = p[2]
  <2>1. Len(p) \in Nat \ {0} /\ Len(Tail(p)) = Len(p) - 1 /\ Tail(p) \in Seq(Calls)
        /\ \A i \in 1..Len(Tail(p)) : Tail(p)[i] = p[i + 1]
    BY <1>2, Tails
  <2>2. Tail(p) # <<>> => Head(Tail(p)) = Tail(p)[1]
    BY <2>1, Tails
  <2> QED
    BY <1>3, <2>1, <2>2
<1> QED
  BY <1>2, <1>3, <1>4 DEF Keeps, Locked, Locking

LEMMA StoreMoves ==
  ASSUME Inv, NEW x \in Actors, At(x, "wait"), NEW class \in Classes, NEW row,
         Store(x, row, class)
  PROVE  Moved(x)
<1>1. Got(x, class, FALSE, Keeps(x))
  BY DEF Store
<1>2. (Keeps(x) <=> Locked(Later(x))) /\ act[x].lock = TRUE /\ Top(x).f # ""
  BY KeepsLock DEF At
<1>5. Keeps(x) \in BOOLEAN
  BY DEF Keeps
<1>3. CASE Keeps(x)
  <2>1. Got(x, class, FALSE, TRUE)
    BY <1>1, <1>3, <1>5 DEF Got
  <2> QED
    BY <1>2, <1>3, <2>1, GotMoved
<1>4. CASE ~Keeps(x)
  <2>1. Got(x, class, FALSE, FALSE)
    BY <1>1, <1>4, <1>5 DEF Got
  <2> QED
    BY <1>2, <1>4, <2>1, GotMoved
<1> QED
  BY <1>3, <1>4
-----------------------------------------------------------------------------
(* So do probing, *)

LEMMA Judged ==
  ASSUME Inv, NEW a \in Ids, NEW gate \in BOOLEAN
  PROVE  /\ <<Ask(a, gate), With("judge", a)>> \in Seq(Calls)
         /\ Chain(<<Ask(a, gate), With("judge", a)>>)
         /\ ~Locked(<<Ask(a, gate), With("judge", a)>>)
<1>1. /\ Ask(a, gate) \in Calls /\ Ask(a, gate).f = "ask" /\ Ask(a, gate).id = a
      /\ With("judge", a) \in Calls /\ With("judge", a).f = "judge" /\ With("judge", a).id = a
  BY AskType, WithType DEF Names
<1>2. CallOK(Ask(a, gate)) /\ CallOK(With("judge", a))
  BY <1>1 DEF CallOK
<1>3. Ask(a, gate).f \notin Locking /\ With("judge", a).f \notin Locking
  BY <1>1 DEF Locking
<1> HIDE DEF Ask, With
<1> QED
  BY <1>1, <1>2, <1>3, Two

LEMMA PointerType == ASSUME Inv PROVE pointer \in Ids
BY DEF Inv, TypeOK

LEMMA ConsiderChain ==
  ASSUME Inv
  PROVE  Consider \in Seq(Calls) /\ Chain(Consider) /\ ~Locked(Consider)
<1> DEFINE c == [ Call("pick") EXCEPT !.from = pointer,
                    !.ids = {a \in Ids \ {pointer} : q[a].cooling = 0} ]
<1>1. Call("pick") \in Calls /\ Call("pick").f = "pick"
  BY CallType DEF Names
<1>2. {a \in Ids \ {pointer} : q[a].cooling = 0} \in SUBSET Ids
  OBVIOUS
<1>3. c \in Calls /\ c.f = "pick" /\ c.from = pointer
  BY <1>1, <1>2, PointerType DEF Calls
<1> HIDE DEF c
<1>4. CallOK(c)
  BY <1>3, PointerType DEF CallOK
<1>5. <<c>> \in Seq(Calls) /\ Chain(<<c>>) /\ ~Locked(<<c>>)
  BY <1>3, <1>4, One DEF Locking
<1>6. Consider = IF ~auto THEN <<>> ELSE <<c>>
  BY DEF Consider, c
<1> QED
  BY <1>5, <1>6, NoCalls

LEMMA ProbeLocalMoves == ASSUME Inv, NEW x \in Actors, ProbeLocal(x) PROVE Passes(x)
<1>1. Top(x).f = "local"
  BY DEF ProbeLocal, At
<1>2. Do(x, Consider) \/ Done(x)
  BY DEF ProbeLocal
<1> QED
  BY <1>1, <1>2, ConsiderChain, DoOpen, DoneOpen DEF Locking

LEMMA ProbeHTTPMoves == ASSUME Inv, NEW x \in Actors, ProbeHTTP(x) PROVE Passes(x)
<1>1. Top(x).f \in {"current", "current!"}
  BY DEF ProbeHTTP, At
<1>2. \/ Do(x, <<Ask(pointer, TRUE), With("judge", pointer)>>)
      \/ Do(x, <<Ask(pointer, FALSE), With("judge", pointer)>>)
      \/ Do(x, Consider) \/ Do(x, <<>>)
  BY DEF ProbeHTTP
<1>3. Top(x).f # "" /\ Top(x).f \notin Locking
  BY <1>1 DEF Locking
<1>4. ASSUME Do(x, <<Ask(pointer, TRUE), With("judge", pointer)>>) PROVE Passes(x)
  BY <1>3, <1>4, PointerType, Judged, DoOpen
<1>5. ASSUME Do(x, <<Ask(pointer, FALSE), With("judge", pointer)>>) PROVE Passes(x)
  BY <1>3, <1>5, PointerType, Judged, DoOpen
<1> QED
  BY <1>2, <1>3, <1>4, <1>5, ConsiderChain, NoCalls, DoOpen

LEMMA JudgeMoves == ASSUME Inv, NEW x \in Actors, Judge(x) PROVE Passes(x)
<1>1. Top(x).f = "judge"
  BY DEF Judge, At
<1>2. Do(x, Consider) \/ Do(x, <<>>)
  BY DEF Judge
<1> QED
  BY <1>1, <1>2, ConsiderChain, NoCalls, DoOpen DEF Locking

LEMMA ProbeLimitHitMoves == ASSUME Inv, NEW x \in Actors, ProbeLimitHit(x) PROVE Passes(x)
<1>1. Top(x).f \in {"limit", "limited"}
  BY DEF ProbeLimitHit, At
<1>2. Do(x, Consider) \/ Do(x, <<>>) \/ Do(x, <<Ask(pointer, FALSE), Call("limited")>>)
  BY DEF ProbeLimitHit
<1>3. Top(x).f # "" /\ Top(x).f \notin Locking
  BY <1>1 DEF Locking
<1>4. /\ Ask(pointer, FALSE) \in Calls /\ Ask(pointer, FALSE).f = "ask"
      /\ Ask(pointer, FALSE).id = pointer
      /\ Call("limited") \in Calls /\ Call("limited").f = "limited"
  BY PointerType, AskType, CallType DEF Names
<1>5. /\ CallOK(Ask(pointer, FALSE)) /\ CallOK(Call("limited"))
      /\ Ask(pointer, FALSE).f \notin Locking /\ Call("limited").f \notin Locking
  BY <1>4, PointerType DEF CallOK, Locking
<1>6. /\ <<Ask(pointer, FALSE), Call("limited")>> \in Seq(Calls)
      /\ Chain(<<Ask(pointer, FALSE), Call("limited")>>)
      /\ ~Locked(<<Ask(pointer, FALSE), Call("limited")>>)
  BY <1>4, <1>5, Two
<1> QED
  BY <1>2, <1>3, <1>6, ConsiderChain, NoCalls, DoOpen

LEMMA RecoveredMoves == ASSUME Inv, NEW x \in Actors, Recovered(x) PROVE Passes(x)
<1>1. Top(x).f = "recovered"
  BY DEF Recovered, At
<1>2. Do(x, Consider) \/ Do(x, <<>>) \/ Done(x)
  BY DEF Recovered
<1> QED
  BY <1>1, <1>2, ConsiderChain, NoCalls, DoOpen, DoneOpen DEF Locking

LEMMA ProbeResetMoves == ASSUME Inv, NEW x \in Actors, ProbeReset(x) PROVE Passes(x)
<1>1. Top(x).f = "reset"
  BY DEF ProbeReset, At
<1>2. PICK p \in {<<>>, <<Call("current")>>}, r \in {<<>>, <<Call("parked")>>} : Do(x, p \o r)
  BY DEF ProbeReset
<1>3. \A f \in {"current", "parked"} :
        <<Call(f)>> \in Seq(Calls) /\ Chain(<<Call(f)>>) /\ ~Locked(<<Call(f)>>)
  <2> SUFFICES ASSUME NEW f \in {"current", "parked"}
               PROVE  <<Call(f)>> \in Seq(Calls) /\ Chain(<<Call(f)>>) /\ ~Locked(<<Call(f)>>)
    OBVIOUS
  <2>1. Call(f) \in Calls /\ Call(f).f = f
    BY CallType DEF Names
  <2>2. CallOK(Call(f)) /\ Call(f).f \notin Locking
    BY <2>1 DEF CallOK, Locking
  <2> QED
    BY <2>1, <2>2, One DEF Locking
<1>4. /\ p \in Seq(Calls) /\ Chain(p) /\ ~Locked(p)
      /\ r \in Seq(Calls) /\ Chain(r) /\ ~Locked(r)
  BY <1>2, <1>3, NoCalls
<1>5. p \o r \in Seq(Calls) /\ Chain(p \o r) /\ ~Locked(p \o r)
  BY <1>4, ChainJoin
<1> QED
  BY <1>1, <1>2, <1>5, DoOpen DEF Locking
(* The accounts in the order they are asked in: there are at most two. *)
LEMMA AttemptType == ASSUME Inv, NEW a \in Ids PROVE Attempt(a) \in Int
<1>1. q[a].http \in Int /\ q[a].probed \in Int
  BY RowTypes DEF Account, Ages
<1>2. \A x, y \in Int : Min({x, y}) \in {x, y}
  <2> SUFFICES ASSUME NEW x \in Int, NEW y \in Int PROVE Min({x, y}) \in {x, y}
    OBVIOUS
  <2>1. \E m \in {x, y} : \A z \in {x, y} : m <= z
    BY x <= y \/ y <= x
  <2> QED
    BY <2>1, Zenon DEF Min
<1> QED
  BY <1>1, <1>2 DEF Attempt

LEMMA Order ==
  ASSUME Inv, NEW ids \in SUBSET (Ids \ {pointer})
  PROVE  /\ Cardinality(ids) \in 0..2 /\ (ids # {} => Cardinality(ids) >= 1)
         /\ \A i \in 1..Cardinality(ids) : OldestFirst(ids)[i] \in ids
         /\ OldestFirst(ids) = [i \in 1..Cardinality(ids) |-> OldestFirst(ids)[i]]
<1> DEFINE Rank(a) == Cardinality({b \in ids : Sooner(b, a)})
<1>1. pointer \in Ids /\ Ids \subseteq 1..3
  BY PointerType, Accounts
<1>2. \/ ids = {}
      \/ \E a \in Ids : ids = {a}
      \/ \E a, b \in Ids : a # b /\ ids = {a, b}
  <2>1. \A a \in ids : a \in Ids /\ a # pointer /\ (a = 1 \/ a = 2 \/ a = 3)
    BY <1>1
  <2>2. pointer = 1 \/ pointer = 2 \/ pointer = 3
    BY <1>1
  <2>3. CASE pointer = 1
    <3>1. \A a \in ids : a = 2 \/ a = 3
      BY <2>1, <2>3
    <3>2. ids = {} \/ ids = {2} \/ ids = {3} \/ ids = {2, 3}
      BY <3>1
    <3> QED
      BY <3>2, <2>1
  <2>4. CASE pointer = 2
    <3>1. \A a \in ids : a = 1 \/ a = 3
      BY <2>1, <2>4
    <3>2. ids = {} \/ ids = {1} \/ ids = {3} \/ ids = {1, 3}
      BY <3>1
    <3> QED
      BY <3>2, <2>1
  <2>5. CASE pointer = 3
    <3>1. \A a \in ids : a = 1 \/ a = 2
      BY <2>1, <2>5
    <3>2. ids = {} \/ ids = {1} \/ ids = {2} \/ ids = {1, 2}
      BY <3>1
    <3> QED
      BY <3>2, <2>1
  <2> QED
    BY <2>2, <2>3, <2>4, <2>5
<1>3. \A a \in Ids : ~Sooner(a, a)
  BY AttemptType, <1>1 DEF Sooner
<1>4. \A a, b \in Ids : a # b => (Sooner(a, b) <=> ~Sooner(b, a))
  BY AttemptType, <1>1 DEF Sooner
<1>5. ASSUME \A i \in 1..Cardinality(ids) : \E a \in ids : Rank(a) = i - 1
      PROVE  \A i \in 1..Cardinality(ids) : OldestFirst(ids)[i] \in ids
  <2> TAKE i \in 1..Cardinality(ids)
  <2>1. OldestFirst(ids)[i] = CHOOSE a \in ids : Rank(a) = i - 1
    BY DEF OldestFirst
  <2>2. PICK a \in ids : Rank(a) = i - 1
    BY <1>5
  <2> QED
    BY <2>1, <2>2
<1>6. OldestFirst(ids) = [i \in 1..Cardinality(ids) |-> OldestFirst(ids)[i]]
  BY DEF OldestFirst
<1>7. CASE ids = {}
  <2>1. Cardinality(ids) = 0
    BY <1>7, FS_EmptySet
  <2> QED
    BY <1>6, <1>7, <2>1
<1>8. ASSUME NEW a \in Ids, ids = {a}
      PROVE  Cardinality(ids) = 1 /\ \A i \in 1..1 : \E b \in ids : Rank(b) = i - 1
  <2>1. Cardinality(ids) = 1
    BY <1>8, FS_Singleton
  <2>2. {b \in ids : Sooner(b, a)} = {}
    BY <1>3, <1>8
  <2>3. Rank(a) = 0
    BY <2>2, FS_EmptySet
  <2> QED
    BY <1>8, <2>1, <2>3
<1>9. ASSUME NEW a \in Ids, NEW b \in Ids, a # b, ids = {a, b}, Sooner(a, b)
      PROVE  Cardinality(ids) = 2 /\ \A i \in 1..2 : \E c \in ids : Rank(c) = i - 1
  <2>1. Cardinality(ids) = 2
    <3>1. IsFiniteSet({a}) /\ Cardinality({a}) = 1
      BY FS_Singleton
    <3>2. ids = {a} \cup {b} /\ b \notin {a}
      BY <1>9
    <3> QED
      BY <3>1, <3>2, FS_AddElement
  <2>2. {c \in ids : Sooner(c, a)} = {} /\ {c \in ids : Sooner(c, b)} = {a}
    BY <1>3, <1>4, <1>9
  <2>3. Rank(a) = 0 /\ Rank(b) = 1
    BY <2>2, FS_EmptySet, FS_Singleton
  <2> HIDE DEF Rank
  <2> QED
    BY <1>9, <2>1, <2>3
<1>10. CASE \E a \in Ids : ids = {a}
  <2>1. Cardinality(ids) = 1 /\ \A i \in 1..Cardinality(ids) : \E b \in ids : Rank(b) = i - 1
    BY <1>8, <1>10
  <2> HIDE DEF Rank
  <2>2. \A i \in 1..Cardinality(ids) : OldestFirst(ids)[i] \in ids
    BY <1>5, <2>1
  <2> QED
    BY <1>6, <2>1, <2>2
<1>11. CASE \E a, b \in Ids : a # b /\ ids = {a, b}
  <2>1. PICK a \in Ids, b \in Ids : a # b /\ ids = {a, b}
    BY <1>11
  <2>2. ids = {b, a} /\ (Sooner(a, b) \/ Sooner(b, a))
    BY <2>1, <1>4
  <2>3. Cardinality(ids) = 2 /\ \A i \in 1..Cardinality(ids) : \E c \in ids : Rank(c) = i - 1
    BY <1>9, <2>1, <2>2
  <2> HIDE DEF Rank
  <2>4. \A i \in 1..Cardinality(ids) : OldestFirst(ids)[i] \in ids
    BY <1>5, <2>3
  <2> QED
    BY <1>6, <2>3, <2>4
<1> QED
  BY <1>2, <1>7, <1>10, <1>11

LEMMA Flattened ==
  ASSUME NEW S, NEW n \in 0..2, NEW f, f \in [1..n -> Seq(S)]
  PROVE  /\ n = 0 => FlattenSeq(f) = <<>>
         /\ n = 1 => FlattenSeq(f) = f[1]
         /\ n = 2 => FlattenSeq(f) = f[1] \o f[2]
<1> DEFINE flatten[i \in 1..Len(f)] == IF i = 1 THEN f[i] ELSE flatten[i - 1] \o f[i]
<1>1. f \in Seq(Seq(S)) /\ Len(f) = n
  OBVIOUS
<1>2. FlattenSeq(f) = IF Len(f) = 0 THEN f ELSE flatten[Len(f)]
  BY DEF FlattenSeq
<1>3. flatten = [i \in 1..Len(f) |-> IF i = 1 THEN f[i] ELSE flatten[i - 1] \o f[i]]
  <2> DEFINE g == [i \in 1..Len(f) |-> IF i = 1 THEN f[1] ELSE f[1] \o f[2]]
  <2>1. g = [i \in 1..Len(f) |-> IF i = 1 THEN f[i] ELSE g[i - 1] \o f[i]]
    <3>1. \A i \in 1..Len(f) : g[i] = IF i = 1 THEN f[i] ELSE g[i - 1] \o f[i]
      <4> TAKE i \in 1..Len(f)
      <4>1. i = 1 \/ i = 2
        BY <1>1
      <4>2. 1 \in 1..Len(f) /\ g[1] = f[1]
        BY <1>1
      <4> QED
        BY <4>1, <4>2
    <3> QED
      BY <3>1
  <2> HIDE DEF g
  <2>2. \E h : h = [i \in 1..Len(f) |-> IF i = 1 THEN f[i] ELSE h[i - 1] \o f[i]]
    BY <2>1
  <2> QED
    BY <2>2 DEF flatten
<1> HIDE DEF flatten
<1>4. n = 1 => flatten[1] = f[1]
  BY <1>1, <1>3
<1>5. ASSUME n = 2 PROVE flatten[1] = f[1] /\ flatten[2] = flatten[1] \o f[2]
  <2>1. 1 \in 1..Len(f) /\ 2 \in 1..Len(f) /\ 2 - 1 = 1 /\ 2 # 1
    BY <1>1, <1>5
  <2> QED
    BY <2>1, <1>3
<1>6. CASE n = 0
  <2>1. f = <<>>
    BY <1>1, <1>6
  <2> QED
    BY <1>1, <1>2, <1>6, <2>1
<1>7. CASE n = 1
  <2>1. FlattenSeq(f) = flatten[1]
    BY <1>1, <1>2, <1>7
  <2> QED
    BY <1>4, <1>7, <2>1
<1>8. CASE n = 2
  <2>1. FlattenSeq(f) = flatten[2]
    BY <1>1, <1>2, <1>8
  <2>2. flatten[1] = f[1] /\ flatten[2] = flatten[1] \o f[2]
    BY <1>5, <1>8
  <2>3. FlattenSeq(f) = f[1] \o f[2]
    BY <2>1, <2>2, Zenon
  <2> QED
    BY <1>8, <2>3
<1> QED
  BY <1>6, <1>7, <1>8

LEMMA ProbedChain ==
  ASSUME Inv, NEW a \in Ids
  PROVE  Probed(a) \in Seq(Calls) /\ Chain(Probed(a)) /\ ~Locked(Probed(a))
<1> DEFINE c == Ask(a, FALSE)
           d == [With("recovered", a) EXCEPT !.from = pointer]
<1>1. c \in Calls /\ c.f = "ask" /\ c.id = a
  BY AskType
<1>2. d \in Calls /\ d.f = "recovered" /\ d.id = a /\ d.from = pointer
  <2>1. With("recovered", a) \in Calls /\ With("recovered", a).f = "recovered"
        /\ With("recovered", a).id = a
    BY WithType DEF Names
  <2> QED
    BY <2>1, PointerType DEF Calls
<1>3. Probed(a) = <<c>> \o (IF Exhausted(a) THEN <<d>> ELSE <<>>)
  BY DEF Probed
<1> HIDE DEF c, d
<1>4. CallOK(c) /\ CallOK(d) /\ c.f \notin Locking /\ d.f \notin Locking
  BY <1>1, <1>2, PointerType DEF CallOK, Locking
<1>5. /\ <<c>> \in Seq(Calls) /\ Chain(<<c>>) /\ ~Locked(<<c>>)
      /\ <<d>> \in Seq(Calls) /\ Chain(<<d>>) /\ ~Locked(<<d>>)
  BY <1>1, <1>2, <1>4, One DEF Locking
<1> DEFINE r == IF Exhausted(a) THEN <<d>> ELSE <<>>
<1>6. r \in Seq(Calls) /\ Chain(r) /\ ~Locked(r)
  BY <1>5, NoCalls
<1> HIDE DEF r
<1>7. <<c>> \o r \in Seq(Calls) /\ Chain(<<c>> \o r) /\ ~Locked(<<c>> \o r)
  BY <1>5, <1>6, ChainJoin
<1> QED
  BY <1>3, <1>7 DEF r

LEMMA ProbeRecoveredMoves == ASSUME Inv, NEW x \in Actors, ProbeRecovered(x) PROVE Passes(x)
<1>1. Top(x).f \in {"parked", "parked!"}
  BY DEF ProbeRecovered, At
<1>2. Top(x).f # "" /\ Top(x).f \notin Locking
  BY <1>1 DEF Locking
<1>3. CASE At(x, "parked")
  <2> DEFINE ready == {a \in Ids \ {pointer} : IF Exhausted(a) THEN recoverDue(a) ELSE idleQuotaDue(a)}
  <2>1. Do(x, IF ready = {} THEN <<>> ELSE Probed(OldestFirst(ready)[1]))
    BY <1>3 DEF ProbeRecovered, At
  <2>2. ready \in SUBSET (Ids \ {pointer})
    OBVIOUS
  <2> HIDE DEF ready
  <2>3. ready # {} => OldestFirst(ready)[1] \in Ids
    <3>1. Cardinality(ready) \in 0..2 /\ (ready # {} => Cardinality(ready) >= 1)
      BY <2>2, Order
    <3>2. \A i \in 1..Cardinality(ready) : OldestFirst(ready)[i] \in ready
      BY <2>2, Order
    <3> QED
      BY <2>2, <3>1, <3>2
  <2>4. CASE ready = {}
    BY <1>2, <2>1, <2>4, NoCalls, DoOpen
  <2>5. CASE ready # {}
    BY <1>2, <2>1, <2>3, <2>5, ProbedChain, DoOpen
  <2> QED
    BY <2>4, <2>5
<1>4. CASE At(x, "parked!")
  <2> DEFINE ids == {a \in Ids \ {pointer} : ~refreshSkips(a)}
             order == OldestFirst(ids)
             f == [i \in DOMAIN order |-> Probed(order[i])]
             n == Cardinality(ids)
  <2>1. Do(x, FlattenSeq(f))
    BY <1>4 DEF ProbeRecovered, At
  <2>2. ids \in SUBSET (Ids \ {pointer})
    OBVIOUS
  <2> HIDE DEF ids
  <2>3. n \in 0..2 /\ DOMAIN order = 1..n /\ \A i \in 1..n : order[i] \in Ids
    <3>1. n \in 0..2 /\ (\A i \in 1..n : order[i] \in ids) /\ order = [i \in 1..n |-> order[i]]
      BY <2>2, Order
    <3> QED
      BY <2>2, <3>1
  <2>4. \A i \in 1..n : f[i] \in Seq(Calls) /\ Chain(f[i]) /\ ~Locked(f[i])
    BY <2>3, ProbedChain
  <2>5. f \in [1..n -> Seq(Calls)]
    BY <2>3, <2>4
  <2> HIDE DEF f, n
  <2>6. /\ n = 0 => FlattenSeq(f) = <<>>
        /\ n = 1 => FlattenSeq(f) = f[1]
        /\ n = 2 => FlattenSeq(f) = f[1] \o f[2]
    BY <2>3, <2>5, Flattened
  <2>7. FlattenSeq(f) \in Seq(Calls) /\ Chain(FlattenSeq(f)) /\ ~Locked(FlattenSeq(f))
    <3>1. CASE n = 0
      BY <2>6, <3>1, NoCalls
    <3>2. CASE n = 1
      BY <2>4, <2>6, <3>2
    <3>3. CASE n = 2
      <4>1. /\ f[1] \in Seq(Calls) /\ Chain(f[1]) /\ ~Locked(f[1])
            /\ f[2] \in Seq(Calls) /\ Chain(f[2]) /\ ~Locked(f[2])
        BY <2>4, <3>3
      <4>2. f[1] \o f[2] \in Seq(Calls) /\ Chain(f[1] \o f[2]) /\ ~Locked(f[1] \o f[2])
        BY <4>1, ChainJoin
      <4>3. FlattenSeq(f) = f[1] \o f[2]
        BY <2>6, <3>3
      <4> QED
        BY <4>2, <4>3
    <3> QED
      BY <2>3, <3>1, <3>2, <3>3
  <2> QED
    BY <1>2, <2>1, <2>7, DoOpen
<1> QED
  BY <1>3, <1>4 DEF ProbeRecovered

-----------------------------------------------------------------------------
(* and choosing and applying a switch. *)

LEMMA RankedChain ==
  ASSUME Inv, NEW c \in Calls, c.from \in Ids, c.ids # {}, NEW class
  PROVE  /\ <<Ranked(c, class)>> \in Seq(Calls) /\ Chain(<<Ranked(c, class)>>)
         /\ ~Locked(<<Ranked(c, class)>>) /\ Candidate(c) \in Ids
<1>1. c.ids \in SUBSET Ids
  BY DEF Calls
<1>2. Candidate(c) \in c.ids /\ Candidate(c) \in Ids
  BY <1>1, Accounts, MinIn DEF Candidate
<1> DEFINE r == Ranked(c, class)
<1>3. r \in Calls /\ r.f = "pick" /\ r.from = c.from
  BY <1>1, <1>2 DEF Ranked, Calls
<1> HIDE DEF r
<1>4. CallOK(r)
  BY <1>3 DEF CallOK
<1>5. <<r>> \in Seq(Calls) /\ Chain(<<r>>) /\ ~Locked(<<r>>)
  BY <1>3, <1>4, One DEF Locking
<1> QED
  BY <1>2, <1>5 DEF r

LEMMA pickNextMoves ==
  ASSUME Inv, NEW x \in Actors, pickNext(x)
  PROVE  Moved(x) /\ (Free \/ Passes(x))
<1> DEFINE c == Top(x)
<1>1. c.f = "pick"
  BY DEF pickNext, At
<1>2. c \in Calls /\ CallOK(c) /\ c.f # "" /\ c.f \notin Locking
  BY <1>1, TopOK DEF Locking
<1>3. c.from \in Ids /\ c.ids \in SUBSET Ids /\ c.id \in {0} \cup Ids
  BY <1>1, <1>2 DEF CallOK, Calls
<1>4. CASE c.ids = {} /\ c.id = 0
  <2>1. Do(x, <<>>)
    BY <1>4 DEF pickNext
  <2> QED
    BY <1>2, <2>1, NoCalls, DoOpen DEF Passes
<1>5. CASE c.ids = {} /\ c.id # 0
  <2> DEFINE d == [c EXCEPT !.f = "queue"]
  <2>1. Do(x, <<d>>)
    BY <1>5 DEF pickNext
  <2>2. d \in Calls /\ d.f = "queue" /\ d.id = c.id /\ d.from = c.from
    BY <1>2 DEF Calls
  <2> HIDE DEF d
  <2>3. CallOK(d)
    BY <1>3, <1>5, <2>2 DEF CallOK
  <2>4. <<d>> \in Seq(Calls) /\ Chain(<<d>>) /\ ~Locked(<<d>>)
    BY <2>2, <2>3, One DEF Locking
  <2> QED
    BY <1>2, <2>1, <2>4, DoOpen DEF Passes
<1>6. CASE c.ids # {}
  <2> DEFINE a == Candidate(c)
  <2>1. \/ Do(x, <<Ranked(c, "unknown")>>)
        \/ Do(x, <<Ranked(c, automaticQuota(a))>>)
        \/ Free /\ Returns(x, Requests(a) \o <<[c EXCEPT !.f = "rank"]>> \o Later(x), TRUE)
    BY <1>6 DEF pickNext
  <2>2. a \in Ids
    BY <1>2, <1>3, <1>6, RankedChain
  <2>3. ASSUME NEW class, Do(x, <<Ranked(c, class)>>) PROVE Passes(x)
    <3>1. /\ <<Ranked(c, class)>> \in Seq(Calls) /\ Chain(<<Ranked(c, class)>>)
          /\ ~Locked(<<Ranked(c, class)>>)
      BY <1>2, <1>3, <1>6, RankedChain
    <3> QED
      BY <1>2, <2>3, <3>1, DoOpen
  <2>4. CASE Free /\ Returns(x, Requests(a) \o <<[c EXCEPT !.f = "rank"]>> \o Later(x), TRUE)
    <3> DEFINE d == [c EXCEPT !.f = "rank"]
    <3>1. d \in Calls /\ d.f = "rank" /\ d.from = c.from /\ d.ids = c.ids
      BY <1>2 DEF Calls
    <3>2. Returns(x, (Requests(a) \o <<d>>) \o Later(x), TRUE)
      BY <2>4
    <3> HIDE DEF d, a
    <3>3. CallOK(d)
      BY <1>3, <1>6, <3>1 DEF CallOK
    <3>4. <<d>> \in Seq(Calls) /\ Chain(<<d>>) /\ <<d>> # <<>> /\ Head(<<d>>).f = "rank"
      BY <3>1, <3>3, One
    <3> DEFINE p == Requests(a) \o <<d>>
    <3>5. p \in Seq(Calls) /\ Chain(p) /\ Locked(p)
      BY <2>2, <3>4, AskThen
    <3> HIDE DEF p
    <3>6. Returns(x, p \o Later(x), TRUE)
      BY <3>2 DEF p
    <3> QED
      BY <1>2, <2>4, <3>5, <3>6, DoLocked
  <2> QED
    BY <2>1, <2>3, <2>4 DEF Passes
<1> QED
  BY <1>4, <1>5, <1>6

LEMMA candidateRankMoves == ASSUME Inv, NEW x \in Actors, candidateRank(x) PROVE Moved(x)
<1> DEFINE r == Ranked(Top(x), act[x].class)
<1>1. Top(x).f = "rank" /\ Returns(x, <<r>> \o Later(x), FALSE)
  BY DEF candidateRank, At
<1>2. Top(x) \in Calls /\ Top(x).from \in Ids /\ Top(x).ids # {}
  BY <1>1, TopOK DEF CallOK
<1>3. <<r>> \in Seq(Calls) /\ Chain(<<r>>) /\ ~Locked(<<r>>)
  BY <1>2, RankedChain
<1> HIDE DEF r
<1>4. ~Locked(Later(x)) /\ Later(x) \in Seq(Calls) /\ Chain(Later(x))
  BY <1>1, OpenTop DEF Locking
<1>5. /\ <<r>> \o Later(x) \in Seq(Calls) /\ Chain(<<r>> \o Later(x))
      /\ ~Locked(<<r>> \o Later(x))
  BY <1>3, <1>4, ChainJoin
<1> QED
  BY <1>1, <1>5, ReturnsFree

(* A call made without the lock goes on to one more. *)
LEMMA OneOpen ==
  ASSUME Inv, NEW x \in Actors, Top(x).f # "", Top(x).f \notin Locking,
         NEW c \in Calls, CallOK(c), c.f \notin Locking, Do(x, <<c>>)
  PROVE  Passes(x)
<1>1. <<c>> \in Seq(Calls) /\ Chain(<<c>>) /\ ~Locked(<<c>>)
  BY One DEF Locking
<1> DEFINE p == <<c>>
<1>2. p \in Seq(Calls) /\ Chain(p) /\ ~Locked(p) /\ Do(x, p)
  BY <1>1
<1> HIDE DEF p
<1> QED
  BY <1>2, DoOpen

LEMMA KeepAliveMoves == ASSUME Inv, NEW x \in Actors, KeepAlive(x) PROVE Passes(x)
<1> DEFINE c == Top(x)
           d(a) == [c EXCEPT !.f = "renew", !.id = a, !.ids = {b \in @ : b > a}]
<1>1. Top(x).f = "keepalive"
  BY DEF KeepAlive, At
<1>2. Done(x) \/ \E a \in c.ids : Do(x, <<d(a)>>)
  BY DEF KeepAlive
<1>3. c \in Calls /\ CallOK(c) /\ c.f = "keepalive"
  BY <1>1, TopOK
<1>4. ASSUME NEW a \in c.ids PROVE d(a) \in Calls /\ CallOK(d(a)) /\ d(a).f \notin Locking
  <2>1. c.ids \subseteq Ids /\ a \in Ids
    BY <1>3 DEF Calls
  <2>2. {b \in c.ids : b > a} \in SUBSET Ids
    BY <2>1
  <2>3. d(a) \in Calls /\ d(a).f = "renew" /\ d(a).id = a
    BY <1>3, <2>1, <2>2 DEF Calls
  <2> HIDE DEF d
  <2> QED
    BY <2>1, <2>3 DEF CallOK, Locking
<1> HIDE DEF c, d
<1>5. CASE Done(x)
  BY <1>1, <1>5, DoneOpen DEF Locking
<1>6. ASSUME NEW a \in c.ids, Do(x, <<d(a)>>) PROVE Passes(x)
  BY <1>1, <1>4, <1>6, OneOpen DEF Locking
<1> QED
  BY <1>2, <1>5, <1>6

LEMMA RenewMoves == ASSUME Inv, NEW x \in Actors, Renew(x) PROVE Passes(x)
<1> DEFINE c == [Top(x) EXCEPT !.f = "keepalive", !.id = 0]
<1>1. Top(x).f = "renew"
  BY DEF Renew, At
<1>2. Done(x) \/ Do(x, <<c>>)
  BY DEF Renew, Done
<1>3. Top(x) \in Calls
  BY <1>1, TopOK
<1>4. c \in Calls /\ c.f = "keepalive"
  BY <1>3 DEF Calls
<1> HIDE DEF c
<1>5. CallOK(c) /\ c.f \notin Locking
  BY <1>4 DEF CallOK, Locking
<1> QED
  BY <1>1, <1>2, <1>4, <1>5, DoneOpen, OneOpen DEF Locking

LEMMA ApplyCall == Call("apply") \in Calls /\ CallOK(Call("apply")) /\ Call("apply").f \notin Locking
<1>1. Call("apply") \in Calls /\ Call("apply").f = "apply"
  BY CallType DEF Names
<1> QED
  BY <1>1 DEF CallOK, Locking

LEMMA QueueMoves == ASSUME Inv, NEW x \in Actors, Queue(x) PROVE Passes(x)
<1> DEFINE c == Top(x)
           d == [c EXCEPT !.f = "set", !.why = "exhausted"]
<1>1. Top(x).f = "queue" /\ (Do(x, <<Call("apply")>>) \/ Do(x, <<d>>))
  BY DEF Queue, At
<1>2. c \in Calls /\ c.id \in Ids /\ c.from \in Ids
  BY <1>1, TopOK DEF CallOK
<1>3. d \in Calls /\ d.f = "set" /\ d.id = c.id /\ d.from = c.from /\ d.why = "exhausted"
  BY <1>2 DEF Calls
<1> HIDE DEF d
<1>4. CallOK(d) /\ d.f \notin Locking
  BY <1>2, <1>3 DEF CallOK, Locking
<1> HIDE DEF c
<1> QED
  BY <1>1, <1>3, <1>4, ApplyCall, OneOpen DEF Locking

LEMMA SetPendingMoves == ASSUME Inv, NEW x \in Actors, SetPending(x) PROVE Passes(x)
<1>1. Top(x).f = "set" /\ (Do(x, <<Call("apply")>>) \/ Done(x))
  BY DEF SetPending, At, Done
<1> QED
  BY <1>1, ApplyCall, OneOpen, DoneOpen DEF Locking

LEMMA ExpiringTarget ==
  ASSUME Inv, NEW a, expiringTarget(a) # 0
  PROVE  expiringTarget(a) \in Ids
<1> DEFINE good == {b \in Ids \ {a} : q[b].cooling = 0 /\ q[b].class = "ok" /\ expires[b] = 1}
<1>1. good \in SUBSET (1..3) /\ good \subseteq Ids
  BY Accounts
<1>2. expiringTarget(a) = IF good = {} \/ expires[a] = 1 THEN 0 ELSE Min(good)
  BY DEF expiringTarget
<1> HIDE DEF good
<1>3. good # {} => Min(good) \in good
  BY <1>1, MinIn
<1> QED
  BY <1>1, <1>2, <1>3

LEMMA considerExpiringMoves == ASSUME Inv, NEW x \in Actors, considerExpiring(x) PROVE Passes(x)
<1> DEFINE to == expiringTarget(pointer)
           d == [Call("set") EXCEPT !.from = pointer, !.id = to, !.why = "expiring"]
<1>1. Top(x).f = "expiring" /\ (Done(x) \/ (to # 0 /\ Do(x, <<d>>)))
  BY DEF considerExpiring, At, Done
<1>2. to # 0 => to \in Ids
  BY ExpiringTarget
<1> HIDE DEF to
<1>3. Call("set") \in Calls /\ Call("set").f = "set" /\ pointer \in Ids
  BY CallType, PointerType DEF Names
<1>4. to # 0 => d \in Calls /\ d.f = "set" /\ d.id = to /\ d.from = pointer /\ d.why = "expiring"
  BY <1>2, <1>3 DEF Calls
<1> HIDE DEF d
<1>5. to # 0 => CallOK(d) /\ d.f \notin Locking
  BY <1>2, <1>3, <1>4 DEF CallOK, Locking
<1> QED
  BY <1>1, <1>4, <1>5, DoneOpen, OneOpen DEF Locking

LEMMA EndMoves ==
  ASSUME Inv, NEW x \in Actors, Top(x).f \in {"apply", "target"}, End(x)
  PROVE  Moved(x)
BY OpenTop, ReturnsFree DEF End, Locking

LEMMA TargetBlock ==
  ASSUME NEW d \in Calls, NEW t \in Calls, CallOK(d), CallOK(t), d.f = "auto", t.f = "target"
  PROVE  <<d, t>> \in Seq(Calls) /\ Chain(<<d, t>>) /\ Locked(<<d, t>>)
<1> DEFINE s == <<d, t>>
<1>1. s \in Seq(Calls) /\ Len(s) = 2 /\ s[1] = d /\ s[2] = t /\ s # <<>> /\ Head(s) = d
  OBVIOUS
<1> HIDE DEF s
<1>2. Chain(s)
  <2> SUFFICES ASSUME NEW i \in 1..2 PROVE
        /\ CallOK(s[i])
        /\ i > 1 /\ s[i].f \in Locking => <<s[i - 1].f, s[i].f>> \in Leads
        /\ s[i].f \in {"confirm", "auto"} => i < 2 /\ s[i + 1].f \in Locking
        /\ s[i].f = "source" => i + 2 <= 2 /\ s[i + 1].f = "auto" /\ s[i + 2].f = "target"
    BY <1>1 DEF Chain
  <2>1. CASE i = 1
    BY <1>1, <2>1 DEF Locking
  <2>2. CASE i = 2
    BY <1>1, <2>2 DEF Leads
  <2> QED
    BY <2>1, <2>2
<1>3. Locked(s)
  BY <1>1 DEF Locked, Locking
<1> QED
  BY <1>1, <1>2, <1>3 DEF s

LEMMA SourceBlock ==
  ASSUME NEW c \in Calls, NEW s \in Calls, CallOK(c), CallOK(s), c.f = "auto", s.f = "source",
         NEW d \in Calls, NEW t \in Calls, CallOK(d), CallOK(t), d.f = "auto", t.f = "target"
  PROVE  /\ <<c, s>> \o <<d, t>> \in Seq(Calls) /\ Chain(<<c, s>> \o <<d, t>>)
         /\ Locked(<<c, s>> \o <<d, t>>)
<1> DEFINE p == <<c, s>> \o <<d, t>>
<1>1. /\ <<c, s>> \in Seq(Calls) /\ <<d, t>> \in Seq(Calls) /\ Len(<<c, s>>) = 2
      /\ Len(<<d, t>>) = 2
  OBVIOUS
<1>2. p \in Seq(Calls) /\ Len(p) = 4
  BY <1>1, ConcatProperties
<1>3. p[1] = c /\ p[2] = s /\ p[3] = d /\ p[4] = t
  OBVIOUS
<1>4. p # <<>> /\ Head(p) = c
  <2> DEFINE u == <<c, s>>  v == <<d, t>>
  <2>1. u # <<>> /\ Head(u) = c
    OBVIOUS
  <2>2. u \in Seq(Calls) /\ v \in Seq(Calls) /\ p = u \o v
    BY <1>1
  <2> HIDE DEF p, u, v
  <2> QED
    BY <2>1, <2>2, Joined
<1> HIDE DEF p
<1>5. Chain(p)
  <2> SUFFICES ASSUME NEW i \in 1..4 PROVE
        /\ CallOK(p[i])
        /\ i > 1 /\ p[i].f \in Locking => <<p[i - 1].f, p[i].f>> \in Leads
        /\ p[i].f \in {"confirm", "auto"} => i < 4 /\ p[i + 1].f \in Locking
        /\ p[i].f = "source" => i + 2 <= 4 /\ p[i + 1].f = "auto" /\ p[i + 2].f = "target"
    BY <1>2 DEF Chain
  <2>1. CASE i = 1
    BY <1>3, <2>1 DEF Locking
  <2>2. CASE i = 2
    BY <1>3, <2>2 DEF Leads
  <2>3. CASE i = 3
    BY <1>3, <2>3 DEF Leads, Locking
  <2>4. CASE i = 4
    BY <1>3, <2>4 DEF Leads
  <2> QED
    BY <2>1, <2>2, <2>3, <2>4
<1>6. Locked(p)
  BY <1>4 DEF Locked, Locking
<1> QED
  BY <1>2, <1>5, <1>6 DEF p

LEMMA TryApplyMoves == ASSUME Inv, NEW x \in Actors, TryApply(x) PROVE Moved(x)
<1> DEFINE c(f) == [Call(f) EXCEPT !.id = pending.to, !.from = pending.from, !.why = pending.why]
           two == <<Automatic(pending.to), c("target")>>
           p == (IF pending.why = "expiring" \/ knownExhausted(pending.from) THEN <<>>
                 ELSE <<Automatic(pending.from), c("source")>>) \o two
<1>1. Top(x).f = "apply" /\ Free
  BY DEF TryApply, At
<1>2. \/ End(x)
      \/ pending # NoPending /\ Returns(x, p \o Later(x), TRUE)
  BY DEF TryApply, Leave, cancelSwitch
<1>3. CASE End(x)
  BY <1>1, <1>3, EndMoves
<1>4. CASE pending # NoPending /\ Returns(x, p \o Later(x), TRUE)
  <2>1. pending.from \in Ids /\ pending.to \in Ids /\ pending.why \in {"", "exhausted", "expiring"}
    BY <1>4 DEF Inv, PendingInv, TypeOK, Pending
  <2>2. \A a \in Ids : Automatic(a) \in Calls /\ Automatic(a).f = "auto" /\ CallOK(Automatic(a))
    <3> SUFFICES ASSUME NEW a \in Ids
                 PROVE  Automatic(a) \in Calls /\ Automatic(a).f = "auto" /\ CallOK(Automatic(a))
      OBVIOUS
    <3>1. Call("auto") \in Calls /\ Call("auto").f = "auto"
      BY CallType DEF Names
    <3>2. Automatic(a) \in Calls /\ Automatic(a).f = "auto" /\ Automatic(a).id = a
      BY <3>1 DEF Automatic, Calls
    <3> QED
      BY <3>2 DEF CallOK
  <2>3. \A f \in {"source", "target"} : c(f) \in Calls /\ c(f).f = f /\ CallOK(c(f))
    <3> SUFFICES ASSUME NEW f \in {"source", "target"}
                 PROVE  c(f) \in Calls /\ c(f).f = f /\ CallOK(c(f))
      OBVIOUS
    <3>1. Call(f) \in Calls /\ Call(f).f = f
      BY CallType DEF Names
    <3>2. c(f) \in Calls /\ c(f).f = f /\ c(f).id = pending.to /\ c(f).from = pending.from
      BY <2>1, <3>1 DEF Calls
    <3> HIDE DEF c
    <3> QED
      BY <2>1, <3>2 DEF CallOK
  <2> HIDE DEF c
  <2>4. two \in Seq(Calls) /\ Chain(two) /\ Locked(two)
    BY <2>1, <2>2, <2>3, TargetBlock
  <2>5. p = two \/ p = <<Automatic(pending.from), c("source")>> \o two
    <3>1. <<>> \o two = two
      BY <2>4, ConcatEmptySeq
    <3> HIDE DEF two
    <3> QED
      BY <3>1
  <2>6. /\ <<Automatic(pending.from), c("source")>> \o two \in Seq(Calls)
        /\ Chain(<<Automatic(pending.from), c("source")>> \o two)
        /\ Locked(<<Automatic(pending.from), c("source")>> \o two)
    BY <2>1, <2>2, <2>3, SourceBlock
  <2> HIDE DEF p, two
  <2>7. p \in Seq(Calls) /\ Chain(p) /\ Locked(p)
    BY <2>4, <2>5, <2>6
  <2> QED
    BY <1>1, <1>4, <2>7, DoLocked DEF Locking
<1> QED
  BY <1>2, <1>3, <1>4

LEMMA SourceMoves == ASSUME Inv, NEW x \in Actors, Source(x) PROVE Moved(x)
<1> DEFINE p == Later(x)
<1>1. Top(x).f = "source"
  BY DEF Source, At
<1>2. /\ p \in Seq(Calls) /\ Chain(p) /\ Locked(p) /\ act[x].lock = TRUE
      /\ p # <<>> /\ Tail(p) # <<>> /\ Head(Tail(p)).f = "target"
  BY <1>1, TopOK DEF Locking, Action, Locked
<1>3. CASE Done(x)
  <2>1. Returns(x, p, TRUE)
    <3>1. <<>> \o p = p
      BY <1>2, ConcatEmptySeq
    <3> QED
      BY <1>2, <1>3, <3>1 DEF Done, Do
  <2> QED
    BY <1>2, <2>1, ReturnsLocked
<1>4. CASE Returns(x, Tail(Tail(p)), FALSE)
  <2> DEFINE t == Tail(p)
  <2>1. t \in Seq(Calls) /\ Chain(t) /\ t # <<>> /\ Head(t).f = "target"
    BY <1>2, ChainTail
  <2> HIDE DEF t
  <2>2. Tail(t) \in Seq(Calls) /\ Chain(Tail(t)) /\ ~Locked(Tail(t))
    BY <2>1, ChainTail DEF Leads
  <2> QED
    BY <1>4, <2>2, ReturnsFree DEF t
<1> QED
  BY <1>3, <1>4 DEF Source

LEMMA TargetMoves == ASSUME Inv, NEW x \in Actors, Target(x) PROVE Moved(x)
BY EndMoves DEF Target, At, cancelSwitch, Leave
-----------------------------------------------------------------------------
(* The rows *)

LEMMA Bounds ==
  /\ Cap \in Nat /\ Cap >= 1 /\ RetryMin \in 1..Cap /\ RetryMax \in 1..Cap /\ ServerDelay \in 1..Cap
  /\ Backoff \in 1..Cap /\ Window \in 1..Cap /\ DefaultCooling \in 1..Cap /\ MaxFailures \in Nat
BY QuotaAssumption

LEMMA MaxType == ASSUME NEW x \in Int, NEW y \in Int
                 PROVE  Max({x, y}) = IF x >= y THEN x ELSE y
<1>1. \E m \in {x, y} : \A z \in {x, y} : m >= z
  BY x <= y \/ y <= x
<1>2. Max({x, y}) \in {x, y} /\ \A z \in {x, y} : Max({x, y}) >= z
  BY <1>1, Zenon DEF Max
<1> QED
  BY <1>2

LEMMA MinType == ASSUME NEW x \in Int, NEW y \in Int
                 PROVE  Min({x, y}) = IF x <= y THEN x ELSE y
<1>1. \E m \in {x, y} : \A z \in {x, y} : m <= z
  BY x <= y \/ y <= x
<1>2. Min({x, y}) \in {x, y} /\ \A z \in {x, y} : Min({x, y}) <= z
  BY <1>1, Zenon DEF Min
<1> QED
  BY <1>2

LEMMA LogType ==
  ASSUME NEW r \in Account, NEW class \in Classes, NEW throttled \in BOOLEAN
  PROVE  /\ Log(r, class, throttled) \in Account
         /\ Log(r, class, throttled).last.class = class
         /\ Log(r, class, throttled).last.throttled = throttled
         /\ Log(r, class, throttled).http = r.http
         /\ Log(r, class, throttled).delay = r.delay
         /\ Log(r, class, throttled).class = r.class
         /\ Log(r, class, throttled).conf = r.conf
         /\ Log(r, class, throttled).rel = r.rel
         /\ Log(r, class, throttled).cooling = r.cooling
<1>1. [class |-> class, throttled |-> throttled, age |-> 0]
        \in [class : Classes, throttled : BOOLEAN, age : Ages]
  BY Bounds DEF Ages
<1> QED
  BY <1>1 DEF Log, Account

LEMMA LogQuiet ==
  ASSUME NEW r \in Account, NEW class \in Classes
  PROVE  /\ Log(r, class, FALSE) \in Account
         /\ Log(r, class, FALSE).last.class = class
         /\ Log(r, class, FALSE).last.throttled = FALSE /\ Log(r, class, FALSE).last.age = 0
         /\ Log(r, class, FALSE).http = r.http
         /\ Log(r, class, FALSE).delay = r.delay
         /\ Log(r, class, FALSE).class = r.class
         /\ Log(r, class, FALSE).conf = r.conf
         /\ Log(r, class, FALSE).rel = r.rel
         /\ Log(r, class, FALSE).cooling = r.cooling
<1>1. [class |-> class, throttled |-> FALSE, age |-> 0]
        \in [class : Classes, throttled : BOOLEAN, age : Ages]
  BY Bounds DEF Ages
<1> QED
  BY <1>1 DEF Log, Account

LEMMA ConfirmedType ==
  ASSUME NEW r \in Account, NEW class \in {"ok", "exhausted"}
  PROVE  /\ Confirmed(r, class) \in Account /\ Confirmed(r, class).last.class = class
         /\ Confirmed(r, class).http = r.http /\ Confirmed(r, class).delay = r.delay
         /\ Confirmed(r, class).last.age = 0 /\ Confirmed(r, class).conf.class = class
         /\ Confirmed(r, class).last.throttled = FALSE
         /\ Confirmed(r, class).rel = r.rel
<1>1. /\ Log(r, class, FALSE) \in Account /\ Log(r, class, FALSE).last.class = class
      /\ Log(r, class, FALSE).http = r.http /\ Log(r, class, FALSE).delay = r.delay
      /\ Log(r, class, FALSE).last.age = 0 /\ Log(r, class, FALSE).rel = r.rel
      /\ Log(r, class, FALSE).last.throttled = FALSE
  <2>1. class \in Classes
    BY DEF Classes
  <2> QED
    BY <2>1, LogQuiet
<1>2. [class |-> class, age |-> 0] \in [class : {"ok", "exhausted"}, age : Ages]
  BY Bounds DEF Ages
<1> HIDE DEF Log
<1> QED
  BY <1>1, <1>2 DEF Confirmed, Account

LEMMA UntilType ==
  ASSUME NEW win \in 0..Window
  PROVE  Until(win) \in (-Cap)..Cap /\ Cooling(win) \in Ages
BY Bounds DEF Until, Cooling, Ages

LEMMA AnsweredType ==
  ASSUME Inv, NEW a \in Ids, NEW old \in Account
  PROVE  LET s == Answered(old, truth[a]) IN
         /\ s \in Account /\ s.last.class \in {"ok", "exhausted"}
         /\ s.http = 0 /\ s.delay = 0 /\ truth[a].class \in {"ok", "exhausted"}
         /\ s.last.class = truth[a].class /\ s.last.age = 0 /\ s.last.throttled = FALSE
         /\ s.conf.class = truth[a].class /\ s.rel = Until(truth[a].win)
<1> DEFINE t == truth[a]
           r == [ old EXCEPT !.class = t.class, !.http = 0, !.probed = 0, !.delay = 0,
                    !.rel = Until(t.win),
                    !.cooling = IF t.class = "ok" THEN 0 ELSE Cooling(t.win) ]
<1>1. t.class \in {"ok", "exhausted"} /\ t.win \in 0..Window
  BY DEF Inv, TypeOK
<1>2. Until(t.win) \in (-Cap)..Cap /\ Cooling(t.win) \in Ages /\ 0 \in Ages
  BY <1>1, UntilType, Bounds DEF Ages
<1> DEFINE cooling == IF t.class = "ok" THEN 0 ELSE Cooling(t.win)
<1>3. cooling \in Ages
  BY <1>2
<1> DEFINE rel == Until(t.win)
<1>4. r \in Account /\ r.http = 0 /\ r.delay = 0 /\ r.rel = rel
  <2>1. t.class \in Classes /\ rel \in (-Cap)..Cap /\ 0 \in Ages
    BY <1>1, <1>2 DEF Classes
  <2>2. r = [ old EXCEPT !.class = t.class, !.http = 0, !.probed = 0, !.delay = 0,
                         !.rel = rel, !.cooling = cooling ]
    OBVIOUS
  <2> HIDE DEF t, cooling, rel, r
  <2>3. r \in Account
    BY <1>3, <2>1, <2>2 DEF Account
  <2> QED
    BY <2>1, <2>2, <2>3 DEF Account
<1> HIDE DEF t, cooling, rel
<1> DEFINE s == Answered(old, truth[a])
<1>5. s = Confirmed(r, t.class)
  BY DEF Answered, t
<1> HIDE DEF r, s
<1>6. /\ s \in Account /\ s.last.class = t.class /\ s.http = 0 /\ s.delay = 0
      /\ s.last.age = 0 /\ s.last.throttled = FALSE /\ s.conf.class = t.class /\ s.rel = rel
  BY <1>1, <1>4, <1>5, ConfirmedType
<1> QED
  BY <1>1, <1>6 DEF s, t, rel

(* A renewed sign-in changes nothing that was observed. *)
LEMMA RenewedType ==
  ASSUME NEW r \in Account
  PROVE  LET s == Renewed(r) IN
         /\ s \in Account /\ s.http = r.http /\ s.last = r.last /\ s.conf = r.conf
         /\ s.rel = r.rel /\ s.cooling = r.cooling /\ s.probed = r.probed
         /\ s.class = IF r.class = "expired" THEN "unknown" ELSE r.class
         /\ r.class # "expired" => s.delay = r.delay
<1>1. 0 \in Ages /\ "unknown" \in Classes
  BY Bounds DEF Ages, Classes
<1>2. CASE r.class = "expired"
  <2>1. Renewed(r) = [r EXCEPT !.class = "unknown", !.delay = 0, !.refresh = 0]
    BY <1>2 DEF Renewed
  <2> QED
    BY <1>1, <1>2, <2>1 DEF Account
<1>3. CASE r.class # "expired"
  <2>1. Renewed(r) = [r EXCEPT !.refresh = 0]
    BY <1>3 DEF Renewed
  <2> QED
    BY <1>1, <1>3, <2>1 DEF Account
<1> QED
  BY <1>2, <1>3

(* The row an answer finds. *)
LEMMA AskedType ==
  ASSUME Inv, NEW a \in Ids, NEW r \in Asked(a)
  PROVE  /\ r \in Account /\ r.last = q[a].last /\ r.conf = q[a].conf
         /\ r.rel = q[a].rel /\ r.cooling = q[a].cooling
         /\ q[a].class # "expired" => r.class = q[a].class
<1>1. r = q[a] \/ r = Renewed(q[a])
  BY DEF Asked
<1>2. q[a] \in Account
  BY RowTypes
<1> QED
  BY <1>1, <1>2, RenewedType

LEMMA DelayType ==
  ASSUME NEW r \in Account, NEW server \in {0, ServerDelay}
  PROVE  quotaRetryDelay(r, server) \in Ages /\ quotaRetryDelay(r, server) >= server
<1>1. r.delay \in Ages
  BY DEF Account
<1> DEFINE d == r.delay
           own == IF 2 * d >= RetryMax THEN RetryMax ELSE IF d >= RetryMin THEN 2 * d ELSE RetryMin
           e == IF d = 0 THEN RetryMin ELSE own
<1>2. own \in Ages /\ RetryMin \in Ages
  BY <1>1, Bounds DEF Ages
<1>3. e \in Ages
  BY <1>2
<1>4. quotaRetryDelay(r, server) = Max({e, server})
  BY DEF quotaRetryDelay
<1>5. server \in Ages
  BY Bounds DEF Ages
<1> HIDE DEF e
<1> QED
  BY <1>2, <1>3, <1>4, <1>5, MaxType DEF Ages

LEMMA FailedType ==
  ASSUME NEW r \in Account, NEW throttled \in BOOLEAN, NEW authenticated \in BOOLEAN
  PROVE  LET s == Failed(r, throttled, authenticated) IN
         /\ s \in Account /\ s.http = 0 /\ s.last.throttled = throttled
         /\ s.last.class = "unknown" /\ s.conf = r.conf /\ s.rel = r.rel
         /\ s.cooling = r.cooling /\ (r.class # "expired" => s.class = r.class)
         /\ throttled => s.delay >= ServerDelay
<1> DEFINE server == IF throttled THEN ServerDelay ELSE 0
           class == IF r.class = "expired" /\ authenticated THEN "unknown" ELSE r.class
           delay == quotaRetryDelay(r, server)
           s == [ r EXCEPT !.class = class, !.http = 0, !.probed = 0, !.delay = delay ]
<1>1. class \in Classes
  BY DEF Classes, Account
<1>2. delay \in Ages /\ delay >= server
  BY DelayType
<1>3. 0 \in Ages
  BY Bounds DEF Ages
<1>4. Failed(r, throttled, authenticated) = Log(s, "unknown", throttled)
  BY DEF Failed, Account
<1>5. throttled => delay >= ServerDelay
  BY <1>2
<1> HIDE DEF class, delay
<1>6. /\ s \in Account /\ s.http = 0 /\ s.class = class /\ s.conf = r.conf
      /\ s.rel = r.rel /\ s.cooling = r.cooling /\ s.delay = delay
  BY <1>1, <1>2, <1>3 DEF Account
<1>7. r.class # "expired" => class = r.class
  BY DEF class
<1>8. "unknown" \in Classes
  BY DEF Classes
<1> HIDE DEF s
<1> QED
  BY <1>4, <1>5, <1>6, <1>7, <1>8, LogType

LEMMA RefusedType ==
  ASSUME NEW old \in Account
  PROVE  LET s == Refused(old) IN
         /\ s \in Account /\ s.http = 0 /\ s.last.throttled = FALSE /\ s.last.class = "expired"
         /\ s.conf = old.conf /\ s.rel = -Cap
<1> DEFINE r == [ old EXCEPT !.class = "expired", !.http = 0, !.probed = 0, !.delay = Backoff,
                    !.refresh = Backoff, !.rel = -Cap ]
<1>1. 0 \in Ages /\ Backoff \in Ages /\ -Cap \in (-Cap)..Cap /\ "expired" \in Classes
  BY Bounds DEF Ages, Classes
<1>2. r \in Account /\ r.http = 0 /\ r.conf = old.conf /\ r.rel = -Cap
  BY <1>1 DEF Account
<1>3. Refused(old) = Log(r, "expired", FALSE)
  BY DEF Refused
<1> HIDE DEF r
<1>4. "expired" \in Classes
  BY <1>1
<1>5. /\ Log(r, "expired", FALSE) \in Account /\ Log(r, "expired", FALSE).http = r.http
      /\ Log(r, "expired", FALSE).last.throttled = FALSE
      /\ Log(r, "expired", FALSE).last.class = "expired"
      /\ Log(r, "expired", FALSE).conf = r.conf /\ Log(r, "expired", FALSE).rel = r.rel
  BY <1>2, <1>4, LogQuiet
<1> QED
  BY <1>2, <1>3, <1>5

LEMMA RefreshType ==
  ASSUME Inv, NEW a \in Ids
  PROVE  /\ recordRefreshResult(a, TRUE) \in Account
         /\ recordRefreshResult(a, TRUE).http = q[a].http
         /\ recordRefreshResult(a, TRUE).delay = q[a].delay
         /\ recordRefreshResult(a, TRUE).last.throttled = FALSE
         /\ recordRefreshResult(a, TRUE).last.class = "expired"
         /\ recordRefreshResult(a, TRUE).conf = q[a].conf
         /\ recordRefreshResult(a, TRUE).rel = q[a].rel
         /\ recordRefreshResult(a, FALSE) \in Account
         /\ recordRefreshResult(a, FALSE).http = q[a].http
         /\ recordRefreshResult(a, FALSE).delay = q[a].delay
         /\ recordRefreshResult(a, FALSE).last.throttled = FALSE
         /\ recordRefreshResult(a, FALSE).last.class = "unknown"
         /\ recordRefreshResult(a, FALSE).class = q[a].class
         /\ recordRefreshResult(a, FALSE).conf = q[a].conf
         /\ recordRefreshResult(a, FALSE).rel = q[a].rel
         /\ recordRefreshResult(a, FALSE).cooling = q[a].cooling
<1>1. 0 \in Ages /\ Backoff \in Ages /\ RetryMin \in Ages
      /\ "expired" \in Classes /\ "unknown" \in Classes
  BY Bounds DEF Ages, Classes
<1>2. q[a] \in Account /\ q[a].class \in Classes
  BY RowTypes
<1> DEFINE e == [q[a] EXCEPT !.probed = 0, !.refresh = Backoff, !.class = "expired"]
           u == [q[a] EXCEPT !.probed = 0, !.refresh = RetryMin, !.class = q[a].class]
<1>3. recordRefreshResult(a, TRUE) = Log(e, "expired", FALSE)
  BY DEF recordRefreshResult
<1>4. recordRefreshResult(a, FALSE) = Log(u, "unknown", FALSE)
  BY DEF recordRefreshResult
<1>5. /\ e \in Account /\ e.http = q[a].http /\ e.delay = q[a].delay
      /\ e.conf = q[a].conf /\ e.rel = q[a].rel
  BY <1>1, <1>2 DEF Account
<1>6. /\ u \in Account /\ u.http = q[a].http /\ u.delay = q[a].delay /\ u.class = q[a].class
      /\ u.conf = q[a].conf /\ u.rel = q[a].rel /\ u.cooling = q[a].cooling
  BY <1>1, <1>2 DEF Account
<1> HIDE DEF e, u
<1>7. /\ recordRefreshResult(a, TRUE) \in Account
      /\ recordRefreshResult(a, TRUE).http = q[a].http
      /\ recordRefreshResult(a, TRUE).delay = q[a].delay
      /\ recordRefreshResult(a, TRUE).last.throttled = FALSE
      /\ recordRefreshResult(a, TRUE).last.class = "expired"
      /\ recordRefreshResult(a, TRUE).conf = q[a].conf
      /\ recordRefreshResult(a, TRUE).rel = q[a].rel
  <2>1. "expired" \in Classes
    BY <1>1
  <2>2. /\ Log(e, "expired", FALSE) \in Account /\ Log(e, "expired", FALSE).http = e.http
        /\ Log(e, "expired", FALSE).delay = e.delay
        /\ Log(e, "expired", FALSE).last.throttled = FALSE
        /\ Log(e, "expired", FALSE).last.class = "expired"
        /\ Log(e, "expired", FALSE).conf = e.conf /\ Log(e, "expired", FALSE).rel = e.rel
    BY <1>5, <2>1, LogQuiet
  <2> QED
    BY <1>3, <1>5, <2>2
<1>8. /\ recordRefreshResult(a, FALSE) \in Account
      /\ recordRefreshResult(a, FALSE).http = q[a].http
      /\ recordRefreshResult(a, FALSE).delay = q[a].delay
      /\ recordRefreshResult(a, FALSE).last.throttled = FALSE
      /\ recordRefreshResult(a, FALSE).last.class = "unknown"
      /\ recordRefreshResult(a, FALSE).class = q[a].class
      /\ recordRefreshResult(a, FALSE).conf = q[a].conf
      /\ recordRefreshResult(a, FALSE).rel = q[a].rel
      /\ recordRefreshResult(a, FALSE).cooling = q[a].cooling
  <2>1. "unknown" \in Classes
    BY <1>1
  <2>2. /\ Log(u, "unknown", FALSE) \in Account /\ Log(u, "unknown", FALSE).http = u.http
        /\ Log(u, "unknown", FALSE).delay = u.delay
        /\ Log(u, "unknown", FALSE).last.throttled = FALSE
        /\ Log(u, "unknown", FALSE).last.class = "unknown"
        /\ Log(u, "unknown", FALSE).class = u.class /\ Log(u, "unknown", FALSE).conf = u.conf
        /\ Log(u, "unknown", FALSE).rel = u.rel /\ Log(u, "unknown", FALSE).cooling = u.cooling
    BY <1>6, <2>1, LogQuiet
  <2> QED
    BY <1>4, <1>6, <2>2
<1> QED
  BY <1>7, <1>8

LEMMA AgedType ==
  ASSUME NEW r \in Account
  PROVE  /\ Aged(r) \in Account /\ Aged(r).delay = r.delay /\ Aged(r).http >= r.http
         /\ Aged(r).http = Older(r.http)
         /\ Aged(r).last.throttled = r.last.throttled /\ Aged(r).last.class = r.last.class
         /\ Aged(r).last.age = Older(r.last.age)
         /\ Aged(r).conf.class = r.conf.class /\ Aged(r).conf.age = Older(r.conf.age)
         /\ Aged(r).rel > 0 => Aged(r).rel = r.rel - 1
<1>1. ASSUME NEW n \in Ages PROVE Older(n) \in Ages /\ Older(n) >= n /\ Nearer(n) \in Ages
  BY Bounds, MinType, MaxType DEF Older, Nearer, Ages
<1> DEFINE http == Older(r.http)
           rel == Max({r.rel - 1, IF r.rel > -r.http THEN 1 - http ELSE -Cap})
<1>2. /\ r.http \in Ages /\ r.probed \in Ages /\ r.refresh \in Ages /\ r.cooling \in Ages
      /\ r.rel \in (-Cap)..Cap /\ r.last.age \in Ages /\ r.conf.age \in Ages
  BY DEF Account
<1>3. http \in Ages /\ http >= r.http /\ http >= 1
  <2>1. r.http + 1 \in Int /\ Cap \in Int /\ r.http \in 0..Cap /\ Cap >= 1
    BY <1>2, Bounds DEF Ages
  <2>2. http = IF r.http + 1 <= Cap THEN r.http + 1 ELSE Cap
    BY <2>1, MinType DEF Older
  <2> HIDE DEF http
  <2> QED
    BY <2>1, <2>2 DEF Ages
<1> HIDE DEF http
<1>4. rel \in (-Cap)..Cap /\ (rel > 0 => rel = r.rel - 1)
  <2> DEFINE low == IF r.rel > -r.http THEN 1 - http ELSE -Cap
  <2>1. low \in (-Cap)..Cap /\ low <= 0
    BY <1>2, <1>3, Bounds DEF Ages
  <2> HIDE DEF low
  <2>2. rel = IF r.rel - 1 >= low THEN r.rel - 1 ELSE low
    BY <1>2, <2>1, MaxType DEF low
  <2> HIDE DEF rel
  <2> QED
    BY <1>2, <2>1, <2>2, Bounds
<1>5. Aged(r) = [ r EXCEPT !.http = http, !.probed = Older(@), !.refresh = Nearer(@),
                           !.cooling = Nearer(@), !.rel = rel, !.last.age = Older(@),
                           !.conf.age = Older(@) ]
  BY DEF Aged, http
<1> HIDE DEF rel, Older, Nearer
<1> DEFINE last == [r.last EXCEPT !.age = Older(@)]
           conf == [r.conf EXCEPT !.age = Older(@)]
<1>6. /\ Older(r.probed) \in Ages /\ Nearer(r.refresh) \in Ages /\ Nearer(r.cooling) \in Ages
      /\ Older(r.last.age) \in Ages /\ Older(r.conf.age) \in Ages
  BY <1>1, <1>2
<1>7. /\ last \in [class : Classes, throttled : BOOLEAN, age : Ages]
      /\ conf \in [class : {"ok", "exhausted"}, age : Ages]
      /\ last.throttled = r.last.throttled /\ last.class = r.last.class
      /\ last.age = Older(r.last.age) /\ conf.class = r.conf.class /\ conf.age = Older(r.conf.age)
  BY <1>6 DEF Account
<1>8. Aged(r) = [ r EXCEPT !.http = http, !.probed = Older(r.probed), !.refresh = Nearer(r.refresh),
                           !.cooling = Nearer(r.cooling), !.rel = rel, !.last = last,
                           !.conf = conf ]
  BY <1>5 DEF Account
<1> HIDE DEF last, conf
<1>9. Aged(r) \in Account
  <2> DEFINE probed == Older(r.probed)  refresh == Nearer(r.refresh)  cooling == Nearer(r.cooling)
  <2>1. {http, probed, refresh, cooling} \subseteq Ages
    BY <1>3, <1>6
  <2>2. Aged(r) = [ r EXCEPT !.http = http, !.probed = probed, !.refresh = refresh,
                             !.cooling = cooling, !.rel = rel, !.last = last, !.conf = conf ]
    BY <1>8
  <2> HIDE DEF probed, refresh, cooling
  <2> DEFINE R == (-Cap)..Cap
             L == [class : Classes, throttled : BOOLEAN, age : Ages]
             C == [class : {"ok", "exhausted"}, age : Ages]
  <2>3. Account = [ class : Classes, http : Ages, delay : Ages, rel : R, refresh : Ages,
                    cooling : Ages, probed : Ages, last : L, conf : C ]
    BY DEF Account
  <2>4. rel \in R /\ last \in L /\ conf \in C
    BY <1>4, <1>7
  <2> HIDE DEF R, L, C
  <2> QED
    BY <2>1, <2>2, <2>3, <2>4
<1>10. /\ Aged(r).delay = r.delay /\ Aged(r).http = http /\ Aged(r).last = last
       /\ Aged(r).conf = conf /\ Aged(r).rel = rel
  BY <1>8 DEF Account
<1>11. http = Older(r.http)
  BY DEF http
<1> QED
  BY <1>3, <1>4, <1>7, <1>9, <1>10, <1>11

LEMMA LocalType ==
  ASSUME Inv, NEW x \in Actors, ProbeLocal(x)
  PROVE  /\ q' \in [Ids -> Account]
         /\ \A a \in Ids : /\ q'[a].http = q[a].http /\ q'[a].delay = q[a].delay
                           /\ q'[a] # q[a] => q'[a].last.class = "exhausted"
                           /\ a # pointer => q'[a] = q[a]
<1>1. CASE UNCHANGED q
  BY <1>1 DEF Inv, TypeOK
<1>2. CASE ~UNCHANGED q
  <2> DEFINE left == Max({event.win - event.age, 0})
             r == [q[pointer] EXCEPT !.class = "exhausted", !.probed = 0, !.rel = Until(left),
                                     !.cooling = Cooling(left)]
  <2>1. q' = [q EXCEPT ![pointer] = Confirmed(r, "exhausted")]
    BY <1>2 DEF ProbeLocal
  <2>2. event.win \in 0..Window /\ event.age \in Ages
    BY DEF Inv, TypeOK
  <2>3. left \in 0..Window
    BY <2>2, MaxType, Bounds DEF Ages
  <2> HIDE DEF left
  <2>4. Until(left) \in (-Cap)..Cap /\ Cooling(left) \in Ages /\ 0 \in Ages /\ "exhausted" \in Classes
    BY <2>3, UntilType, Bounds DEF Ages, Classes
  <2>5. r \in Account /\ r.http = q[pointer].http /\ r.delay = q[pointer].delay
    BY <2>4, PointerType, RowTypes DEF Account
  <2> HIDE DEF r
  <2>6. /\ Confirmed(r, "exhausted") \in Account
        /\ Confirmed(r, "exhausted").last.class = "exhausted"
        /\ Confirmed(r, "exhausted").http = r.http /\ Confirmed(r, "exhausted").delay = r.delay
    BY <2>5, ConfirmedType
  <2> HIDE DEF Confirmed
  <2>7. q \in [Ids -> Account] /\ pointer \in Ids
    BY DEF Inv, TypeOK
  <2> QED
    BY <2>1, <2>5, <2>6, <2>7
<1> QED
  BY <1>1, <1>2

(* What the answer of a request may be stored as. *)
Outcome(x, row, class) ==
  LET a == Top(x).id IN
  \/ \E r \in Asked(a) :
       \/ row = Answered(r, truth[a]) /\ class = truth[a].class
       \/ /\ class = "unknown"
          /\ \E throttled, authenticated \in BOOLEAN : row = Failed(r, throttled, authenticated)
       \/ row = Refused(r) /\ class = "expired"
  \/ row = recordRefreshResult(a, FALSE) /\ class = "unknown"
  \/ row = recordRefreshResult(a, TRUE) /\ class = "expired"

LEMMA OutcomeType ==
  ASSUME Inv, NEW x \in Actors, Top(x).id \in Ids, NEW row, NEW class, Outcome(x, row, class)
  PROVE  row \in Account /\ class \in Classes
<1> DEFINE a == Top(x).id
<1>1. \A r \in Asked(a) : r \in Account
  BY AskedType
<1>2. truth[a].class \in Classes /\ "unknown" \in Classes /\ "expired" \in Classes
  BY DEF Inv, TypeOK, Classes
<1>3. recordRefreshResult(a, FALSE) \in Account /\ recordRefreshResult(a, TRUE) \in Account
  BY RefreshType
<1>4. ASSUME NEW r \in Asked(a)
      PROVE  /\ Answered(r, truth[a]) \in Account /\ Refused(r) \in Account
             /\ \A throttled, authenticated \in BOOLEAN : Failed(r, throttled, authenticated) \in Account
  BY <1>1, AnsweredType, RefusedType, FailedType
<1> QED
  BY <1>2, <1>3, <1>4, Zenon DEF Outcome

LEMMA AnswerStores ==
  ASSUME Inv, NEW x \in Actors, Answer(x)
  PROVE  /\ At(x, "wait") /\ Top(x).id \in Ids
         /\ failures' \in 0..MaxFailures
         /\ \E row \in Account, class \in Classes : Store(x, row, class) /\ Outcome(x, row, class)
<1> DEFINE a == Top(x).id
<1>1. At(x, "wait") /\ a \in Ids
  BY KeepsLock DEF Answer
<1>2. failures' \in 0..MaxFailures
  <2>1. failures \in 0..MaxFailures
    BY DEF Inv, TypeOK
  <2>2. failures' = failures \/ (failures < MaxFailures /\ failures' = failures + 1)
    BY DEF Answer
  <2> QED
    BY <2>1, <2>2, Bounds
<1>3. \/ Store(x, recordRefreshResult(a, FALSE), "unknown")
      \/ Store(x, recordRefreshResult(a, TRUE), "expired")
      \/ \E r \in Asked(a) :
           \/ Store(x, Answered(r, truth[a]), truth[a].class)
           \/ \E authenticated \in BOOLEAN : Store(x, Failed(r, FALSE, authenticated), "unknown")
           \/ Store(x, Failed(r, TRUE, FALSE), "unknown")
           \/ Store(x, Refused(r), "expired")
  BY DEF Answer
<1>4. \E row, class : Store(x, row, class) /\ Outcome(x, row, class)
  <2> HIDE DEF a
  <2>1. CASE Store(x, recordRefreshResult(a, FALSE), "unknown")
    BY <2>1, Zenon DEF Outcome, a
  <2>2. CASE Store(x, recordRefreshResult(a, TRUE), "expired")
    BY <2>2, Zenon DEF Outcome, a
  <2>3. ASSUME NEW r \in Asked(a), Store(x, Answered(r, truth[a]), truth[a].class)
        PROVE  \E row, class : Store(x, row, class) /\ Outcome(x, row, class)
    BY <2>3, Zenon DEF Outcome, a
  <2>4. ASSUME NEW r \in Asked(a), NEW throttled \in BOOLEAN, NEW authenticated \in BOOLEAN,
               Store(x, Failed(r, throttled, authenticated), "unknown")
        PROVE  \E row, class : Store(x, row, class) /\ Outcome(x, row, class)
    BY <2>4, Zenon DEF Outcome, a
  <2>5. ASSUME NEW r \in Asked(a), Store(x, Refused(r), "expired")
        PROVE  \E row, class : Store(x, row, class) /\ Outcome(x, row, class)
    BY <2>5, Zenon DEF Outcome, a
  <2>6. FALSE \in BOOLEAN /\ TRUE \in BOOLEAN
    OBVIOUS
  <2> QED
    BY <1>3, <2>1, <2>2, <2>3, <2>4, <2>5, <2>6, Zenon
<1>5. \A row, class : Outcome(x, row, class) => row \in Account /\ class \in Classes
  BY <1>1, OutcomeType
<1> QED
  BY <1>1, <1>2, <1>4, <1>5, Zenon

LEMMA AnswerMoves == ASSUME Inv, NEW x \in Actors, Answer(x) PROVE Moved(x)
BY AnswerStores, StoreMoves
-----------------------------------------------------------------------------
(* The invariant *)

Data ==
  /\ truth \in [Ids -> [class : {"ok", "exhausted"}, win : 0..Window, age : Ages]]
  /\ expires \in [Ids -> 0..2] /\ {auto, busy, hit, late} \subseteq BOOLEAN
  /\ deadline \in [Ids -> Ages] /\ hidden \subseteq Ids /\ event \in [age : Ages, win : 0..Window]
  /\ due \subseteq {"local", "http", "apply"}
  /\ uses \in 0..2 /\ failures \in 0..MaxFailures /\ manual \in 0..1
Rows == q \in [Ids -> Account]
Switches == pointer \in Ids /\ applied \in Ages /\ pending \in Pending /\ PendingInv

LEMMA Parts ==
  Inv <=> /\ world \in Worlds /\ Data /\ Rows /\ Switches /\ ActInv
          /\ \A y \in Actors : act[y].lock => act[y].plan # <<>>
BY DEF Inv, TypeOK, Data, Rows, Switches, ActInv, PlanInv, Action

LEMMA PartsNext ==
  ASSUME world' \in Worlds, Data', Rows', Switches', ActInv',
         (\A y \in Actors : act[y].lock => act[y].plan # <<>>)'
  PROVE  Inv'
BY DEF Inv, TypeOK, Data, Rows, Switches, ActInv, PlanInv, Action

LEMMA DataKept ==
  ASSUME Inv, UNCHANGED <<world, truth, expires, busy, due, uses, manual, auto, event>>,
         hit' \in BOOLEAN, late' \in BOOLEAN, deadline' \in [Ids -> Ages], hidden' \subseteq Ids,
         failures' \in 0..MaxFailures
  PROVE  Data'
<1>1. Ids' = Ids
  BY DEF Ids
<1>2. Data
  BY Parts
<1> QED
  BY <1>1, <1>2 DEF Data, Ages

LEMMA StillKept == ASSUME Inv, UNCHANGED <<Outside, auto, event>>, hit' \in BOOLEAN PROVE Data'
<1>1. /\ hit' \in BOOLEAN /\ late' \in BOOLEAN /\ failures' \in 0..MaxFailures
      /\ deadline' \in [Ids -> Ages] /\ hidden' \subseteq Ids
  BY Parts DEF Data, Outside
<1> QED
  BY <1>1, DataKept DEF Outside

LEMMA RowsKept == ASSUME Inv, world' = world, q' \in [Ids -> Account] PROVE Rows'
BY DEF Rows, Ids, Account, Ages, Classes

LEMMA SwitchesKept ==
  ASSUME Inv, world' = world, pointer' \in Ids, applied' \in Ages, pending' \in Pending,
         pending' = NoPending \/ {pending'.from, pending'.to} \subseteq Ids
  PROVE  Switches'
BY DEF Switches, PendingInv, Ids, Pending, NoPending, Ages

LEMMA PendingType ==
  Inv => /\ pointer \in Ids /\ applied \in Ages /\ pending \in Pending
         /\ pending = NoPending \/ {pending.from, pending.to} \subseteq Ids
         /\ NoPending \in Pending
<1>1. NoPending \in Pending /\ 0 \in Ages
  BY Bounds DEF NoPending, Pending, Ages
<1> QED
  BY <1>1, Parts DEF Switches, PendingInv

LEMMA StepInv ==
  ASSUME Inv, NEW x \in Actors, Moved(x), Data', Rows', Switches', world' = world
  PROVE  Inv'
<1>1. world' \in Worlds
  BY Parts
<1>2. ActInv' /\ (\A y \in Actors : act[y].lock => act[y].plan # <<>>)'
  BY MovedInv
<1> QED
  BY <1>1, <1>2, PartsNext

LEMMA KeptInv ==
  ASSUME Inv, NEW x \in Actors, Moved(x), UNCHANGED <<Still, q, Live, pending>>
  PROVE  Inv'
<1>1. /\ UNCHANGED <<Outside, auto, event>> /\ hit' \in BOOLEAN /\ world' = world
      /\ q' \in [Ids -> Account]
  BY Parts DEF Still, Outside, Data, Rows
<1>2. Data' /\ Rows'
  BY <1>1, StillKept, RowsKept
<1>3. Switches'
  BY <1>1, PendingType, SwitchesKept DEF Live
<1> QED
  BY <1>1, <1>2, <1>3, StepInv

LEMMA QueueInv ==
  ASSUME Inv, NEW x \in Actors, Moved(x), UNCHANGED <<Still, q>>,
         pointer' \in Ids, applied' \in Ages, pending' \in Pending,
         pending' = NoPending \/ {pending'.from, pending'.to} \subseteq Ids
  PROVE  Inv'
<1>1. /\ UNCHANGED <<Outside, auto, event>> /\ hit' \in BOOLEAN /\ world' = world
      /\ q' \in [Ids -> Account]
  BY Parts DEF Still, Outside, Data, Rows
<1>2. Data' /\ Rows' /\ Switches'
  BY <1>1, StillKept, RowsKept, SwitchesKept
<1> QED
  BY <1>1, <1>2, StepInv

LEMMA Queued ==
  ASSUME Inv, NEW a \in Ids, NEW b \in Ids, NEW why \in {"exhausted", "expiring"}
  PROVE  [from |-> a, to |-> b, why |-> why, age |-> 0] \in Pending
<1>1. a \in 0..3 /\ b \in 0..3
  BY Accounts
<1>2. why \in {"", "exhausted", "expiring"}
  OBVIOUS
<1>3. 0 \in Ages
  BY Bounds DEF Ages
<1> QED
  BY <1>1, <1>2, <1>3 DEF Pending

LEMMA PlainInv ==
  ASSUME Inv, NEW x \in Actors,
         \/ KeepAlive(x) \/ Probe(x) \/ ProbeAuto(x) \/ Confirm(x) \/ ProbeHTTP(x) \/ Judge(x)
         \/ ProbeRecovered(x) \/ ProbeReset(x) \/ pickNext(x) \/ candidateRank(x)
         \/ Queue(x) \/ considerExpiring(x)
  PROVE  Inv' /\ UNCHANGED <<Still, q, Live, pending>>
<1>1. UNCHANGED <<Still, q, Live, pending>>
  BY Zenon DEF KeepAlive, Probe, ProbeAuto, Confirm, ProbeHTTP, Judge, ProbeRecovered, ProbeReset,
    pickNext, candidateRank, Queue, considerExpiring
<1>2. Moved(x)
  BY KeepAliveMoves, ProbeMoves, ProbeAutoMoves, ConfirmMoves, ProbeHTTPMoves, JudgeMoves,
    ProbeRecoveredMoves, ProbeResetMoves, pickNextMoves, candidateRankMoves, QueueMoves,
    considerExpiringMoves DEF Passes
<1> QED
  BY <1>1, <1>2, KeptInv

LEMMA AnswerInv == ASSUME Inv, NEW x \in Actors, Answer(x) PROVE Inv'
<1> DEFINE a == Top(x).id
<1>1. PICK row \in Account, class \in Classes : Store(x, row, class) /\ Outcome(x, row, class)
  BY AnswerStores
<1>2. a \in Ids /\ failures' \in 0..MaxFailures
  BY AnswerStores
<1>3. /\ q' = [q EXCEPT ![a] = row] /\ late' = FALSE
      /\ deadline' = deadline \/ deadline' = [deadline EXCEPT ![a] = ServerDelay]
      /\ hidden' = hidden \/ hidden' = hidden \ {a}
      /\ UNCHANGED <<world, truth, expires, Live, pending, auto, busy, hit, event, due, uses, manual>>
  BY <1>1 DEF Store
<1>4. q' \in [Ids -> Account]
  BY <1>3, Parts DEF Rows
<1>5. deadline' \in [Ids -> Ages] /\ hidden' \subseteq Ids
  <2>1. ServerDelay \in Ages /\ deadline \in [Ids -> Ages] /\ hidden \subseteq Ids
    BY Parts, Bounds DEF Data, Ages
  <2> QED
    BY <1>2, <1>3, <2>1
<1>6. hit' \in BOOLEAN /\ late' \in BOOLEAN
  BY <1>3, Parts DEF Data
<1>7. Data' /\ Rows'
  BY <1>2, <1>3, <1>4, <1>5, <1>6, DataKept, RowsKept
<1>8. Switches'
  BY <1>3, PendingType, SwitchesKept DEF Live
<1> QED
  BY <1>3, <1>7, <1>8, AnswerMoves, StepInv

(* A step that writes rows, and may cover up a deadline. *)
LEMMA RowsInv ==
  ASSUME Inv, NEW x \in Actors, Moved(x), q' \in [Ids -> Account],
         hidden' \subseteq Ids, failures' \in 0..MaxFailures,
         UNCHANGED <<world, truth, expires, busy, due, late, deadline, uses, manual, auto, hit, event,
                     Live, pending>>
  PROVE  Inv'
<1>1. hit' \in BOOLEAN /\ late' \in BOOLEAN /\ deadline' \in [Ids -> Ages]
  BY Parts DEF Data
<1>2. Data' /\ Rows' /\ Switches'
  BY <1>1, DataKept, RowsKept, PendingType, SwitchesKept DEF Live
<1> QED
  BY <1>2, StepInv

LEMMA HidesType == ASSUME Inv, NEW a \in Ids, Hides(a) PROVE hidden' \subseteq Ids
<1>1. hidden \subseteq Ids
  BY Parts DEF Data
<1> QED
  BY <1>1 DEF Hides

LEMMA HiddenType == Inv => hidden \subseteq Ids /\ failures \in 0..MaxFailures
BY Parts DEF Data

LEMMA ProbeLocalInv == ASSUME Inv, NEW x \in Actors, ProbeLocal(x) PROVE Inv'
<1>1. /\ q' \in [Ids -> Account]
      /\ UNCHANGED <<world, truth, expires, busy, due, late, deadline, uses, failures, manual, auto,
                     hit, event, Live, pending>>
  BY LocalType DEF ProbeLocal
<1>2. Hides(pointer) \/ hidden' = hidden
  BY DEF ProbeLocal
<1>3. hidden' \subseteq Ids /\ failures' \in 0..MaxFailures
  BY <1>1, <1>2, PointerType, HidesType, HiddenType
<1>4. Moved(x)
  BY ProbeLocalMoves DEF Passes
<1> QED
  BY <1>1, <1>3, <1>4, RowsInv

(* What a renewal stores. *)
LEMMA RenewRows ==
  ASSUME Inv, NEW x \in Actors, Renew(x)
  PROVE  LET a == Top(x).id IN
         /\ a \in Ids
         /\ \/ UNCHANGED q
            \/ q' = [q EXCEPT ![a] = Renewed(q[a])]
            \/ q' = [q EXCEPT ![a] = recordRefreshResult(a, FALSE)]
            \/ q' = [q EXCEPT ![a] = recordRefreshResult(a, TRUE)]
         /\ UNCHANGED <<world, truth, expires, busy, due, late, deadline, uses, manual, auto, hit,
                        event, Live, pending>>
<1>1. Top(x).f = "renew"
  BY DEF Renew, At
<1>2. Top(x).id \in Ids
  BY <1>1, TopOK DEF CallOK
<1>3. \/ UNCHANGED q
      \/ q' = [q EXCEPT ![Top(x).id] = Renewed(q[Top(x).id])]
      \/ \E permanent \in BOOLEAN : q' = [q EXCEPT ![Top(x).id] = recordRefreshResult(Top(x).id, permanent)]
  BY Zenon DEF Renew
<1>4. UNCHANGED <<world, truth, expires, busy, due, late, deadline, uses, manual, auto, hit,
                  event, Live, pending>>
  BY Zenon DEF Renew
<1>5. \A permanent \in BOOLEAN : permanent = TRUE \/ permanent = FALSE
  OBVIOUS
<1> QED
  BY <1>2, <1>3, <1>4, <1>5, Zenon

LEMMA RenewInv == ASSUME Inv, NEW x \in Actors, Renew(x) PROVE Inv'
<1> DEFINE a == Top(x).id
<1>1. a \in Ids
  BY RenewRows
<1>2. UNCHANGED <<world, truth, expires, busy, due, late, deadline, uses, manual, auto, hit,
                  event, Live, pending>>
  BY RenewRows
<1>3. q \in [Ids -> Account] /\ q[a] \in Account
  BY <1>1, Parts DEF Rows
<1>4. /\ Renewed(q[a]) \in Account /\ recordRefreshResult(a, FALSE) \in Account
      /\ recordRefreshResult(a, TRUE) \in Account
  BY <1>1, <1>3, RenewedType, RefreshType
<1>5. q' \in [Ids -> Account]
  <2>1. \E r \in Account : q' = q \/ q' = [q EXCEPT ![a] = r]
    BY <1>3, <1>4, RenewRows, Zenon
  <2> QED
    BY <1>3, <2>1
<1>6. Hides(a) \/ hidden' = hidden
  BY Zenon DEF Renew
<1>7. failures' = failures \/ (failures < MaxFailures /\ failures' = failures + 1)
  BY Zenon DEF Renew
<1>8. hidden' \subseteq Ids
  BY <1>1, <1>6, HidesType, HiddenType
<1>9. failures' \in 0..MaxFailures
  BY <1>7, HiddenType, Bounds
<1>10. Moved(x)
  BY RenewMoves DEF Passes
<1> QED
  BY <1>2, <1>5, <1>8, <1>9, <1>10, RowsInv

LEMMA RecoveredRows ==
  ASSUME Inv, NEW x \in Actors, Recovered(x)
  PROVE  /\ q' \in [Ids -> Account]
         /\ \A a \in Ids : /\ q'[a].http = q[a].http /\ q'[a].delay = q[a].delay
                           /\ q'[a].last = q[a].last /\ q'[a].conf = q[a].conf
                           /\ q'[a].rel = q[a].rel
<1> DEFINE a == Top(x).id
<1>1. Top(x).f = "recovered"
  BY DEF Recovered, At
<1>2. a \in Ids
  BY <1>1, TopOK DEF CallOK
<1>3. q' = q \/ q' = [q EXCEPT ![a].cooling = 0]
  BY DEF Recovered
<1>4. q \in [Ids -> Account] /\ 0 \in Ages
  BY Parts, Bounds DEF Rows, Ages
<1> HIDE DEF a
<1> DEFINE row == [q[a] EXCEPT !.cooling = 0]
<1>5. /\ row \in Account /\ row.http = q[a].http /\ row.delay = q[a].delay
      /\ row.last = q[a].last /\ row.conf = q[a].conf /\ row.rel = q[a].rel
  <2>1. q[a] \in Account
    BY <1>2, <1>4
  <2> QED
    BY <1>4, <2>1 DEF Account
<1>6. q' = q \/ q' = [q EXCEPT ![a] = row]
  BY <1>2, <1>3, <1>4
<1> HIDE DEF row
<1> QED
  BY <1>2, <1>4, <1>5, <1>6

LEMMA RecoveredInv == ASSUME Inv, NEW x \in Actors, Recovered(x) PROVE Inv'
<1>1. q' \in [Ids -> Account] /\ UNCHANGED <<Still, Live, pending>>
  BY RecoveredRows DEF Recovered
<1>2. UNCHANGED <<Outside, auto, event>> /\ hit' \in BOOLEAN /\ world' = world
  BY <1>1, Parts DEF Still, Outside, Data
<1>3. Data' /\ Rows' /\ Switches'
  BY <1>1, <1>2, StillKept, RowsKept, PendingType, SwitchesKept DEF Live
<1> QED
  BY <1>2, <1>3, RecoveredMoves, StepInv DEF Passes

LEMMA ProbeLimitHitInv == ASSUME Inv, NEW x \in Actors, ProbeLimitHit(x) PROVE Inv'
<1>1. UNCHANGED <<Outside, auto, event, q, Live, pending>> /\ (hit' = FALSE \/ hit' = hit)
  BY DEF ProbeLimitHit
<1>2. UNCHANGED <<Outside, auto, event>> /\ hit' \in BOOLEAN /\ world' = world
      /\ q' \in [Ids -> Account]
  BY <1>1, Parts DEF Outside, Data, Rows
<1>3. Data' /\ Rows' /\ Switches'
  BY <1>1, <1>2, StillKept, RowsKept, PendingType, SwitchesKept DEF Live
<1> QED
  BY <1>2, <1>3, ProbeLimitHitMoves, StepInv DEF Passes

LEMMA SetPendingInv == ASSUME Inv, NEW x \in Actors, SetPending(x) PROVE Inv'
<1> DEFINE c == Top(x)
           p == [from |-> c.from, to |-> c.id, why |-> c.why, age |-> 0]
<1>1. c.f = "set"
  BY DEF SetPending, At
<1>2. c.from \in Ids /\ c.id \in Ids /\ c.why \in {"exhausted", "expiring"}
  BY <1>1, TopOK DEF CallOK
<1>3. pending' = p
  BY DEF SetPending
<1>4. p \in Pending /\ p.from = c.from /\ p.to = c.id
  BY <1>2, Queued
<1> HIDE DEF c, p
<1>5. /\ pending' \in Pending
      /\ pending' = NoPending \/ {pending'.from, pending'.to} \subseteq Ids
  BY <1>2, <1>3, <1>4
<1>6. UNCHANGED <<Still, q>> /\ pointer' \in Ids /\ applied' \in Ages
  BY PendingType DEF SetPending, Live
<1> QED
  BY <1>5, <1>6, SetPendingMoves, QueueInv DEF Passes

LEMMA ApplyInv ==
  ASSUME Inv, NEW x \in Actors, TryApply(x) \/ Source(x) \/ Target(x)
  PROVE  Inv'
<1>1. pending' = pending \/ pending' = NoPending
  BY DEF TryApply, Source, Target, cancelSwitch, Leave
<1>2. UNCHANGED <<Still, q>>
  BY DEF TryApply, Source, Target
<1>3. /\ pending' \in Pending
      /\ pending' = NoPending \/ {pending'.from, pending'.to} \subseteq Ids
  BY <1>1, PendingType
<1>4. pointer' \in Ids /\ applied' \in Ages
  <2>1. CASE UNCHANGED Live
    BY <2>1, PendingType DEF Live
  <2>2. CASE ~UNCHANGED Live
    <3>1. At(x, "target") /\ pointer' = Top(x).id /\ applied' = 0
      BY <2>2 DEF TryApply, Source, Target
    <3>2. Top(x).f = "target" /\ 0 \in Ages
      BY <3>1, Bounds DEF At, Ages
    <3>3. CallOK(Top(x))
      BY <3>2, TopOK
    <3> QED
      BY <3>1, <3>2, <3>3 DEF CallOK
  <2> QED
    BY <2>1, <2>2
<1> QED
  BY <1>2, <1>3, <1>4, TryApplyMoves, SourceMoves, TargetMoves, QueueInv

LEMMA StepKeeps == ASSUME Inv, NEW x \in Actors, Step(x) PROVE Inv'
BY PlainInv, AnswerInv, RenewInv, ProbeLocalInv, RecoveredInv, ProbeLimitHitInv, SetPendingInv,
  ApplyInv, Zenon DEF Step

(* A ticker and the web server start a plan for an actor that has none. *)
Starts == {"local", "current", "current!", "parked", "parked!", "limit", "reset", "expiring", "apply"}

LEMMA StartType ==
  \A f \in Starts : Call(f) \in Calls /\ CallOK(Call(f)) /\ Call(f).f \notin Locking
<1> TAKE f \in Starts
<1>1. Call(f) \in Calls /\ Call(f).f = f
  BY CallType DEF Names, Starts
<1> QED
  BY <1>1 DEF CallOK, Locking, Starts

LEMMA EveryType ==
  EveryAccount \in Calls /\ CallOK(EveryAccount) /\ EveryAccount.f \notin Locking
<1>1. Call("keepalive") \in Calls /\ Call("keepalive").f = "keepalive"
  BY CallType DEF Names
<1>2. Ids \in SUBSET Ids
  OBVIOUS
<1>3. EveryAccount \in Calls /\ EveryAccount.f = "keepalive"
  BY <1>1, <1>2 DEF EveryAccount, Calls
<1> HIDE DEF EveryAccount
<1> QED
  BY <1>3 DEF CallOK, Locking

LEMMA Three ==
  ASSUME NEW c \in Calls, NEW d \in Calls, NEW e \in Calls, CallOK(c), CallOK(d), CallOK(e),
         {c.f, d.f, e.f} \cap Locking = {}, {c.f, d.f, e.f} \cap {"confirm", "auto", "source"} = {}
  PROVE  <<c, d, e>> \in Seq(Calls) /\ Chain(<<c, d, e>>) /\ ~Locked(<<c, d, e>>)
<1> DEFINE p == <<c, d, e>>
<1>1. p \in Seq(Calls) /\ Len(p) = 3 /\ p[1] = c /\ p[2] = d /\ p[3] = e /\ Head(p) = c
  OBVIOUS
<1> HIDE DEF p
<1>2. \A i \in 1..Len(p) : p[i] \in {c, d, e}
  BY <1>1
<1>3. Chain(p)
  BY <1>2 DEF Chain
<1>4. ~Locked(p)
  BY <1>1 DEF Locked
<1> QED
  BY <1>1, <1>3, <1>4 DEF p

LEMMA StartCalls ==
  /\ \A f \in Starts :
       <<Call(f)>> \in Seq(Calls) /\ Chain(<<Call(f)>>) /\ ~Locked(<<Call(f)>>)
  /\ \A f, g \in Starts :
       /\ <<Call(f), Call(g)>> \in Seq(Calls) /\ Chain(<<Call(f), Call(g)>>)
       /\ ~Locked(<<Call(f), Call(g)>>)
<1>1. \A f \in Starts : Call(f) \in Calls /\ CallOK(Call(f)) /\ Call(f).f \notin Locking
  BY StartType
<1>2. \A f \in Starts :
        <<Call(f)>> \in Seq(Calls) /\ Chain(<<Call(f)>>) /\ ~Locked(<<Call(f)>>)
  BY <1>1, One DEF Locking
<1>3. \A f, g \in Starts :
        /\ <<Call(f), Call(g)>> \in Seq(Calls) /\ Chain(<<Call(f), Call(g)>>)
        /\ ~Locked(<<Call(f), Call(g)>>)
  BY <1>1, Two
<1> QED
  BY <1>2, <1>3

LEMMA StartMoves ==
  ASSUME Inv, NEW x \in Actors, act[x].plan = <<>>,
         NEW p \in Seq(Calls), Chain(p), ~Locked(p), act' = [act EXCEPT ![x].plan = p]
  PROVE  Moved(x) /\ act'[x].lock = FALSE
<1> DEFINE r == [act[x] EXCEPT !.plan = p]
<1>1. act[x] \in Action /\ act[x].lock = FALSE /\ act \in [Actors -> Action]
  BY ActTypes DEF ActInv, PlanInv, PlanOK, Locked, Action
<1>2. r \in Action /\ r.plan = p /\ r.lock = FALSE
  BY <1>1 DEF Action
<1>3. act' = [act EXCEPT ![x] = r]
  OBVIOUS
<1>4. PlanOK(r)
  BY <1>2 DEF PlanOK
<1> QED
  BY <1>1, <1>2, <1>3, <1>4 DEF Moved

LEMMA PlanChain ==
  ASSUME NEW t \in {"local", "http", "apply"}
  PROVE  Plan(t) \in Seq(Calls) /\ Chain(Plan(t)) /\ ~Locked(Plan(t))
<1>1. ASSUME NEW f \in Starts
      PROVE  ForClaude(f) \in Seq(Calls) /\ Chain(ForClaude(f)) /\ ~Locked(ForClaude(f))
  BY <1>1, StartCalls, NoCalls DEF ForClaude
<1>2. CASE t = "local"
  BY <1>2, StartCalls DEF Plan, Starts
<1>3. CASE t = "http"
  <2>1. Plan(t) = <<EveryAccount, Call("current"), Call("parked")>> \o ForClaude("expiring")
    BY <1>3 DEF Plan
  <2>2. /\ Call("current") \in Calls /\ CallOK(Call("current")) /\ Call("current").f \notin Locking
        /\ Call("parked") \in Calls /\ CallOK(Call("parked")) /\ Call("parked").f \notin Locking
    BY StartType DEF Starts
  <2>3. /\ ForClaude("expiring") \in Seq(Calls) /\ Chain(ForClaude("expiring"))
        /\ ~Locked(ForClaude("expiring"))
    BY <1>1 DEF Starts
  <2> DEFINE p == <<EveryAccount, Call("current"), Call("parked")>>
  <2>4. Plan(t) = p \o ForClaude("expiring") /\ p \in Seq(Calls) /\ Chain(p) /\ ~Locked(p)
    BY <2>1, <2>2, EveryType, Three
  <2> HIDE DEF p
  <2> QED
    BY <2>3, <2>4, ChainJoin
<1>4. CASE t = "apply"
  <2>1. Plan(t) = ForClaude("limit") \o <<Call("reset"), Call("apply")>>
    BY <1>4 DEF Plan
  <2>2. /\ <<Call("reset"), Call("apply")>> \in Seq(Calls)
        /\ Chain(<<Call("reset"), Call("apply")>>) /\ ~Locked(<<Call("reset"), Call("apply")>>)
    BY StartCalls DEF Starts
  <2>3. ForClaude("limit") \in Seq(Calls) /\ Chain(ForClaude("limit")) /\ ~Locked(ForClaude("limit"))
    BY <1>1 DEF Starts
  <2> DEFINE p == <<Call("reset"), Call("apply")>>
  <2>4. Plan(t) = ForClaude("limit") \o p /\ p \in Seq(Calls) /\ Chain(p) /\ ~Locked(p)
    BY <2>1, <2>2
  <2> HIDE DEF p
  <2> QED
    BY <2>3, <2>4, ChainJoin
<1> QED
  BY <1>2, <1>3, <1>4

(* The rest keeps the plans, or starts one. *)
LEMMA DataNext ==
  ASSUME Inv, UNCHANGED <<world, expires, late, deadline, hidden, failures>>,
         truth' \in [Ids -> [class : {"ok", "exhausted"}, win : 0..Window, age : Ages]],
         {auto', busy', hit'} \subseteq BOOLEAN, event' \in [age : Ages, win : 0..Window],
         due' \subseteq {"local", "http", "apply"}, uses' \in 0..2, manual' \in 0..1
  PROVE  Data'
<1>1. Ids' = Ids
  BY DEF Ids
<1>2. Data
  BY Parts
<1> QED
  BY <1>1, <1>2 DEF Data, Ages

LEMMA DataTypes ==
  Inv => /\ truth \in [Ids -> [class : {"ok", "exhausted"}, win : 0..Window, age : Ages]]
         /\ {auto, busy, hit, late} \subseteq BOOLEAN /\ event \in [age : Ages, win : 0..Window]
         /\ due \subseteq {"local", "http", "apply"} /\ uses \in 0..2 /\ manual \in 0..1
         /\ q \in [Ids -> Account]
BY Parts DEF Data, Rows

LEMMA ActKept ==
  ASSUME Inv, UNCHANGED <<world, act>>
  PROVE  ActInv' /\ (\A y \in Actors : act[y].lock => act[y].plan # <<>>)'
<1>1. Ids' = Ids /\ Calls' = Calls /\ Action' = Action /\ Actors' = Actors
  BY DEF Ids, Calls, Action
<1>2. ActInv /\ (\A y \in Actors : act[y].lock => act[y].plan # <<>>)
  BY Parts
<1> QED
  BY <1>1, <1>2 DEF ActInv, PlanInv, PlanOK, Chain, CallOK, Locked

LEMMA TickerMoves ==
  ASSUME Inv, NEW t \in due, runToolWorker(t)
  PROVE  "worker" \in Actors /\ act["worker"].plan = <<>> /\ Moved("worker")
         /\ act'["worker"].lock = FALSE
<1>1. act["worker"].plan = <<>> /\ act' = [act EXCEPT !["worker"].plan = Plan(t)]
  BY DEF runToolWorker
<1>2. t \in {"local", "http", "apply"} /\ "worker" \in Actors
  BY DataTypes DEF Actors
<1> QED
  BY <1>1, <1>2, PlanChain, StartMoves

LEMMA TickerInv ==
  ASSUME Inv, NEW t \in due, runToolWorker(t)
  PROVE  Inv'
<1>1. /\ due' = due \ {t}
      /\ UNCHANGED <<world, truth, q, expires, Live, pending, auto, busy, hit, event, late, deadline,
                     hidden, uses, failures, manual>>
  BY DEF runToolWorker
<1>2. Data'
  BY <1>1, DataTypes, DataNext
<1>3. Rows' /\ Switches'
  BY <1>1, DataTypes, RowsKept, PendingType, SwitchesKept DEF Live
<1> QED
  BY <1>1, <1>2, <1>3, TickerMoves, StepInv

LEMMA ManualData ==
  ASSUME Inv, NEW event_, Manual(event_)
  PROVE  /\ Data' /\ Rows' /\ world' = world /\ act["web"].plan = <<>> /\ "web" \in Actors
         /\ UNCHANGED <<world, q, deadline, hidden>>
<1>1. /\ manual' = 1 /\ act["web"].plan = <<>>
      /\ UNCHANGED <<world, truth, q, expires, auto, busy, hit, event, due, late, deadline, hidden,
                     uses, failures>>
  BY DEF Manual
<1>2. Data'
  BY <1>1, DataTypes, DataNext
<1> QED
  BY <1>1, <1>2, DataTypes, RowsKept DEF Actors

LEMMA RefreshMoves ==
  ASSUME Inv, Refresh
  PROVE  "web" \in Actors /\ act["web"].plan = <<>> /\ Moved("web")
         /\ act'["web"].lock = FALSE
<1> DEFINE l == IF "log" \in world THEN <<Call("local")>> ELSE <<>>
           r == <<Call("current!"), Call("parked!")>>
           k == <<EveryAccount>>
<1>1. act' = [act EXCEPT !["web"].plan = (k \o l) \o r] /\ act["web"].plan = <<>> /\ "web" \in Actors
  BY DEF Refresh, Manual, Actors
<1>5. k \in Seq(Calls) /\ Chain(k) /\ ~Locked(k)
  BY EveryType, One DEF Locking
<1>2. l \in Seq(Calls) /\ Chain(l) /\ ~Locked(l)
  BY StartCalls, NoCalls DEF Starts
<1>3. r \in Seq(Calls) /\ Chain(r) /\ ~Locked(r)
  BY StartCalls DEF Starts
<1> HIDE DEF k, l, r
<1>6. k \o l \in Seq(Calls) /\ Chain(k \o l) /\ ~Locked(k \o l)
  BY <1>2, <1>5, ChainJoin
<1> DEFINE h == k \o l
<1>7. h \in Seq(Calls) /\ Chain(h) /\ ~Locked(h)
  BY <1>6
<1> HIDE DEF h
<1>4. h \o r \in Seq(Calls) /\ Chain(h \o r) /\ ~Locked(h \o r)
  BY <1>3, <1>7, ChainJoin
<1>8. act' = [act EXCEPT !["web"].plan = h \o r]
  BY <1>1 DEF h
<1> QED
  BY <1>1, <1>4, <1>8, StartMoves

LEMMA RefreshInv == ASSUME Inv, Refresh PROVE Inv'
<1>1. UNCHANGED <<Live, pending>> /\ Manual("refresh")
  BY DEF Refresh
<1>2. Data' /\ Rows' /\ world' = world
  BY <1>1, ManualData
<1>3. Switches'
  BY <1>1, <1>2, PendingType, SwitchesKept DEF Live
<1> QED
  BY <1>2, <1>3, RefreshMoves, StepInv

LEMMA RefreshOneMoves ==
  ASSUME Inv, NEW a \in Ids, RefreshOne(a)
  PROVE  "web" \in Actors /\ act["web"].plan = <<>> /\ Moved("web")
         /\ act'["web"].lock = FALSE
<1> DEFINE p == <<Ask(a, FALSE)>>
<1>1. act' = [act EXCEPT !["web"].plan = p] /\ act["web"].plan = <<>> /\ "web" \in Actors
  BY DEF RefreshOne, Manual, Actors
<1>2. p \in Seq(Calls) /\ Chain(p) /\ ~Locked(p)
  <2>1. Ask(a, FALSE) \in Calls /\ Ask(a, FALSE).f = "ask" /\ Ask(a, FALSE).id = a
    BY AskType
  <2>2. CallOK(Ask(a, FALSE))
    BY <2>1 DEF CallOK
  <2> QED
    BY <2>1, <2>2, One DEF Locking
<1> HIDE DEF p
<1> QED
  BY <1>1, <1>2, StartMoves

LEMMA RefreshOneInv == ASSUME Inv, NEW a \in Ids, RefreshOne(a) PROVE Inv'
<1>1. UNCHANGED <<Live, pending>> /\ Manual("probe")
  BY DEF RefreshOne
<1>2. Data' /\ Rows' /\ world' = world
  BY <1>1, ManualData
<1>3. Switches'
  BY <1>1, <1>2, PendingType, SwitchesKept DEF Live
<1> QED
  BY <1>2, <1>3, RefreshOneMoves, StepInv

LEMMA RestInv ==
  ASSUME Inv, Data', Rows', Switches', UNCHANGED <<world, act>>
  PROVE  Inv'
<1>1. ActInv' /\ (\A y \in Actors : act[y].lock => act[y].plan # <<>>)'
  BY ActKept
<1>2. world' \in Worlds
  BY Parts
<1> QED
  BY <1>1, <1>2, PartsNext

LEMMA SwitchInv == ASSUME Inv, NEW a \in Ids, Switch(a) PROVE Inv'
<1>1. /\ pointer' = a /\ applied' = 0 /\ pending' = NoPending /\ act' = act
      /\ Manual("switch")
  BY DEF Switch
<1>2. Data' /\ Rows' /\ world' = world
  BY <1>1, ManualData
<1>3. 0 \in Ages
  BY Bounds DEF Ages
<1>4. Switches'
  BY <1>1, <1>2, <1>3, PendingType, SwitchesKept
<1> QED
  BY <1>1, <1>2, <1>4, RestInv

LEMMA WorldInv ==
  ASSUME Inv, UNCHANGED World,
         truth' \in [Ids -> [class : {"ok", "exhausted"}, win : 0..Window, age : Ages]],
         {auto', busy', hit'} \subseteq BOOLEAN, event' \in [age : Ages, win : 0..Window],
         uses' \in 0..2
  PROVE  Inv'
<1>1. UNCHANGED <<world, q, expires, Live, pending, act, due, late, deadline, hidden, failures, manual>>
  BY DEF World
<1>2. Data' /\ Rows'
  BY <1>1, DataTypes, DataNext, RowsKept
<1>3. Switches'
  BY <1>1, PendingType, SwitchesKept DEF Live
<1> QED
  BY <1>1, <1>2, <1>3, RestInv

LEMMA UseInv == ASSUME Inv, NEW win \in {0, Window}, Use(win) PROVE Inv'
<1>1. /\ uses < (IF "again" \in world THEN 2 ELSE 1) /\ uses' = uses + 1
      /\ truth' = [truth EXCEPT ![pointer] = [class |-> "exhausted", win |-> win, age |-> 0]]
      /\ hit' = (tool = "claude")
      /\ event' = IF tool = "codex" /\ "log" \in world THEN [age |-> 0, win |-> win] ELSE event
      /\ UNCHANGED <<World, auto, busy>>
  BY DEF Use
<1>2. win \in 0..Window /\ 0 \in Ages
  BY Bounds DEF Ages
<1>3. truth' \in [Ids -> [class : {"ok", "exhausted"}, win : 0..Window, age : Ages]]
  BY <1>1, <1>2, DataTypes, PointerType
<1>4. event' \in [age : Ages, win : 0..Window]
  BY <1>1, <1>2, DataTypes
<1>5. uses' \in 0..2 /\ {auto', busy', hit'} \subseteq BOOLEAN
  BY <1>1, DataTypes
<1> QED
  BY <1>1, <1>3, <1>4, <1>5, WorldInv

LEMMA EarlyResetInv == ASSUME Inv, NEW a \in Ids, EarlyReset(a) PROVE Inv'
<1>1. /\ truth' = [truth EXCEPT ![a] = [class |-> "ok", win |-> 0, age |-> 0]]
      /\ UNCHANGED <<World, auto, busy, hit, event, uses>>
  BY DEF EarlyReset
<1>2. 0 \in 0..Window /\ 0 \in Ages
  BY Bounds DEF Ages
<1>3. truth' \in [Ids -> [class : {"ok", "exhausted"}, win : 0..Window, age : Ages]]
  BY <1>1, <1>2, DataTypes
<1> QED
  BY <1>1, <1>3, DataTypes, WorldInv

LEMMA ConfigInv == ASSUME Inv, Settle \/ Reload PROVE Inv'
<1>1. /\ UNCHANGED <<World, truth, hit, event, uses>>
      /\ {auto', busy', hit'} \subseteq BOOLEAN
  BY DataTypes DEF Settle, Reload
<1> QED
  BY <1>1, DataTypes, WorldInv

LEMMA TimeType ==
  ASSUME NEW n \in Ages
  PROVE  Older(n) \in Ages /\ Older(n) >= n /\ n \in Int /\ Older(n) \in Int
BY Bounds, MinType DEF Older, Ages

LEMMA TickRows ==
  ASSUME Inv, Tick
  PROVE  /\ q' \in [Ids -> Account]
         /\ \A a \in Ids : /\ q'[a].delay = q[a].delay /\ q'[a].http >= q[a].http
                           /\ q'[a].last.throttled = q[a].last.throttled
BY AgedType, DataTypes DEF Tick

LEMMA TickPending ==
  ASSUME Inv, Tick
  PROVE  /\ pending' \in Pending /\ pending'.from = pending.from /\ pending'.to = pending.to
         /\ pending'.why = pending.why /\ pending'.age >= pending.age
         /\ pending = NoPending => pending' = NoPending
<1>1. pending' = IF pending = NoPending THEN pending ELSE [pending EXCEPT !.age = Older(@)]
  BY DEF Tick
<1>2. pending \in Pending /\ pending.age \in Ages
  BY PendingType DEF Pending
<1>3. Older(pending.age) \in Ages /\ Older(pending.age) >= pending.age /\ pending.age >= pending.age
  BY <1>2, TimeType
<1> HIDE DEF Older
<1> QED
  BY <1>1, <1>2, <1>3 DEF Pending

LEMMA TickInv == ASSUME Inv, Tick PROVE Inv'
<1>1. /\ truth' = [a \in Ids |->
           IF truth[a].win = 1 THEN [class |-> "ok", win |-> 0, age |-> 0]
           ELSE [truth[a] EXCEPT !.win = Nearer(@), !.age = Older(@)]]
      /\ applied' = Older(applied) /\ event' = [event EXCEPT !.age = Older(@)] /\ due' = Tickers
      /\ late' \in {late, TRUE}
      /\ deadline' = [a \in Ids |-> Nearer(deadline[a])] /\ hidden' = {a \in hidden : deadline[a] > 1}
      /\ UNCHANGED <<world, expires, pointer, auto, busy, hit, act, uses, failures, manual>>
  BY DEF Tick
<1>2. 0 \in 0..Window /\ 0 \in Ages
  BY Bounds DEF Ages
<1>3. \A n \in 0..Window : Nearer(n) \in 0..Window
  BY Bounds, MaxType DEF Nearer
<1>4. truth' \in [Ids -> [class : {"ok", "exhausted"}, win : 0..Window, age : Ages]]
  <2> SUFFICES ASSUME NEW a \in Ids
               PROVE  truth'[a] \in [class : {"ok", "exhausted"}, win : 0..Window, age : Ages]
    BY <1>1
  <2>1. truth[a] \in [class : {"ok", "exhausted"}, win : 0..Window, age : Ages]
    BY DataTypes
  <2>2. Nearer(truth[a].win) \in 0..Window /\ Older(truth[a].age) \in Ages
    BY <1>3, <2>1, TimeType
  <2> QED
    BY <1>1, <1>2, <2>1, <2>2
<1>5. event' \in [age : Ages, win : 0..Window] /\ applied' \in Ages
  <2>1. event \in [age : Ages, win : 0..Window] /\ applied \in Ages
    BY DataTypes, PendingType
  <2>2. Older(event.age) \in Ages /\ Older(applied) \in Ages
    BY <2>1, TimeType
  <2> QED
    BY <1>1, <2>1, <2>2
<1>6. due' \subseteq {"local", "http", "apply"}
  BY <1>1 DEF Tickers
<1>7. late' \in BOOLEAN
  BY <1>1, DataTypes
<1>11. deadline' \in [Ids -> Ages] /\ hidden' \subseteq Ids
  <2>1. deadline \in [Ids -> Ages] /\ hidden \subseteq Ids
    BY Parts DEF Data
  <2>2. \A n \in Ages : Nearer(n) \in Ages
    BY Bounds, MaxType DEF Nearer, Ages
  <2> QED
    BY <1>1, <2>1, <2>2
<1>8. Data'
  <2>1. Ids' = Ids
    BY <1>1 DEF Ids
  <2>2. Data
    BY Parts
  <2> QED
    BY <1>1, <1>4, <1>5, <1>6, <1>7, <1>11, <2>1, <2>2 DEF Data, Ages
<1>9. Rows'
  BY <1>1, TickRows, RowsKept
<1>10. Switches'
  BY <1>1, <1>5, TickPending, PendingType, SwitchesKept
<1> QED
  BY <1>1, <1>8, <1>9, <1>10, RestInv

LEMMA InvInit == Init => Inv
<1> SUFFICES ASSUME Init PROVE Inv
  OBVIOUS
<1>1. 0 \in Ages /\ Cap \in Ages /\ -Cap \in (-Cap)..Cap /\ 0 \in 0..Window
      /\ 0 \in 0..MaxFailures
  BY Bounds DEF Ages
<1>2. Data
  <2>1. truth \in [Ids -> [class : {"ok", "exhausted"}, win : 0..Window, age : Ages]]
    BY <1>1 DEF Init
  <2>2. expires \in [Ids -> 0..2] /\ deadline \in [Ids -> Ages] /\ hidden \subseteq Ids
    BY <1>1 DEF Init
  <2>3. event \in [age : Ages, win : 0..Window]
    BY <1>1 DEF Init, NoEvent
  <2>4. {auto, busy, hit, late} \subseteq BOOLEAN
    <3>1. auto \in BOOLEAN /\ hit \in BOOLEAN /\ late \in BOOLEAN
      BY DEF Init
    <3>2. busy \in BOOLEAN
      <4>1. ("busy" \in world) \in BOOLEAN
        OBVIOUS
      <4>2. busy = ("busy" \in world)
        BY DEF Init
      <4> QED
        BY <4>1, <4>2, Zenon
    <3> QED
      BY <3>1, <3>2
  <2>5. due \subseteq {"local", "http", "apply"}
    BY DEF Init, Tickers
  <2>6. uses \in 0..2 /\ failures \in 0..MaxFailures /\ manual \in 0..1
    BY <1>1 DEF Init
  <2> QED
    BY <2>1, <2>2, <2>3, <2>4, <2>5, <2>6 DEF Data
<1>3. Rows
  <2>1. /\ [class |-> "ok", throttled |-> FALSE, age |-> 0]
             \in [class : Classes, throttled : BOOLEAN, age : Ages]
        /\ [class |-> "ok", age |-> 0] \in [class : {"ok", "exhausted"}, age : Ages]
    BY <1>1 DEF Classes
  <2>2. Fresh \in Account
    BY <1>1, <2>1 DEF Fresh, Account, Classes
  <2> QED
    BY <2>2 DEF Init, Rows
<1>4. Switches
  <2>1. NoPending \in Pending
    BY <1>1 DEF NoPending, Pending
  <2>2. pointer = 1 /\ applied = Cap /\ pending = NoPending
    BY DEF Init
  <2> QED
    BY <1>1, <2>1, <2>2, Accounts DEF Switches, PendingInv
<1>5. act \in [Actors -> Action] /\ \A x \in Actors : act[x] = Idle
  BY IdleType DEF Init
<1>6. PlanOK(Idle) /\ Idle.lock = FALSE
  BY NoCalls DEF PlanOK, Idle
<1>7. ActInv /\ \A x \in Actors : act[x].lock => act[x].plan # <<>>
  BY <1>5, <1>6 DEF ActInv, PlanInv, Actors
<1>8. world \in Worlds
  BY DEF Init
<1> QED
  BY <1>2, <1>3, <1>4, <1>7, <1>8, Parts

LEMMA InvNext == Inv /\ [Next]_vars => Inv'
<1> SUFFICES ASSUME Inv, [Next]_vars PROVE Inv'
  OBVIOUS
<1>1. CASE UNCHANGED vars
  <2>1. UNCHANGED World /\ UNCHANGED <<truth, auto, busy, hit, event, uses>>
    BY <1>1 DEF vars, World, Live
  <2> QED
    BY <2>1, DataTypes, WorldInv
<1>2. ASSUME NEW x \in Actors, Step(x) PROVE Inv'
  BY <1>2, StepKeeps
<1>3. ASSUME NEW t \in due, runToolWorker(t) PROVE Inv'
  BY <1>3, TickerInv
<1>4. ASSUME NEW a \in Ids, RefreshOne(a) \/ Switch(a) \/ EarlyReset(a) PROVE Inv'
  BY <1>4, RefreshOneInv, SwitchInv, EarlyResetInv
<1>5. ASSUME NEW win \in {0, Window}, Use(win) PROVE Inv'
  BY <1>5, UseInv
<1> QED
  BY <1>1, <1>2, <1>3, <1>4, <1>5, RefreshInv, ConfigInv, TickInv DEF Next, Work

(* Types: the rows stay within their ranges, both actors' plans are made of calls
   the code makes, and at most one of them holds the tool lock. *)
THEOREM TypesKept == Spec => []TypeOK
<1>1. Inv => TypeOK
  BY DEF Inv
<1> QED
  BY <1>1, InvInit, InvNext, PTL DEF Spec
-----------------------------------------------------------------------------
(* A failed request *)

LEMMA SameKnown ==
  ASSUME NEW a, world' = world, q'[a].class = q[a].class, q'[a].conf = q[a].conf,
         q'[a].rel = q[a].rel, q'[a].cooling = q[a].cooling
  PROVE  knownExhausted(a) <=> knownExhausted(a)'
BY DEF knownExhausted, observedQuota, Exhausted, ResetSince, codexRecoverInterval, tool

LEMMA RowSteps ==
  ASSUME Inv, [Next]_vars
  PROVE  \/ UNCHANGED <<q, deadline, hidden>> \/ Tick
         \/ \E x \in Actors : Answer(x) \/ Renew(x) \/ ProbeLocal(x) \/ Recovered(x)
<1>1. CASE UNCHANGED vars
  BY <1>1 DEF vars
<1>2. ASSUME NEW x \in Actors, Step(x), ~Answer(x), ~Renew(x), ~ProbeLocal(x), ~Recovered(x)
      PROVE  UNCHANGED <<q, deadline, hidden>>
  <2>1. CASE UNCHANGED <<Still, q, Live, pending>>
    BY <2>1 DEF Still, Outside
  <2>2. CASE SetPending(x) \/ TryApply(x) \/ Source(x) \/ Target(x) \/ ProbeLimitHit(x)
    BY <2>2 DEF SetPending, TryApply, Source, Target, ProbeLimitHit, Still, Outside
  <2> QED
    BY <1>2, <2>1, <2>2, PlainInv DEF Step
<1>3. ASSUME NEW t \in due, runToolWorker(t) PROVE UNCHANGED <<q, deadline, hidden>>
  BY <1>3 DEF runToolWorker
<1>4. ASSUME NEW a \in Ids, RefreshOne(a) \/ Switch(a) \/ EarlyReset(a)
      PROVE  UNCHANGED <<q, deadline, hidden>>
  BY <1>4 DEF RefreshOne, Switch, EarlyReset, World, Manual
<1>5. ASSUME NEW win \in {0, Window}, Use(win) PROVE UNCHANGED <<q, deadline, hidden>>
  BY <1>5 DEF Use, World
<1>6. Refresh \/ Settle \/ Reload => UNCHANGED <<q, deadline, hidden>>
  BY DEF Refresh, Settle, Reload, World, Manual
<1> QED
  BY <1>1, <1>2, <1>3, <1>4, <1>5, <1>6 DEF Next, Work

(* A request that failed (probeAccountLocked) or could not be made
   (recordRefreshResult) leaves what knownExhausted says of the account. *)
THEOREM FailuresSayNothing == Spec => FailureIsNoEvidence
<1>1. Inv /\ [Next]_vars =>
        [\A a \in Ids :
           (q'[a].last.class = "unknown" /\ q'[a].last.age = 0 /\ q[a].class # "expired"
              /\ q'[a].last # q[a].last /\ q'[a].probed = 0 /\ act' # act)
             => (knownExhausted(a) <=> knownExhausted(a)')]_vars
  <2> SUFFICES ASSUME Inv, [Next]_vars, NEW a \in Ids, q'[a].last.class = "unknown",
                      q[a].class # "expired", q'[a].last # q[a].last, act' # act
               PROVE  knownExhausted(a) <=> knownExhausted(a)'
    OBVIOUS
  <2>1. ~UNCHANGED <<q, deadline, hidden>> /\ ~Tick
    BY DEF Tick
  <2>2. PICK x \in Actors : Answer(x) \/ Renew(x) \/ ProbeLocal(x) \/ Recovered(x)
    BY <2>1, RowSteps
  <2>3. ~Recovered(x)
    BY RecoveredRows
  <2>4. ~ProbeLocal(x)
    BY LocalType
  <2>5. q \in [Ids -> Account] /\ q[a] \in Account
    BY DataTypes
  <2>6. ASSUME NEW row, row.class = q[a].class, row.conf = q[a].conf, row.rel = q[a].rel,
               row.cooling = q[a].cooling, q'[a] = row, world' = world
        PROVE  knownExhausted(a) <=> knownExhausted(a)'
    BY <2>6, SameKnown
  <2>7. /\ recordRefreshResult(a, TRUE).last.class = "expired"
        /\ recordRefreshResult(a, FALSE).class = q[a].class
        /\ recordRefreshResult(a, FALSE).conf = q[a].conf
        /\ recordRefreshResult(a, FALSE).rel = q[a].rel
        /\ recordRefreshResult(a, FALSE).cooling = q[a].cooling
    BY RefreshType
  <2>8. CASE Renew(x)
    <3> DEFINE b == Top(x).id
    <3>1. /\ b \in Ids /\ world' = world
          /\ \/ q' = q \/ q' = [q EXCEPT ![b] = Renewed(q[b])]
             \/ q' = [q EXCEPT ![b] = recordRefreshResult(b, FALSE)]
             \/ q' = [q EXCEPT ![b] = recordRefreshResult(b, TRUE)]
      BY <2>8, RenewRows
    <3> HIDE DEF b
    <3>2. a = b
      BY <2>5, <3>1
    <3>3. \/ q'[a] = Renewed(q[a]) \/ q'[a] = recordRefreshResult(a, FALSE)
          \/ q'[a] = recordRefreshResult(a, TRUE)
      <4>1. q' # q
        OBVIOUS
      <4> QED
        BY <2>5, <3>1, <3>2, <4>1
    <3>4. Renewed(q[a]).last = q[a].last
      BY <2>5, RenewedType
    <3>5. q'[a] = recordRefreshResult(a, FALSE)
      BY <2>7, <3>3, <3>4
    <3> QED
      BY <2>6, <2>7, <3>1, <3>5
  <2>9. CASE Answer(x)
    <3>1. PICK row \in Account, class \in Classes : Store(x, row, class) /\ Outcome(x, row, class)
      BY <2>9, AnswerStores
    <3>2. q' = [q EXCEPT ![Top(x).id] = row] /\ world' = world
      BY <3>1 DEF Store
    <3>3. Top(x).id = a /\ q'[a] = row
      BY <2>5, <3>2
    <3>4. ASSUME NEW r \in Asked(a)
          PROVE  /\ r \in Account /\ r.conf = q[a].conf /\ r.rel = q[a].rel
                 /\ r.cooling = q[a].cooling /\ r.class = q[a].class
                 /\ row # Answered(r, truth[a]) /\ row # Refused(r)
      <4>1. r \in Account
        BY AskedType
      <4>2. Answered(r, truth[a]).last.class \in {"ok", "exhausted"} /\ Refused(r).last.class = "expired"
        BY <4>1, AnsweredType, RefusedType
      <4> QED
        BY <3>3, <4>1, <4>2, AskedType
    <3>5. \/ row = recordRefreshResult(a, FALSE)
          \/ \E r \in Asked(a), throttled, authenticated \in BOOLEAN : row = Failed(r, throttled, authenticated)
      BY <2>7, <3>1, <3>3, <3>4 DEF Outcome
    <3>6. ASSUME NEW r \in Asked(a), NEW throttled \in BOOLEAN, NEW authenticated \in BOOLEAN,
                 row = Failed(r, throttled, authenticated)
          PROVE  /\ row.class = q[a].class /\ row.conf = q[a].conf /\ row.rel = q[a].rel
                 /\ row.cooling = q[a].cooling
      BY <3>4, <3>6, FailedType
    <3>7. /\ row.class = q[a].class /\ row.conf = q[a].conf /\ row.rel = q[a].rel
          /\ row.cooling = q[a].cooling
      BY <2>7, <3>5, <3>6
    <3> QED
      BY <2>6, <3>2, <3>3, <3>7
  <2> QED
    BY <2>2, <2>3, <2>4, <2>8, <2>9
<1> QED
  BY <1>1, InvInit, InvNext, PTL DEF Spec, FailureIsNoEvidence
-----------------------------------------------------------------------------
(* A throttling server's deadline *)

LEMMA Unlocked ==
  ASSUME Inv', NEW x \in Actors, act'[x].lock = FALSE
  PROVE  ~At(x, "wait")'
<1>1. Actors' = Actors
  BY DEF Actors
<1>2. act'[x].lock <=> Locked(act'[x].plan)
  BY <1>1 DEF Inv, PlanInv, PlanOK, Locked
<1>3. ~Locked(act'[x].plan)
  BY <1>2
<1> QED
  BY <1>3 DEF Locked, Locking, At, Top, Call

(* No request stands behind another call. *)
LEMMA Behind ==
  ASSUME Inv, NEW x \in Actors, Top(x).f # "", act'[x].plan = Later(x)
  PROVE  ~At(x, "wait")'
<1>1. Locked(Later(x)) => <<Top(x).f, Head(Later(x)).f>> \in Leads
  BY TopOK
<1>2. Locked(Later(x)) => Head(Later(x)).f # "wait"
  BY <1>1 DEF Leads
<1>3. Later(x) # <<>> => Head(Later(x)).f # "wait"
  BY <1>2 DEF Locked, Locking
<1>4. Top(x)' = IF Later(x) = <<>> THEN Call("") ELSE Head(Later(x))
  BY DEF Top, Call
<1>5. Call("").f = ""
  BY DEF Call
<1>6. At(x, "wait")' <=> Top(x)'.f = "wait"
  BY DEF At
<1> QED
  BY <1>3, <1>4, <1>5, <1>6

LEMMA GotBehind ==
  ASSUME Inv, NEW x \in Actors, Top(x).f # "", NEW class, NEW backoff, NEW lock,
         Got(x, class, backoff, lock)
  PROVE  ~At(x, "wait")'
<1>1. act \in [Actors -> Action]
  BY ActTypes DEF ActInv
<1>2. act'[x].plan = Later(x)
  <2>1. CASE Later(x) = <<>>
    <3> DEFINE r == [Idle EXCEPT !.plan = <<>>, !.lock = FALSE]
    <3>1. act' = [act EXCEPT ![x] = r]
      BY <2>1 DEF Got, Returns
    <3>2. r.plan = <<>>
      BY DEF Idle
    <3> HIDE DEF r
    <3> QED
      BY <1>1, <2>1, <3>1, <3>2
  <2>2. CASE Later(x) # <<>>
    <3> DEFINE r == [plan |-> Later(x), lock |-> lock, class |-> class, backoff |-> backoff]
    <3>1. act' = [act EXCEPT ![x] = r] /\ r.plan = Later(x)
      BY <2>2 DEF Got
    <3> HIDE DEF r
    <3> QED
      BY <1>1, <3>1
  <2> QED
    BY <2>1, <2>2
<1> QED
  BY <1>2, Behind

LEMMA ReturnsUnlocked ==
  ASSUME Inv, Inv', NEW x \in Actors, NEW p, Returns(x, p, FALSE)
  PROVE  ~At(x, "wait")'
<1>1. act'[x].lock = FALSE
  BY Returned
<1> QED
  BY <1>1, Unlocked

LEMMA DoUnlocked ==
  ASSUME Inv, Inv', NEW x \in Actors, Top(x).f # "", Top(x).f \notin Locking,
         NEW calls, Do(x, calls)
  PROVE  ~At(x, "wait")'
<1>1. act[x].lock = FALSE
  BY TopOK DEF Action
<1>2. Returns(x, calls \o Later(x), FALSE)
  BY <1>1 DEF Do
<1> QED
  BY <1>2, ReturnsUnlocked

(* The calls after which the actor has no lock. *)
LEMMA FreeCalls ==
  ASSUME Inv, NEW x \in Actors, Step(x), ~Probe(x), ~ProbeAuto(x), ~Confirm(x), ~Answer(x),
         ~pickNext(x), ~TryApply(x), ~Source(x)
  PROVE  act'[x].lock = FALSE /\ \E p : Returns(x, p, FALSE)
<1>1. ASSUME Top(x).f # "", Top(x).f \notin Locking, NEW calls, Do(x, calls)
      PROVE  Returns(x, calls \o Later(x), FALSE)
  <2>1. act[x].lock = FALSE
    BY <1>1, TopOK DEF Action
  <2> QED
    BY <1>1, <2>1 DEF Do
<1>2. CASE \E calls : Top(x).f # "" /\ Top(x).f \notin Locking /\ Do(x, calls)
  BY <1>1, <1>2, Returned
<1>3. ASSUME ProbeLocal(x) \/ ProbeHTTP(x) \/ Judge(x) \/ ProbeLimitHit(x) \/ ProbeRecovered(x)
      PROVE  Top(x).f # "" /\ Top(x).f \notin Locking /\ \E calls : Do(x, calls)
  <2>1. CASE ProbeLocal(x)
    BY <2>1 DEF ProbeLocal, At, Locking, Done
  <2>2. CASE ProbeHTTP(x)
    BY <2>2 DEF ProbeHTTP, At, Locking
  <2>3. CASE Judge(x)
    BY <2>3 DEF Judge, At, Locking
  <2>4. CASE ProbeLimitHit(x)
    BY <2>4 DEF ProbeLimitHit, At, Locking
  <2>5. CASE ProbeRecovered(x)
    BY <2>5 DEF ProbeRecovered, At, Locking
  <2> QED
    BY <1>3, <2>1, <2>2, <2>3, <2>4, <2>5
<1>4. ASSUME \/ Recovered(x) \/ ProbeReset(x) \/ Queue(x) \/ considerExpiring(x) \/ SetPending(x)
             \/ KeepAlive(x) \/ Renew(x)
      PROVE  Top(x).f # "" /\ Top(x).f \notin Locking /\ \E calls : Do(x, calls)
  <2>1. CASE Recovered(x)
    BY <2>1 DEF Recovered, At, Locking, Done
  <2>2. CASE ProbeReset(x)
    BY <2>2 DEF ProbeReset, At, Locking
  <2>3. CASE Queue(x)
    BY <2>3 DEF Queue, At, Locking
  <2>4. CASE considerExpiring(x)
    BY <2>4 DEF considerExpiring, At, Locking
  <2>5. CASE SetPending(x)
    BY <2>5 DEF SetPending, At, Locking
  <2>6. CASE KeepAlive(x)
    BY <2>6 DEF KeepAlive, At, Locking, Done
  <2>7. CASE Renew(x)
    BY <2>7 DEF Renew, At, Locking, Done
  <2> QED
    BY <1>4, <2>1, <2>2, <2>3, <2>4, <2>5, <2>6, <2>7
<1>5. CASE candidateRank(x)
  <2>1. \E p : Returns(x, p, FALSE)
    BY <1>5 DEF candidateRank
  <2> QED
    BY <2>1, Returned
<1>6. CASE Target(x)
  <2>1. End(x)
    BY <1>6 DEF Target, cancelSwitch, Leave
  <2> QED
    BY <2>1, Returned DEF End
<1> QED
  BY <1>2, <1>3, <1>4, <1>5, <1>6 DEF Step

(* The calls that never come to a request at once. *)
LEMMA QuietCalls ==
  ASSUME Inv, Inv', NEW x \in Actors, Step(x), ~Probe(x), ~ProbeAuto(x), ~pickNext(x)
  PROVE  ~At(x, "wait")'
<1>1. CASE Confirm(x)
  <2>1. Top(x).f = "confirm"
    BY <1>1 DEF Confirm, At
  <2>2. PICK class, lock : Got(x, class, FALSE, lock)
    BY <1>1 DEF Confirm
  <2> QED
    BY <2>1, <2>2, GotBehind
<1>2. CASE Answer(x)
  <2>1. Top(x).f = "wait"
    BY <1>2, AnswerStores DEF At
  <2>2. PICK row, class : Store(x, row, class)
    BY <1>2, AnswerStores
  <2>3. PICK lock : Got(x, class, FALSE, lock)
    BY <2>2 DEF Store
  <2> QED
    BY <2>1, <2>3, GotBehind
<1>3. CASE TryApply(x)
  <2>1. CASE End(x)
    BY <2>1, ReturnsUnlocked DEF End
  <2>2. CASE ~End(x)
    <3> DEFINE c(f) == [Call(f) EXCEPT !.id = pending.to, !.from = pending.from, !.why = pending.why]
               first == IF pending.why = "expiring" \/ knownExhausted(pending.from) THEN <<>>
                        ELSE <<Automatic(pending.from), c("source")>>
               two == <<Automatic(pending.to), c("target")>>
    <3>1. Returns(x, first \o two \o Later(x), TRUE)
      BY <1>3, <2>2 DEF TryApply, Leave, cancelSwitch
    <3>2. Top(x).f = "apply"
      BY <1>3 DEF TryApply, At
    <3>3. Later(x) \in Seq(Calls)
      BY <3>2, TopOK
    <3>4. \A a : Automatic(a).f = "auto"
      BY DEF Automatic, Call
    <3> DEFINE S == Calls \cup {Automatic(pending.from), c("source"), Automatic(pending.to), c("target")}
               p == first \o two
    <3> HIDE DEF c
    <3>5. p \in Seq(S) /\ p # <<>> /\ Head(p) \in {Automatic(pending.from), Automatic(pending.to)}
      <4>1. first \in Seq(S) /\ two \in Seq(S) /\ two # <<>> /\ Head(two) = Automatic(pending.to)
        <5>1. /\ Automatic(pending.from) \in S /\ c("source") \in S /\ Automatic(pending.to) \in S
              /\ c("target") \in S
          OBVIOUS
        <5> HIDE DEF S
        <5>2. two \in Seq(S) /\ <<Automatic(pending.from), c("source")>> \in Seq(S) /\ <<>> \in Seq(S)
          BY <5>1
        <5>3. first \in {<<>>, <<Automatic(pending.from), c("source")>>}
          OBVIOUS
        <5>4. two # <<>> /\ Head(two) = Automatic(pending.to)
          OBVIOUS
        <5> HIDE DEF first, two
        <5> QED
          BY <5>2, <5>3, <5>4
      <4>2. first # <<>> => Head(first) = Automatic(pending.from)
        OBVIOUS
      <4> HIDE DEF first, two, S
      <4>3. /\ p \in Seq(S) /\ (first # <<>> => p # <<>> /\ Head(p) = Head(first))
            /\ first = <<>> => p = two
        BY <4>1, Joined
      <4> QED
        BY <4>1, <4>2, <4>3
    <3>6. Later(x) \in Seq(S)
      <4>1. Calls \subseteq S
        OBVIOUS
      <4> HIDE DEF S
      <4> QED
        BY <3>3, <4>1
    <3>7. act'[x].plan = p \o Later(x)
      <4>1. p \o Later(x) = first \o two \o Later(x)
        OBVIOUS
      <4> QED
        BY <3>1, <4>1, Returned
    <3> HIDE DEF p, S
    <3>8. p \o Later(x) # <<>> /\ Head(p \o Later(x)) = Head(p)
      BY <3>5, <3>6, Joined
    <3>9. Top(x)' = Head(p)
      BY <3>7, <3>8 DEF Top
    <3>10. Head(p).f = "auto"
      BY <3>4, <3>5
    <3> QED
      BY <3>9, <3>10 DEF At
  <2> QED
    BY <2>1, <2>2
<1>4. CASE Source(x)
  <2>1. Top(x).f = "source"
    BY <1>4 DEF Source, At
  <2>2. CASE Done(x)
    <3>1. Later(x) \in Seq(Calls)
      BY <2>1, TopOK
    <3>2. <<>> \o Later(x) = Later(x)
      BY <3>1, ConcatEmptySeq
    <3>3. act'[x].plan = Later(x)
      BY <2>2, <3>2, Returned DEF Done, Do
    <3> QED
      BY <2>1, <3>3, Behind
  <2>3. CASE ~Done(x)
    <3>1. \E p : Returns(x, p, FALSE)
      BY <1>4, <2>3 DEF Source
    <3> QED
      BY <3>1, ReturnsUnlocked
  <2> QED
    BY <2>2, <2>3
<1> QED
  BY <1>1, <1>2, <1>3, <1>4, FreeCalls, Unlocked

(* A request is only decided on where the account does not wait, or waits for
   no throttling server. *)
LEMMA Asks ==
  ASSUME Inv, NEW x \in Actors, Probe(x) \/ ProbeAuto(x) \/ pickNext(x), At(x, "wait")'
  PROVE  /\ Top(x)'.id \in Ids /\ UNCHANGED <<Still, q>>
         /\ Waits(Top(x)'.id) => ~q[Top(x)'.id].last.throttled
<1>1. UNCHANGED <<Still, q>>
  BY PlainInv DEF Still
<1>2. ASSUME NEW a \in Ids, NEW r, NEW S, With("wait", a) \in S, r \in Seq(S),
             act'[x].plan = <<With("wait", a)>> \o r
      PROVE  Top(x)'.id = a
  <2>1. <<With("wait", a)>> \in Seq(S) /\ <<With("wait", a)>> # <<>>
        /\ Head(<<With("wait", a)>>) = With("wait", a)
    BY <1>2
  <2> DEFINE p == <<With("wait", a)>>
  <2> HIDE DEF p
  <2>2. p \o r # <<>> /\ Head(p \o r) = Head(p)
    BY <1>2, <2>1, Joined DEF p
  <2>3. Top(x)' = With("wait", a)
    BY <1>2, <2>1, <2>2 DEF Top, p
  <2> QED
    BY <2>3, WithType DEF Names
<1>3. ASSUME NEW a \in Ids, NEW r \in Seq(Calls), act'[x].plan = Requests(a) \o r
      PROVE  Top(x)'.id = a
  <2>1. With("wait", a) \in Calls /\ With("confirm", a) \in Calls
    BY WithType DEF Names
  <2>2. Requests(a) \o r = <<With("wait", a)>> \o (<<With("confirm", a)>> \o r)
        /\ <<With("confirm", a)>> \o r \in Seq(Calls)
    <3> DEFINE d == With("wait", a)  e == With("confirm", a)
    <3>1. <<d, e>> = <<d>> \o <<e>> /\ <<d>> \in Seq(Calls) /\ <<e>> \in Seq(Calls)
      BY <2>1
    <3>2. Requests(a) = <<d, e>>
      BY DEF Requests
    <3> HIDE DEF d, e
    <3>3. (<<d>> \o <<e>>) \o r = <<d>> \o (<<e>> \o r) /\ <<e>> \o r \in Seq(Calls)
      BY <3>1, ConcatAssociative, ConcatProperties
    <3> QED
      BY <3>1, <3>2, <3>3 DEF d, e
  <2> QED
    BY <1>2, <1>3, <2>1, <2>2
<1>4. ASSUME NEW a \in Ids, automaticQuota(a) = "ask" PROVE ~Waits(a)
  BY <1>4 DEF automaticQuota, Held
<1>5. CASE Probe(x)
  <2> DEFINE a == Top(x).id
  <2>1. Top(x).f = "ask"
    BY <1>5 DEF Probe, At
  <2>2. a \in Ids /\ Later(x) \in Seq(Calls)
    BY <2>1, TopOK DEF CallOK
  <2>3. ASSUME Waits(a), q[a].last.throttled PROVE FALSE
    <3>1. Got(x, q[a].class, TRUE, FALSE)
      BY <1>5, <2>3 DEF Probe
    <3> QED
      BY <2>1, <3>1, GotBehind
  <2>4. \/ \E class, backoff : Got(x, class, backoff, FALSE)
        \/ Returns(x, <<With("wait", a)>> \o Later(x), TRUE)
    BY <1>5 DEF Probe
  <2> HIDE DEF a
  <2>5. Returns(x, <<With("wait", a)>> \o Later(x), TRUE)
    BY <2>1, <2>4, GotBehind
  <2>6. act'[x].plan = <<With("wait", a)>> \o Later(x)
    BY <2>5, Returned
  <2>7. With("wait", a) \in Calls
    BY <2>2, WithType DEF Names
  <2>8. Top(x)'.id = a
    BY <1>2, <2>2, <2>6, <2>7
  <2> QED
    BY <1>1, <2>2, <2>3, <2>8
<1>6. CASE ProbeAuto(x)
  <2> DEFINE a == Top(x).id
  <2>1. Top(x).f = "auto"
    BY <1>6 DEF ProbeAuto, At
  <2>2. a \in Ids /\ Later(x) \in Seq(Calls)
    BY <2>1, TopOK DEF CallOK
  <2>3. \/ Got(x, automaticQuota(a), FALSE, TRUE)
        \/ automaticQuota(a) = "ask" /\ Returns(x, Requests(a) \o Later(x), act[x].lock)
    BY <1>6 DEF ProbeAuto, Do
  <2> HIDE DEF a
  <2>4. automaticQuota(a) = "ask" /\ act'[x].plan = Requests(a) \o Later(x)
    BY <2>1, <2>3, GotBehind, Returned
  <2>5. Top(x)'.id = a /\ ~Waits(a)
    BY <1>3, <1>4, <2>2, <2>4
  <2> QED
    BY <1>1, <2>2, <2>5
<1>7. CASE pickNext(x)
  <2> DEFINE c == Top(x)  a == Candidate(c)
  <2>1. Top(x).f = "pick"
    BY <1>7 DEF pickNext, At
  <2>2. Inv'
    BY <1>7, PlainInv
  <2>3. ~\E calls : Do(x, calls)
    BY <2>1, <2>2, DoUnlocked DEF Locking
  <2>4. /\ c.ids # {} /\ automaticQuota(a) = "ask"
        /\ Returns(x, Requests(a) \o <<[c EXCEPT !.f = "rank"]>> \o Later(x), TRUE)
    BY <1>7, <2>3 DEF pickNext
  <2>5. c \in Calls /\ c.from \in Ids /\ Later(x) \in Seq(Calls)
    BY <2>1, TopOK DEF CallOK
  <2>6. a \in Ids
    BY <2>4, <2>5, RankedChain
  <2> DEFINE d == [c EXCEPT !.f = "rank"]
  <2>7. d \in Calls
    BY <2>5 DEF Calls
  <2>8. Returns(x, Requests(a) \o <<d>> \o Later(x), TRUE)
    BY <2>4
  <2> HIDE DEF a, c, d
  <2>9. /\ Requests(a) \o <<d>> \o Later(x) = Requests(a) \o (<<d>> \o Later(x))
        /\ <<d>> \o Later(x) \in Seq(Calls)
    <3>1. Requests(a) \in Seq(Calls)
      BY <2>6, WithType DEF Requests, Names
    <3>2. <<d>> \in Seq(Calls)
      BY <2>7
    <3> DEFINE e == <<d>>
    <3> HIDE DEF e
    <3>3. Requests(a) \o e \o Later(x) = Requests(a) \o (e \o Later(x)) /\ e \o Later(x) \in Seq(Calls)
      BY <2>5, <3>1, <3>2, ConcatAssociative, ConcatProperties DEF e
    <3> QED
      BY <3>3 DEF e
  <2>10. act'[x].plan = Requests(a) \o (<<d>> \o Later(x))
    BY <2>8, <2>9, Returned
  <2>11. Top(x)'.id = a /\ ~Waits(a)
    BY <1>3, <1>4, <2>4, <2>6, <2>9, <2>10
  <2> QED
    BY <1>1, <2>6, <2>11
<1> QED
  BY <1>5, <1>6, <1>7

LEMMA StepMoves == ASSUME Inv, NEW x \in Actors, Step(x) PROVE Moved(x)
BY KeepAliveMoves, RenewMoves, ProbeMoves, ProbeAutoMoves, ConfirmMoves, AnswerMoves,
   ProbeLocalMoves, ProbeHTTPMoves, JudgeMoves, ProbeLimitHitMoves, ProbeRecoveredMoves,
   RecoveredMoves, ProbeResetMoves, pickNextMoves, candidateRankMoves, QueueMoves,
   considerExpiringMoves, SetPendingMoves, TryApplyMoves, SourceMoves, TargetMoves DEF Step, Passes

(* An actor is at a request since before the step, or the step decided on it. *)
LEMMA WaitSteps ==
  ASSUME Inv, Inv', [Next]_vars, NEW x \in Actors, At(x, "wait")'
  PROVE  \/ Top(x)' = Top(x)
         \/ /\ Top(x)'.id \in Ids /\ UNCHANGED <<Still, q>>
            /\ Waits(Top(x)'.id) => ~q[Top(x)'.id].last.throttled
<1>1. ASSUME act'[x] = act[x] PROVE Top(x)' = Top(x)
  BY <1>1 DEF Top, Call
<1>2. act \in [Actors -> Action]
  BY ActTypes DEF ActInv
<1>3. ASSUME NEW y \in Actors, act[y].plan = <<>>, NEW p, act' = [act EXCEPT ![y].plan = p]
      PROVE  Top(x)' = Top(x)
  <2>1. CASE x = y
    <3>1. act'[x].lock = act[x].lock
      BY <1>2, <1>3, <2>1
    <3>2. act[x].lock = FALSE
      BY <1>2, <1>3, <2>1 DEF Inv, TypeOK, Action
    <3> QED
      BY <3>1, <3>2, Unlocked
  <2>2. CASE x # y
    BY <1>1, <1>2, <1>3, <2>2
  <2> QED
    BY <2>1, <2>2
<1>4. CASE UNCHANGED act
  BY <1>1, <1>4
<1>5. ASSUME NEW y \in Actors, Step(y)
      PROVE  Top(x)' = Top(x) \/ (y = x /\ (Probe(x) \/ ProbeAuto(x) \/ pickNext(x)))
  <2>1. CASE x = y
    BY <1>5, <2>1, QuietCalls
  <2>2. CASE x # y
    <3>1. \E r : act' = [act EXCEPT ![y] = r]
      BY <1>5, StepMoves DEF Moved
    <3> QED
      BY <1>1, <1>2, <2>2, <3>1
  <2> QED
    BY <2>1, <2>2
<1>6. ASSUME NEW t \in due, runToolWorker(t) PROVE Top(x)' = Top(x)
  <2>1. /\ "worker" \in Actors /\ act["worker"].plan = <<>>
        /\ act' = [act EXCEPT !["worker"].plan = Plan(t)]
    BY <1>6 DEF runToolWorker, Actors
  <2> QED
    BY <1>3, <2>1
<1>7. CASE Refresh
  <2>1. "web" \in Actors /\ act["web"].plan = <<>> /\ \E p : act' = [act EXCEPT !["web"].plan = p]
    BY <1>7 DEF Refresh, Manual, Actors
  <2> QED
    BY <1>3, <2>1
<1>8. ASSUME NEW a \in Ids, RefreshOne(a) PROVE Top(x)' = Top(x)
  <2>1. "web" \in Actors /\ act["web"].plan = <<>> /\ \E p : act' = [act EXCEPT !["web"].plan = p]
    BY <1>8 DEF RefreshOne, Manual, Actors
  <2> QED
    BY <1>3, <2>1
<1>9. CASE UNCHANGED vars
  BY <1>4, <1>9 DEF vars
<1>10. ASSUME NEW a \in Ids, Switch(a) \/ EarlyReset(a) PROVE UNCHANGED act
  BY <1>10 DEF Switch, EarlyReset, World
<1>11. ASSUME NEW win \in {0, Window}, Use(win) PROVE UNCHANGED act
  BY <1>11 DEF Use, World
<1>12. Settle \/ Reload \/ Tick => UNCHANGED act
  BY DEF Settle, Reload, Tick, World
<1> QED
  BY <1>4, <1>5, <1>6, <1>7, <1>8, <1>9, <1>10, <1>11, <1>12, Asks DEF Next, Work

(* A provider's deadline is in the last row of the account's log, the row does
   not forget it before, and no actor is about to ask for the account. *)
DeadlineInv ==
  /\ "log" \notin world => event.age = Cap
  /\ \A a \in Ids : deadline[a] > 0 /\ a \notin hidden =>
       /\ q[a].last.throttled /\ q[a].delay - q[a].http >= deadline[a]
       /\ \A x \in Actors : ~(At(x, "wait") /\ Top(x).id = a)

LEMMA EventQuiet ==
  ASSUME Inv, [Next]_vars
  PROVE  world' = world /\ ("log" \notin world /\ event.age = Cap => event'.age = Cap)
<1>1. ASSUME NEW x \in Actors, Step(x) PROVE UNCHANGED <<world, event>>
  <2>1. CASE Answer(x)
    BY <2>1, AnswerStores DEF Store
  <2>2. CASE ProbeLimitHit(x) \/ ProbeLocal(x) \/ Recovered(x)
    BY <2>2 DEF ProbeLimitHit, ProbeLocal, Recovered, Still, Outside
  <2>3. CASE SetPending(x) \/ TryApply(x) \/ Source(x) \/ Target(x)
    BY <2>3 DEF SetPending, TryApply, Source, Target, Still, Outside
  <2>4. CASE Renew(x)
    BY <2>4, RenewRows
  <2> QED
    BY <1>1, <2>1, <2>2, <2>3, <2>4, PlainInv DEF Step, Still, Outside
<1>2. ASSUME NEW t \in due, runToolWorker(t) PROVE UNCHANGED <<world, event>>
  BY <1>2 DEF runToolWorker
<1>3. ASSUME NEW a \in Ids, RefreshOne(a) \/ Switch(a) \/ EarlyReset(a)
      PROVE  UNCHANGED <<world, event>>
  BY <1>3 DEF RefreshOne, Switch, EarlyReset, World, Manual
<1>4. ASSUME NEW win \in {0, Window}, Use(win) 
      PROVE  world' = world /\ ("log" \notin world => event' = event)
  BY <1>4 DEF Use, World
<1>5. Refresh \/ Settle \/ Reload => UNCHANGED <<world, event>>
  BY DEF Refresh, Settle, Reload, World, Manual
<1>6. CASE Tick
  <2>1. world' = world /\ event' = [event EXCEPT !.age = Older(@)]
    BY <1>6 DEF Tick
  <2>2. event \in [age : Ages, win : 0..Window]
    BY DataTypes
  <2>3. Older(Cap) = Cap
    BY Bounds, MinType DEF Older
  <2> QED
    BY <2>1, <2>2, <2>3
<1>7. CASE UNCHANGED vars
  BY <1>7 DEF vars
<1> QED
  BY <1>1, <1>2, <1>3, <1>4, <1>5, <1>6, <1>7 DEF Next, Work

(* No step makes an actor come to a request against a deadline. *)
LEMMA DeadlineStays ==
  ASSUME Inv, Inv', [Next]_vars, DeadlineInv, NEW a \in Ids, deadline[a] > 0, a \notin hidden,
         NEW x \in Actors, At(x, "wait")'
  PROVE  Top(x)'.id # a
<1>1. /\ q[a].last.throttled /\ q[a].delay - q[a].http >= deadline[a]
      /\ ~(At(x, "wait") /\ Top(x).id = a)
  BY DEF DeadlineInv
<1>2. q[a].delay \in Int /\ q[a].http \in Int /\ deadline[a] \in Int
  <2>1. q[a].delay \in Ages /\ q[a].http \in Ages /\ deadline[a] \in Ages
    BY RowTypes, Parts DEF Account, Data
  <2> QED
    BY <2>1, TimeType
<1>3. Waits(a)
  BY <1>1, <1>2 DEF Waits
<1>4. CASE Top(x)' = Top(x)
  BY <1>1, <1>4 DEF At
<1>5. CASE Top(x)' # Top(x)
  BY <1>1, <1>3, <1>5, WaitSteps
<1> QED
  BY <1>4, <1>5

(* Only a throttled answer has a deadline, and the row keeps it. *)
LEMMA ThrottledRow ==
  ASSUME Inv, NEW x \in Actors, Top(x).id \in Ids, NEW row, NEW class, Outcome(x, row, class),
         row.last.throttled
  PROVE  row.http = 0 /\ row.delay >= ServerDelay
<1> DEFINE a == Top(x).id
<1>1. ASSUME NEW r \in Asked(a)
      PROVE  /\ row # Answered(r, truth[a]) /\ row # Refused(r)
             /\ \A throttled, authenticated \in BOOLEAN :
                  row = Failed(r, throttled, authenticated) => row.http = 0 /\ row.delay >= ServerDelay
  <2>1. r \in Account
    BY AskedType
  <2>2. Answered(r, truth[a]).last.throttled = FALSE /\ Refused(r).last.throttled = FALSE
    BY <2>1, AnsweredType, RefusedType
  <2>3. ASSUME NEW throttled \in BOOLEAN, NEW authenticated \in BOOLEAN,
               row = Failed(r, throttled, authenticated)
        PROVE  row.http = 0 /\ row.delay >= ServerDelay
    BY <2>1, <2>3, FailedType
  <2> QED
    BY <2>2, <2>3
<1>2. row # recordRefreshResult(a, FALSE) /\ row # recordRefreshResult(a, TRUE)
  BY RefreshType
<1> QED
  BY <1>1, <1>2 DEF Outcome

(* While the answer of one actor is stored, no other is at a request. *)
LEMMA AnswersAlone ==
  ASSUME Inv, Inv', [Next]_vars, NEW y \in Actors, Answer(y), NEW x \in Actors
  PROVE  ~At(x, "wait")'
<1>1. At(y, "wait") /\ act[y].lock = TRUE
  BY AnswerStores, KeepsLock
<1>2. CASE x = y
  <2>1. PICK row, class : Store(y, row, class)
    BY AnswerStores
  <2>2. \E lock : Got(y, class, FALSE, lock)
    BY <2>1 DEF Store
  <2> QED
    BY <1>1, <1>2, <2>2, GotBehind DEF At
<1>3. CASE x # y
  <2>1. ~At(x, "wait")
    <3>1. ~(act[x].lock /\ act[y].lock)
      BY <1>3 DEF Inv, TypeOK, Actors
    <3> QED
      BY <1>1, <3>1, KeepsLock
  <2>2. act'[x] = act[x]
    <3>1. \E r : act' = [act EXCEPT ![y] = r]
      BY AnswerMoves DEF Moved
    <3>2. act \in [Actors -> Action]
      BY ActTypes DEF ActInv
    <3> QED
      BY <1>3, <3>1, <3>2
  <2> QED
    BY <2>1, <2>2 DEF At, Top, Call
<1> QED
  BY <1>2, <1>3

(* A step that changes no deadline and covers up what it overwrites. *)
LEMMA HidingSteps ==
  ASSUME Inv, NEW y \in Actors, Recovered(y) \/ ProbeLocal(y) \/ Renew(y),
         NEW a \in Ids, deadline'[a] > 0, a \notin hidden'
  PROVE  /\ deadline'[a] = deadline[a] /\ a \notin hidden
         /\ q'[a].http = q[a].http /\ q'[a].delay = q[a].delay /\ q'[a].last = q[a].last
<1>1. ASSUME NEW b, Hides(b), deadline' = deadline PROVE a # b /\ a \notin hidden
  BY <1>1 DEF Hides
<1>2. q \in [Ids -> Account]
  BY DataTypes
<1>3. CASE Recovered(y)
  BY <1>3, RecoveredRows DEF Recovered, Still, Outside
<1>4. CASE ProbeLocal(y)
  <2>1. deadline' = deadline /\ (Hides(pointer) \/ UNCHANGED <<q, hidden>>)
    BY <1>4 DEF ProbeLocal
  <2>2. a # pointer => q'[a] = q[a]
    BY <1>4, LocalType
  <2> QED
    BY <1>1, <2>1, <2>2
<1>5. CASE Renew(y)
  <2> DEFINE b == Top(y).id
  <2>1. \/ UNCHANGED <<q, hidden>>
        \/ q' = [q EXCEPT ![b] = Renewed(q[b])] /\ q[b].class # "expired" /\ UNCHANGED hidden
        \/ Hides(b)
    BY <1>5, Zenon DEF Renew
  <2>2. /\ b \in Ids /\ deadline' = deadline
        /\ \E row : q' = q \/ q' = [q EXCEPT ![b] = row]
    BY <1>5, RenewRows
  <2> HIDE DEF b
  <2>3. CASE Hides(b)
    BY <1>1, <1>2, <2>2, <2>3
  <2>4. CASE UNCHANGED <<q, hidden>>
    BY <2>2, <2>4
  <2>5. CASE q' = [q EXCEPT ![b] = Renewed(q[b])] /\ q[b].class # "expired" /\ UNCHANGED hidden
    <3>1. /\ Renewed(q[b]).http = q[b].http /\ Renewed(q[b]).delay = q[b].delay
          /\ Renewed(q[b]).last = q[b].last
      BY <1>2, <2>2, <2>5, RenewedType
    <3> QED
      BY <1>2, <2>2, <2>5, <3>1
  <2> QED
    BY <2>1, <2>3, <2>4, <2>5
<1> QED
  BY <1>3, <1>4, <1>5

LEMMA DeadlineNext == Inv /\ Inv' /\ DeadlineInv /\ [Next]_vars => DeadlineInv'
<1> SUFFICES ASSUME Inv, Inv', DeadlineInv, [Next]_vars PROVE DeadlineInv'
  OBVIOUS
<1>1. world' = world /\ ("log" \notin world => event'.age = Cap)
  BY EventQuiet DEF DeadlineInv
<1>2. Ids' = Ids /\ Actors' = Actors
  BY <1>1 DEF Ids
<1>3. ASSUME NEW a \in Ids, deadline'[a] > 0, a \notin hidden'
      PROVE  /\ q'[a].last.throttled /\ q'[a].delay - q'[a].http >= deadline'[a]
             /\ \A x \in Actors : ~(At(x, "wait")' /\ Top(x)'.id = a)
  <2>1. /\ q \in [Ids -> Account] /\ q[a].http \in Ages /\ q[a].delay \in Ages
        /\ deadline \in [Ids -> Ages] /\ hidden \subseteq Ids
    BY DataTypes, RowTypes, Parts DEF Account, Data
  <2>2. ASSUME deadline'[a] = deadline[a], a \notin hidden, q'[a].http = q[a].http,
               q'[a].delay = q[a].delay, q'[a].last = q[a].last
        PROVE  /\ q'[a].last.throttled /\ q'[a].delay - q'[a].http >= deadline'[a]
               /\ \A x \in Actors : ~(At(x, "wait")' /\ Top(x)'.id = a)
    <3>1. deadline[a] > 0 /\ a \notin hidden
      BY <1>3, <2>2
    <3>2. q[a].last.throttled /\ q[a].delay - q[a].http >= deadline[a]
      BY <3>1 DEF DeadlineInv
    <3> QED
      BY <2>2, <3>1, <3>2, DeadlineStays
  <2>3. CASE UNCHANGED <<q, deadline, hidden>>
    BY <1>3, <2>2, <2>3
  <2>4. CASE Tick
    <3>1. deadline'[a] = Nearer(deadline[a]) /\ hidden' = {b \in hidden : deadline[b] > 1}
          /\ q'[a] = Aged(q[a])
      BY <2>4 DEF Tick
    <3>2. deadline[a] \in Int /\ deadline[a] >= 0 /\ Cap \in Int
      BY <2>1, Bounds DEF Ages
    <3>3. Nearer(deadline[a]) = IF deadline[a] - 1 >= 0 THEN deadline[a] - 1 ELSE 0
      BY <3>2, MaxType DEF Nearer
    <3> HIDE DEF Nearer
    <3>4. deadline[a] > 1 /\ deadline'[a] = deadline[a] - 1 /\ a \notin hidden
      BY <1>3, <3>1, <3>2, <3>3
    <3>5. q[a].last.throttled /\ q[a].delay - q[a].http >= deadline[a] /\ deadline[a] > 0
      BY <3>2, <3>4 DEF DeadlineInv
    <3>6. /\ Aged(q[a]).delay = q[a].delay /\ Aged(q[a]).last.throttled = q[a].last.throttled
          /\ Aged(q[a]).http = Older(q[a].http)
      BY <2>1, AgedType
    <3>7. q[a].http \in Int /\ q[a].delay \in Int /\ Older(q[a].http) \in Int
      BY <2>1, TimeType
    <3>8. Older(q[a].http) <= q[a].http + 1
      <4>1. Older(q[a].http) = IF q[a].http + 1 <= Cap THEN q[a].http + 1 ELSE Cap
        BY <3>2, <3>7, MinType DEF Older
      <4> HIDE DEF Older
      <4> QED
        BY <3>2, <3>7, <4>1
    <3> HIDE DEF Older, Aged
    <3>9. q'[a].last.throttled /\ q'[a].delay - q'[a].http >= deadline'[a]
      BY <3>1, <3>2, <3>4, <3>5, <3>6, <3>7, <3>8
    <3> QED
      BY <3>4, <3>5, <3>9, DeadlineStays
  <2>5. ASSUME NEW y \in Actors, Recovered(y) \/ ProbeLocal(y) \/ Renew(y)
        PROVE  /\ q'[a].last.throttled /\ q'[a].delay - q'[a].http >= deadline'[a]
               /\ \A x \in Actors : ~(At(x, "wait")' /\ Top(x)'.id = a)
    BY <1>3, <2>2, <2>5, HidingSteps
  <2>6. ASSUME NEW y \in Actors, Answer(y)
        PROVE  /\ q'[a].last.throttled /\ q'[a].delay - q'[a].http >= deadline'[a]
               /\ \A x \in Actors : ~(At(x, "wait")' /\ Top(x)'.id = a)
    <3> DEFINE b == Top(y).id
    <3>1. PICK row \in Account, class \in Classes : Store(y, row, class) /\ Outcome(y, row, class)
      BY <2>6, AnswerStores
    <3>2. b \in Ids /\ At(y, "wait")
      BY <2>6, AnswerStores
    <3>3. q' = [q EXCEPT ![b] = row]
      BY <3>1 DEF Store
    <3>4. IF row.last.throttled
          THEN deadline' = [deadline EXCEPT ![b] = ServerDelay] /\ hidden' = hidden \ {b}
          ELSE UNCHANGED <<deadline, hidden>>
      BY <3>1 DEF Store
    <3>5. CASE b # a
      <4>1. q'[a] = q[a] /\ deadline'[a] = deadline[a] /\ a \notin hidden
        BY <1>3, <2>1, <3>2, <3>3, <3>4, <3>5
      <4> QED
        BY <2>2, <4>1
    <3>6. CASE b = a
      <4>1. row.last.throttled
        <5> SUFFICES ASSUME ~row.last.throttled PROVE FALSE
          OBVIOUS
        <5>1. deadline[a] > 0 /\ a \notin hidden
          BY <1>3, <3>4
        <5> QED
          BY <3>2, <3>6, <5>1 DEF DeadlineInv
      <4>2. q'[a] = row /\ deadline'[a] = ServerDelay
        BY <2>1, <3>2, <3>3, <3>4, <3>6, <4>1
      <4>3. row.http = 0 /\ row.delay >= ServerDelay
        BY <3>1, <3>2, <4>1, ThrottledRow
      <4>4. row.delay \in Int /\ ServerDelay \in Int
        BY Bounds, TimeType DEF Account
      <4> QED
        BY <2>6, <4>1, <4>2, <4>3, <4>4, AnswersAlone
    <3> QED
      BY <3>5, <3>6
  <2> QED
    BY <2>3, <2>4, <2>5, <2>6, RowSteps
<1> QED
  BY <1>1, <1>2, <1>3 DEF DeadlineInv

LEMMA DeadlineStart == Init => DeadlineInv
BY DEF Init, DeadlineInv, NoEvent

(* No request is made before a throttling server's deadline (probeAccountLocked
   and serverThrottled), by the worker or the web server, of one's own or after
   pickNext and TryApply looked at the row, as long as nothing but a request
   logs a row for the account: neither a line of its client's log nor a renewal
   of its sign-in (recordRefreshResult). *)
THEOREM DeadlinesStand == Spec => DeadlineKept
<1>1. Inv /\ Inv' /\ DeadlineInv /\ [Next]_vars =>
        [\A x \in Actors : Requested(x) => deadline[Top(x)'.id] = 0 \/ Top(x)'.id \in hidden]_vars
  <2> SUFFICES ASSUME Inv, Inv', DeadlineInv, [Next]_vars, NEW x \in Actors, Requested(x),
                      deadline[Top(x)'.id] # 0, Top(x)'.id \notin hidden
               PROVE  FALSE
    OBVIOUS
  <2> DEFINE a == Top(x)'.id
  <2>1. At(x, "wait")' /\ Top(x)' # Top(x)
    BY DEF Requested, At
  <2>2. a \in Ids
    BY <2>1, WaitSteps
  <2>3. deadline[a] > 0
    <3>1. deadline[a] \in Ages
      BY <2>2, Parts DEF Data
    <3> QED
      BY <3>1, Bounds DEF Ages
  <2> QED
    BY <2>1, <2>2, <2>3, DeadlineStays
<1> QED
  BY <1>1, InvInit, InvNext, DeadlineStart, DeadlineNext, PTL DEF Spec, DeadlineKept
-----------------------------------------------------------------------------
(* What a switch goes by *)

(* A row says what the provider said, as long ago as the row is old, and a
   reset that is ahead is the provider's; a line of the client's log only
   counts as an exhaustion. *)
Agrees(t, r) ==
  /\ t.class = "ok" => t.win = 0
  /\ r.last.class = "ok" => t.class = "ok" \/ t.age <= r.last.age
  /\ "log" \notin world =>
       /\ t.class = r.conf.class \/ t.age <= r.conf.age
       /\ tool # "codex" /\ r.rel > 0 => t.class = "exhausted" /\ t.win = r.rel

(* A confirmation is of the account that was asked for; a switch starts at the
   live account and goes to the one judged last. *)
Aimed(p, live) ==
  \A i \in 1..Len(p) :
    /\ p[i].f = "target" => p[i].from = live
    /\ i > 1 /\ p[i].f \in {"confirm", "target"} => p[i - 1].id = p[i].id

(* The worker has to ask for the live account before the clock can move. *)
Asking(p) == \E i \in 1..Len(p) : p[i].f \in {"current", "ask"}
Stalled == "http" \in due \/ Asking(act["worker"].plan)

(* The target of a switch had quota when the provider was last asked. *)
Vouched(x) ==
  LET l == q[Top(x).id].last IN
  /\ At(x, "confirm") /\ act[x].class = "ok" => l.class = "ok"
  /\ At(x, "target") /\ act[x].class = "ok" =>
       /\ l.class = "ok"
       /\ l.age < Interval \/ (x = "web" /\ l.age <= Interval /\ Stalled)

EvidenceInv ==
  /\ \A a \in Ids : Agrees(truth[a], q[a])
  /\ \A x \in Actors : Aimed(act[x].plan, pointer) /\ Vouched(x)

-----------------------------------------------------------------------------
LEMMA OlderMoves ==
  ASSUME NEW m \in Ages, NEW n \in Ages, m <= n
  PROVE  Older(m) <= Older(n)
<1>1. m \in Int /\ n \in Int /\ Cap \in Int /\ m + 1 \in Int /\ n + 1 \in Int
  BY Bounds DEF Ages
<1>2. /\ Older(m) = IF m + 1 <= Cap THEN m + 1 ELSE Cap
      /\ Older(n) = IF n + 1 <= Cap THEN n + 1 ELSE Cap
  BY <1>1, MinType DEF Older
<1> HIDE DEF Older
<1> QED
  BY <1>1, <1>2

(* The clock leaves a row as true as it was. *)
LEMMA AgreesTick ==
  ASSUME Inv, Tick, NEW a \in Ids, Agrees(truth[a], q[a])
  PROVE  Agrees(truth[a], q[a])'
<1> DEFINE t == truth[a]  r == q[a]
           u == IF t.win = 1 THEN [class |-> "ok", win |-> 0, age |-> 0]
                ELSE [t EXCEPT !.win = Nearer(@), !.age = Older(@)]
<1>1. truth'[a] = u /\ q'[a] = Aged(r) /\ world' = world
  BY DEF Tick
<1>2. t \in [class : {"ok", "exhausted"}, win : 0..Window, age : Ages] /\ r \in Account
  BY DataTypes
<1>3. /\ Aged(r) \in Account /\ Aged(r).last.class = r.last.class
      /\ Aged(r).last.age = Older(r.last.age)
      /\ Aged(r).conf.class = r.conf.class /\ Aged(r).conf.age = Older(r.conf.age)
      /\ Aged(r).rel > 0 => Aged(r).rel = r.rel - 1
  BY <1>2, AgedType
<1>4. /\ t.win \in Int /\ t.win >= 0 /\ t.age \in Ages /\ r.last.age \in Ages /\ r.conf.age \in Ages
      /\ r.rel \in Int
  BY <1>2, Bounds DEF Account
<1>5. Nearer(t.win) = IF t.win >= 1 THEN t.win - 1 ELSE 0
  <2>1. Nearer(t.win) = IF t.win - 1 >= 0 THEN t.win - 1 ELSE 0
    BY <1>4, MaxType DEF Nearer
  <2> HIDE DEF Nearer
  <2> QED
    BY <1>4, <2>1
<1>6. 0 <= Older(r.last.age) /\ 0 <= Older(r.conf.age)
  BY <1>4, TimeType, Bounds DEF Ages
<1>7. /\ t.age <= r.last.age => Older(t.age) <= Older(r.last.age)
      /\ t.age <= r.conf.age => Older(t.age) <= Older(r.conf.age)
  BY <1>4, OlderMoves
<1>8. /\ t.win = 1 => u.class = "ok" /\ u.win = 0 /\ u.age = 0
      /\ t.win # 1 => u.class = t.class /\ u.win = Nearer(t.win) /\ u.age = Older(t.age)
  BY <1>2
<1>9. /\ t.class = "ok" => t.win = 0
      /\ r.last.class = "ok" => t.class = "ok" \/ t.age <= r.last.age
      /\ "log" \notin world =>
           /\ t.class = r.conf.class \/ t.age <= r.conf.age
           /\ tool # "codex" /\ r.rel > 0 => t.class = "exhausted" /\ t.win = r.rel
  BY DEF Agrees
<1> DEFINE s == Aged(r)
<1> HIDE DEF t, r, u, s, Older, Nearer
<1>10. s = Aged(r) /\ s.rel \in Int
  BY <1>3 DEF s, Account
<1>11. u.class = "ok" => u.win = 0
  BY <1>4, <1>5, <1>8, <1>9
<1>12. "log" \notin world => u.class = s.conf.class \/ u.age <= s.conf.age
  BY <1>3, <1>6, <1>7, <1>8, <1>9, <1>10
<1>13. s.last.class = "ok" => u.class = "ok" \/ u.age <= s.last.age
  BY <1>3, <1>6, <1>7, <1>8, <1>9, <1>10
<1>14. "log" \notin world =>
         (tool # "codex" /\ s.rel > 0 => u.class = "exhausted" /\ u.win = s.rel)
  BY <1>3, <1>4, <1>5, <1>8, <1>9, <1>10
<1>15. tool' = tool
  BY <1>1 DEF tool
<1>16. truth'[a] = u /\ q'[a] = s
  BY <1>1, <1>10 DEF r
<1> QED
  BY <1>1, <1>11, <1>12, <1>13, <1>14, <1>15, <1>16 DEF Agrees

(* So does an answer, or the failure of a request. *)
LEMMA AgreesAnswer ==
  ASSUME Inv, NEW a \in Ids, Agrees(truth[a], q[a]), NEW x \in Actors, Top(x).id = a,
         NEW row, NEW class, Outcome(x, row, class)
  PROVE  Agrees(truth[a], row)
<1> DEFINE t == truth[a]
<1>1. /\ t \in [class : {"ok", "exhausted"}, win : 0..Window, age : Ages] /\ q[a] \in Account
      /\ Cap \in Nat
  BY DataTypes, Bounds
<1>2. /\ t.class = "ok" => t.win = 0
      /\ "log" \notin world =>
           /\ t.class = q[a].conf.class \/ t.age <= q[a].conf.age
           /\ tool # "codex" /\ q[a].rel > 0 => t.class = "exhausted" /\ t.win = q[a].rel
  BY DEF Agrees
<1>3. ASSUME NEW r \in Asked(a), row = Answered(r, truth[a]) PROVE Agrees(truth[a], row)
  <2>1. /\ row.last.class = t.class /\ row.conf.class = t.class
        /\ row.rel = IF t.win = 0 THEN -Cap ELSE t.win
    BY <1>3, AskedType, AnsweredType DEF Until
  <2>2. t.win # 0 => t.class = "exhausted"
    BY <1>1, <1>2
  <2> HIDE DEF t
  <2>3. row.rel > 0 => row.rel = t.win /\ t.class = "exhausted"
    BY <1>1, <2>1, <2>2
  <2> QED
    BY <1>2, <2>1, <2>3 DEF Agrees, t
<1>4. ASSUME row.conf = q[a].conf, row.last.class # "ok", row.rel = q[a].rel \/ row.rel = -Cap
      PROVE  Agrees(truth[a], row)
  <2>1. row.rel > 0 => row.rel = q[a].rel
    BY <1>1, <1>4
  <2> QED
    BY <1>2, <1>4, <2>1 DEF Agrees
<1>5. CASE row = recordRefreshResult(a, FALSE)
  BY <1>4, <1>5, RefreshType
<1>6. ASSUME NEW r \in Asked(a), NEW throttled \in BOOLEAN, NEW authenticated \in BOOLEAN,
             row = Failed(r, throttled, authenticated)
      PROVE  Agrees(truth[a], row)
  BY <1>4, <1>6, AskedType, FailedType
<1>7. ASSUME NEW r \in Asked(a), row = Refused(r) PROVE Agrees(truth[a], row)
  <2>1. r \in Account /\ r.conf = q[a].conf
    BY AskedType
  <2>2. row.conf = q[a].conf /\ row.last.class = "expired" /\ row.rel = -Cap
    BY <1>7, <2>1, RefusedType
  <2> QED
    BY <1>4, <2>2
<1>8. CASE row = recordRefreshResult(a, TRUE)
  BY <1>4, <1>8, RefreshType
<1> QED
  BY <1>3, <1>5, <1>6, <1>7, <1>8 DEF Outcome

(* The renewal of a sign-in shows nothing of the quota. *)
LEMMA AgreesRenew ==
  ASSUME Inv, NEW a \in Ids, Agrees(truth[a], q[a]), NEW x \in Actors, Renew(x)
  PROVE  Agrees(truth[a], q'[a])
<1>1. q \in [Ids -> Account] /\ q[a] \in Account
  BY DataTypes
<1>2. PICK row :
        /\ row.conf = q[a].conf /\ row.rel = q[a].rel
        /\ row.last = q[a].last \/ row.last.class # "ok"
        /\ q'[a] = row
  <2>1. CASE q'[a] = q[a]
    BY <2>1
  <2>2. CASE q'[a] = Renewed(q[a])
    BY <1>1, <2>2, RenewedType
  <2>3. CASE \E permanent \in BOOLEAN : q'[a] = recordRefreshResult(a, permanent)
    BY <2>3, RefreshType
  <2> QED
    BY <1>1, <2>1, <2>2, <2>3, RenewRows
<1> QED
  BY <1>2 DEF Agrees

LEMMA TruthSteps ==
  ASSUME Inv, [Next]_vars, ~UNCHANGED truth, ~Tick
  PROVE  /\ UNCHANGED <<q, world>>
         /\ \E a \in Ids :
              /\ tool = "codex" \/ truth[a].class = "ok"
              /\ \E class \in {"ok", "exhausted"}, win \in 0..Window :
                   /\ class = "ok" => win = 0
                   /\ truth' = [truth EXCEPT ![a] = [class |-> class, win |-> win, age |-> 0]]
<1>1. ASSUME NEW x \in Actors, Step(x) PROVE UNCHANGED truth
  <2>1. CASE Answer(x)
    BY <2>1, AnswerStores DEF Store
  <2>2. CASE ProbeLimitHit(x) \/ ProbeLocal(x) \/ Recovered(x)
    BY <2>2 DEF ProbeLimitHit, ProbeLocal, Recovered, Still, Outside
  <2>3. CASE SetPending(x) \/ TryApply(x) \/ Source(x) \/ Target(x)
    BY <2>3 DEF SetPending, TryApply, Source, Target, Still, Outside
  <2>4. CASE Renew(x)
    BY <2>4, RenewRows
  <2> QED
    BY <1>1, <2>1, <2>2, <2>3, <2>4, PlainInv DEF Step, Still, Outside
<1>2. ASSUME NEW t \in due, runToolWorker(t) PROVE UNCHANGED truth
  BY <1>2 DEF runToolWorker
<1>3. ASSUME NEW a \in Ids, RefreshOne(a) \/ Switch(a) PROVE UNCHANGED truth
  BY <1>3 DEF RefreshOne, Switch, Manual
<1>4. Refresh \/ Settle \/ Reload => UNCHANGED truth
  BY DEF Refresh, Settle, Reload, Manual
<1>5. UNCHANGED vars => UNCHANGED truth
  BY DEF vars
<1>6. CASE \E win \in {0, Window} : Use(win)
  <2>1. PICK win \in {0, Window} : Use(win)
    BY <1>6
  <2>2. win \in 0..Window /\ pointer \in Ids
    BY PointerType, Bounds
  <2> QED
    BY <2>1, <2>2 DEF Use, World
<1>7. CASE \E a \in Ids : EarlyReset(a)
  <2>1. PICK a \in Ids : EarlyReset(a)
    BY <1>7
  <2>2. 0 \in 0..Window
    BY Bounds
  <2> QED
    BY <2>1, <2>2 DEF EarlyReset, World
<1> QED
  BY <1>1, <1>2, <1>3, <1>4, <1>5, <1>6, <1>7 DEF Next, Work

LEMMA LocalQuiet ==
  ASSUME Inv, DeadlineInv, "log" \notin world, NEW x \in Actors, ProbeLocal(x)
  PROVE  UNCHANGED q
<1>1. pointer \in Ids /\ q[pointer].probed \in 0..Cap
  BY PointerType, DataTypes DEF Account, Ages
<1>2. ~(event.age < q[pointer].probed)
  BY <1>1, Bounds DEF DeadlineInv
<1> QED
  BY <1>2 DEF ProbeLocal

LEMMA AgreesNext ==
  ASSUME Inv, [Next]_vars, DeadlineInv, NEW a \in Ids, Agrees(truth[a], q[a])
  PROVE  Agrees(truth[a], q[a])'
<1>1. world' = world /\ tool' = tool
  BY EventQuiet DEF tool
<1>2. CASE Tick
  BY <1>2, AgreesTick
<1>3. CASE UNCHANGED truth /\ q'[a].conf = q[a].conf /\ q'[a].last = q[a].last /\ q'[a].rel = q[a].rel
  BY <1>1, <1>3 DEF Agrees
<1>4. CASE ~UNCHANGED truth /\ ~Tick
  <2>1. PICK b \in Ids, class \in {"ok", "exhausted"}, win \in 0..Window :
          /\ tool = "codex" \/ truth[b].class = "ok"
          /\ class = "ok" => win = 0
          /\ truth' = [truth EXCEPT ![b] = [class |-> class, win |-> win, age |-> 0]]
    BY <1>4, TruthSteps
  <2>2. q' = q /\ truth \in [Ids -> [class : {"ok", "exhausted"}, win : 0..Window, age : Ages]]
    BY <1>4, TruthSteps, DataTypes
  <2>3. CASE a = b
    <3>1. truth'[a].class = class /\ truth'[a].win = win /\ truth'[a].age = 0
      BY <2>1, <2>2, <2>3
    <3>2. q[a].conf.age >= 0 /\ q[a].last.age >= 0
      BY DataTypes, Bounds DEF Account, Ages
    <3>3. "log" \notin world => ~(tool # "codex" /\ q[a].rel > 0)
      BY <2>1, <2>3 DEF Agrees
    <3> QED
      BY <1>1, <2>1, <2>2, <3>1, <3>2, <3>3 DEF Agrees
  <2>4. CASE a # b
    BY <1>1, <2>1, <2>2, <2>4 DEF Agrees
  <2> QED
    BY <2>3, <2>4
<1>5. ASSUME NEW x \in Actors, Answer(x) PROVE Agrees(truth[a], q[a])'
  <2>1. PICK row \in Account, class \in Classes : Store(x, row, class) /\ Outcome(x, row, class)
    BY <1>5, AnswerStores
  <2>2. q' = [q EXCEPT ![Top(x).id] = row] /\ truth' = truth /\ q \in [Ids -> Account]
    BY <2>1, DataTypes DEF Store
  <2>3. CASE Top(x).id = a
    <3>1. Agrees(truth[a], row) /\ q'[a] = row
      BY <2>1, <2>2, <2>3, AgreesAnswer
    <3> QED
      BY <1>1, <2>2, <3>1 DEF Agrees
  <2>4. CASE Top(x).id # a
    <3>1. q'[a] = q[a]
      BY <2>2, <2>4
    <3> QED
      BY <1>1, <2>2, <3>1 DEF Agrees
  <2> QED
    BY <2>3, <2>4
<1>6. ASSUME NEW x \in Actors, Recovered(x)
      PROVE  q'[a].conf = q[a].conf /\ q'[a].last = q[a].last /\ q'[a].rel = q[a].rel
  BY <1>6, RecoveredRows
<1>7. ASSUME NEW x \in Actors, ProbeLocal(x) PROVE Agrees(truth[a], q[a])'
  <2>1. truth' = truth
    BY <1>7 DEF ProbeLocal
  <2>2. CASE q'[a] = q[a]
    BY <1>1, <2>1, <2>2 DEF Agrees
  <2>3. CASE q'[a] # q[a]
    <3>1. q'[a].last.class = "exhausted"
      BY <1>7, <2>3, LocalType
    <3>2. "log" \in world
      BY <1>7, <2>3, LocalQuiet
    <3> QED
      BY <1>1, <2>1, <3>1, <3>2 DEF Agrees
  <2> QED
    BY <2>2, <2>3
<1>8. ASSUME NEW x \in Actors, Renew(x) PROVE Agrees(truth[a], q[a])'
  <2>1. Agrees(truth[a], q'[a]) /\ truth' = truth
    BY <1>8, AgreesRenew, RenewRows
  <2> QED
    BY <1>1, <2>1 DEF Agrees
<1> QED
  BY <1>2, <1>3, <1>4, <1>5, <1>6, <1>7, <1>8, RowSteps
-----------------------------------------------------------------------------
(* Whom a plan is aimed at *)

LEMMA LeastNatural ==
  ASSUME NEW T, T \subseteq Nat, T # {}
  PROVE  \E n \in T : \A m \in T : n <= m
<1>1. PICK n \in T : \A m \in T : <<m, n>> \notin OpToRel(<, Nat)
  BY NatLessThanWellFounded, WFMin
<1>2. ASSUME NEW m \in T PROVE n <= m
  <2>1. ~(m < n)
    BY <1>1 DEF OpToRel
  <2> QED
    BY <2>1
<1> QED
  BY <1>2

(* A plan that does not start under the lock has no call that needs it. *)
LEMMA NoneLocked ==
  ASSUME NEW p \in Seq(Calls), Chain(p), ~Locked(p), NEW i \in 1..Len(p)
  PROVE  p[i].f \notin Locking
<1> DEFINE T == {n \in 1..Len(p) : p[n].f \in Locking}
<1> SUFFICES ASSUME T # {} PROVE FALSE
  OBVIOUS
<1>1. T \subseteq Nat
  OBVIOUS
<1>2. PICK n \in T : \A m \in T : n <= m
  BY <1>1, LeastNatural
<1>3. n \in 1..Len(p) /\ p[n].f \in Locking /\ Len(p) \in Nat
  OBVIOUS
<1>4. CASE n = 1
  <2>1. p # <<>> /\ Head(p) = p[1]
    BY <1>3, <1>4
  <2> QED
    BY <1>3, <1>4, <2>1 DEF Locked
<1>5. CASE n > 1
  <2>1. <<p[n - 1].f, p[n].f>> \in Leads
    BY <1>3, <1>5 DEF Chain
  <2>2. p[n - 1].f \in Locking
    BY <2>1 DEF Leads, Locking
  <2>3. n - 1 \in T
    BY <1>3, <1>5, <2>2
  <2> QED
    BY <1>2, <1>3, <2>3
<1> QED
  BY <1>3, <1>4, <1>5

LEMMA AimedFree ==
  ASSUME NEW p \in Seq(Calls), Chain(p), ~Locked(p), NEW live
  PROVE  Aimed(p, live)
BY NoneLocked DEF Aimed, Locking

LEMMA AimedTail ==
  ASSUME NEW p \in Seq(Calls), p # <<>>, NEW live, Aimed(p, live)
  PROVE  /\ Aimed(Tail(p), live)
         /\ Tail(p) # <<>> /\ Head(Tail(p)).f \in {"confirm", "target"}
              => Head(Tail(p)).id = Head(p).id
         /\ Head(p).f = "target" => Head(p).from = live
<1> DEFINE t == Tail(p)
<1>1. /\ t \in Seq(Calls) /\ Len(p) \in Nat \ {0} /\ Len(t) = Len(p) - 1 /\ Head(p) = p[1]
      /\ (t # <<>> <=> Len(p) > 1)
  BY Tails
<1>2. \A i \in 1..Len(t) : t[i] = p[i + 1]
  BY Tails
<1>3. t # <<>> => Head(t) = t[1]
  BY <1>1, Tails
<1> HIDE DEF t
<1>4. ASSUME NEW i \in 1..Len(t)
      PROVE  /\ t[i].f = "target" => t[i].from = live
             /\ i > 1 /\ t[i].f \in {"confirm", "target"} => t[i - 1].id = t[i].id
  <2>1. i + 1 \in 1..Len(p) /\ t[i] = p[i + 1] /\ i + 1 > 1 /\ (i + 1) - 1 = i
    BY <1>1, <1>2
  <2>2. /\ p[i + 1].f = "target" => p[i + 1].from = live
        /\ p[i + 1].f \in {"confirm", "target"} => p[i].id = p[i + 1].id
    BY <2>1 DEF Aimed
  <2>3. i > 1 => t[i - 1] = p[i]
    BY <1>1, <1>2
  <2> QED
    BY <2>1, <2>2, <2>3
<1>5. t # <<>> /\ Head(t).f \in {"confirm", "target"} => Head(t).id = Head(p).id
  <2>1. t # <<>> => 2 \in 1..Len(p) /\ 2 > 1 /\ 2 - 1 = 1 /\ Head(t) = p[2]
    BY <1>1, <1>2, <1>3
  <2> QED
    BY <1>1, <2>1 DEF Aimed
<1>6. Head(p).f = "target" => Head(p).from = live
  BY <1>1 DEF Aimed
<1> QED
  BY <1>4, <1>5, <1>6 DEF Aimed, t

LEMMA AimedJoin ==
  ASSUME NEW p \in Seq(Calls), NEW r \in Seq(Calls), NEW live, Aimed(p, live), Aimed(r, live),
         \/ p = <<>> \/ r = <<>> \/ Head(r).f \notin {"confirm", "target"}
         \/ p[Len(p)].id = Head(r).id
  PROVE  Aimed(p \o r, live)
<1> DEFINE s == p \o r
<1>1. /\ s \in Seq(Calls) /\ Len(s) = Len(p) + Len(r) /\ Len(p) \in Nat /\ Len(r) \in Nat
      /\ p = <<>> => s = r
  BY Joined
<1>2. \A i \in 1..Len(p) : s[i] = p[i]
  BY Joined
<1>3. \A i \in 1..Len(r) : s[Len(p) + i] = r[i]
  BY Joined
<1>4. /\ r # <<>> => Head(r) = r[1]
      /\ Len(r) > 0 => r # <<>>
  OBVIOUS
<1> HIDE DEF s
<1>5. ASSUME p # <<>>, NEW i \in 1..Len(s)
      PROVE  /\ s[i].f = "target" => s[i].from = live
             /\ i > 1 /\ s[i].f \in {"confirm", "target"} => s[i - 1].id = s[i].id
  <2>1. CASE i <= Len(p)
    <3>1. i \in 1..Len(p) /\ s[i] = p[i]
      BY <1>1, <1>2, <2>1
    <3>2. i > 1 => s[i - 1] = p[i - 1]
      BY <1>1, <1>2, <2>1
    <3> QED
      BY <3>1, <3>2 DEF Aimed
  <2>2. CASE i > Len(p)
    <3> DEFINE k == i - Len(p)
    <3>1. k \in 1..Len(r) /\ i = Len(p) + k
      BY <1>1, <2>2
    <3> HIDE DEF k
    <3>2. s[i] = r[k]
      BY <1>3, <3>1
    <3>3. s[i].f = "target" => s[i].from = live
      BY <3>1, <3>2 DEF Aimed
    <3>4. CASE k > 1
      <4>1. k - 1 \in 1..Len(r) /\ i - 1 = Len(p) + (k - 1)
        BY <1>1, <3>1, <3>4
      <4>2. s[i - 1] = r[k - 1]
        BY <1>3, <4>1
      <4> QED
        BY <3>1, <3>2, <3>3, <3>4, <4>2 DEF Aimed
    <3>5. CASE k = 1
      <4>1. s[i] = Head(r) /\ r # <<>>
        BY <1>1, <1>4, <3>1, <3>2, <3>5
      <4>2. i > 1 => s[i - 1] = p[Len(p)]
        BY <1>1, <1>2, <3>1, <3>5
      <4> QED
        BY <1>5, <3>3, <4>1, <4>2
    <3> QED
      BY <3>1, <3>4, <3>5
  <2> QED
    BY <1>1, <2>1, <2>2
<1>6. CASE p = <<>>
  BY <1>1, <1>6 DEF s
<1>7. CASE p # <<>>
  BY <1>5, <1>7 DEF Aimed, s
<1> QED
  BY <1>6, <1>7

LEMMA AimedAsk ==
  ASSUME NEW a \in Ids, NEW r \in Seq(Calls), NEW live, Aimed(r, live),
         r # <<>> /\ Head(r).f \in {"confirm", "target"} => Head(r).id = a
  PROVE  Aimed(Requests(a) \o r, live)
<1> DEFINE w == With("wait", a)
           c == With("confirm", a)
           p == <<w, c>>
<1>1. w \in Calls /\ w.f = "wait" /\ w.id = a /\ c \in Calls /\ c.f = "confirm" /\ c.id = a
  BY WithType DEF Names
<1> HIDE DEF w, c
<1>2. p \in Seq(Calls) /\ Len(p) = 2 /\ p[1] = w /\ p[2] = c
  BY <1>1
<1> HIDE DEF p
<1>3. Aimed(p, live)
  <2> SUFFICES ASSUME NEW i \in 1..2
               PROVE  /\ p[i].f = "target" => p[i].from = live
                      /\ i > 1 /\ p[i].f \in {"confirm", "target"} => p[i - 1].id = p[i].id
    BY <1>2 DEF Aimed
  <2>1. i = 1 \/ i = 2
    OBVIOUS
  <2> QED
    BY <1>1, <1>2, <2>1
<1>4. Aimed(p \o r, live)
  BY <1>1, <1>2, <1>3, AimedJoin
<1> QED
  BY <1>4 DEF Requests, p, w, c

LEMMA MovedTo ==
  ASSUME Inv, NEW x \in Actors, Moved(x)
  PROVE  /\ act'[x] \in Action /\ Chain(act'[x].plan) /\ (act'[x].lock <=> Locked(act'[x].plan))
         /\ \A y \in Actors \ {x} : act'[y] = act[y]
         /\ act'[x].lock => act[x].lock \/ Free
<1>1. PICK r \in Action :
        /\ act' = [act EXCEPT ![x] = r] /\ PlanOK(r)
        /\ r.lock => act[x].lock \/ Free
  BY DEF Moved
<1>2. act \in [Actors -> Action]
  BY ActTypes DEF ActInv
<1>3. act'[x] = r /\ \A y \in Actors \ {x} : act'[y] = act[y]
  BY <1>1, <1>2
<1> QED
  BY <1>1, <1>3 DEF PlanOK

LEMMA GotPlan ==
  ASSUME Inv, NEW x \in Actors, NEW class, NEW backoff, NEW lock, Got(x, class, backoff, lock)
  PROVE  /\ act'[x].plan = Later(x)
         /\ Later(x) = <<>> => act'[x].lock = FALSE
         /\ Later(x) # <<>> => act'[x].lock = lock /\ act'[x].class = class
<1>1. act \in [Actors -> Action]
  BY ActTypes DEF ActInv
<1>2. CASE Later(x) = <<>>
  <2>1. Returns(x, <<>>, FALSE)
    BY <1>2 DEF Got
  <2> QED
    BY <1>2, <2>1, Returned
<1>3. CASE Later(x) # <<>>
  <2> DEFINE r == [plan |-> Later(x), lock |-> lock, class |-> class, backoff |-> backoff]
  <2>1. act' = [act EXCEPT ![x] = r]
    BY <1>3 DEF Got
  <2>2. r.plan = Later(x) /\ r.lock = lock /\ r.class = class
    OBVIOUS
  <2> HIDE DEF r
  <2> QED
    BY <1>1, <1>3, <2>1, <2>2
<1> QED
  BY <1>2, <1>3

LEMMA AimedUnlocked ==
  ASSUME Inv, NEW x \in Actors, Moved(x), act'[x].lock = FALSE, NEW live
  PROVE  Aimed(act'[x].plan, live)
<1>1. act'[x] \in Action /\ Chain(act'[x].plan) /\ (act'[x].lock <=> Locked(act'[x].plan))
  BY MovedTo
<1>2. act'[x].plan \in Seq(Calls)
  BY <1>1 DEF Action
<1> QED
  BY <1>1, <1>2, AimedFree

LEMMA AimedLater ==
  ASSUME Inv, NEW x \in Actors, Top(x).f # "", NEW live, Aimed(act[x].plan, live)
  PROVE  /\ Aimed(Later(x), live)
         /\ Later(x) # <<>> /\ Head(Later(x)).f \in {"confirm", "target"}
              => Head(Later(x)).id = Top(x).id
         /\ Top(x).f = "target" => Top(x).from = live
<1> DEFINE p == act[x].plan
<1>1. p \in Seq(Calls) /\ p # <<>> /\ Top(x) = Head(p) /\ Later(x) = Tail(p)
  BY TopOK DEF Action, Later
<1> HIDE DEF p
<1>2. Aimed(p, live)
  BY DEF p
<1> QED
  BY <1>1, <1>2, AimedTail

(* A call made without the lock leaves calls that need none. *)
LEMMA AimedOpen ==
  ASSUME Inv, NEW x \in Actors, Top(x).f # "", Top(x).f \notin Locking, NEW live,
         NEW p \in Seq(Calls), Aimed(p, live)
  PROVE  Aimed(p \o Later(x), live)
<1>1. ~Locked(Later(x)) /\ Later(x) \in Seq(Calls) /\ Chain(Later(x))
  BY OpenTop
<1>2. Aimed(Later(x), live)
  BY <1>1, AimedFree
<1>3. Later(x) = <<>> \/ Head(Later(x)).f \notin {"confirm", "target"}
  BY <1>1 DEF Locked, Locking
<1> QED
  BY <1>1, <1>2, <1>3, AimedJoin

LEMMA AimedOne ==
  ASSUME NEW c \in Calls, c.f # "target", NEW live
  PROVE  <<c>> \in Seq(Calls) /\ Aimed(<<c>>, live)
<1> DEFINE p == <<c>>
<1>1. p \in Seq(Calls) /\ Len(p) = 1 /\ p[1] = c
  OBVIOUS
<1> HIDE DEF p
<1>2. Aimed(p, live)
  <2> SUFFICES ASSUME NEW i \in 1..1
               PROVE  /\ p[i].f = "target" => p[i].from = live
                      /\ i > 1 /\ p[i].f \in {"confirm", "target"} => p[i - 1].id = p[i].id
    BY <1>1 DEF Aimed
  <2>1. i = 1
    OBVIOUS
  <2> QED
    BY <1>1, <2>1
<1> QED
  BY <1>1, <1>2 DEF p

LEMMA AimedTwo ==
  ASSUME NEW c \in Calls, NEW d \in Calls, NEW live, c.f # "target", d.f # "confirm",
         d.f = "target" => d.from = live /\ d.id = c.id
  PROVE  <<c, d>> \in Seq(Calls) /\ Aimed(<<c, d>>, live)
<1> DEFINE p == <<c, d>>
<1>1. p \in Seq(Calls) /\ Len(p) = 2 /\ p[1] = c /\ p[2] = d
  OBVIOUS
<1> HIDE DEF p
<1>2. Aimed(p, live)
  <2> SUFFICES ASSUME NEW i \in 1..2
               PROVE  /\ p[i].f = "target" => p[i].from = live
                      /\ i > 1 /\ p[i].f \in {"confirm", "target"} => p[i - 1].id = p[i].id
    BY <1>1 DEF Aimed
  <2>1. i = 1 \/ i = 2
    OBVIOUS
  <2> QED
    BY <1>1, <2>1
<1> QED
  BY <1>1, <1>2 DEF p

LEMMA AimedProbe ==
  ASSUME Inv, NEW x \in Actors, Probe(x) PROVE Aimed(act'[x].plan, pointer)
<1> DEFINE a == Top(x).id
<1>1. Top(x).f = "ask" /\ Moved(x)
  BY ProbeMoves DEF Probe, At
<1>2. \/ \E class, backoff : Got(x, class, backoff, FALSE)
      \/ Returns(x, <<With("wait", a)>> \o Later(x), TRUE)
  BY DEF Probe
<1>3. a \in Ids
  BY <1>1, TopOK DEF CallOK
<1> HIDE DEF a
<1>4. CASE \E class, backoff : Got(x, class, backoff, FALSE)
  <2>1. act'[x].lock = FALSE
    BY <1>4, GotPlan
  <2> QED
    BY <1>1, <2>1, AimedUnlocked
<1>5. CASE Returns(x, <<With("wait", a)>> \o Later(x), TRUE)
  <2>1. act'[x].plan = <<With("wait", a)>> \o Later(x)
    BY <1>5, Returned
  <2>2. With("wait", a) \in Calls /\ With("wait", a).f = "wait"
    BY <1>3, WithType DEF Names
  <2>3. <<With("wait", a)>> \in Seq(Calls) /\ Aimed(<<With("wait", a)>>, pointer)
    BY <2>2, AimedOne
  <2>4. Aimed(<<With("wait", a)>> \o Later(x), pointer)
    BY <1>1, <2>3, AimedOpen DEF Locking
  <2> QED
    BY <2>1, <2>4
<1> QED
  BY <1>2, <1>4, <1>5

LEMMA AimedAuto ==
  ASSUME Inv, NEW x \in Actors, ProbeAuto(x), Aimed(act[x].plan, pointer)
  PROVE  Aimed(act'[x].plan, pointer)
<1> DEFINE a == Top(x).id
<1>1. Top(x).f = "auto"
  BY DEF ProbeAuto, At
<1>2. a \in Ids /\ Later(x) \in Seq(Calls)
  BY <1>1, TopOK DEF CallOK
<1>3. /\ Aimed(Later(x), pointer)
      /\ Later(x) # <<>> /\ Head(Later(x)).f \in {"confirm", "target"} => Head(Later(x)).id = a
  BY <1>1, AimedLater
<1>4. \/ \E class : Got(x, class, FALSE, TRUE)
      \/ Returns(x, Requests(a) \o Later(x), act[x].lock)
  BY DEF ProbeAuto, Do
<1> HIDE DEF a
<1>5. Aimed(Requests(a) \o Later(x), pointer)
  BY <1>2, <1>3, AimedAsk
<1>6. act'[x].plan = Later(x) \/ act'[x].plan = Requests(a) \o Later(x)
  BY <1>4, GotPlan, Returned
<1> QED
  BY <1>3, <1>5, <1>6

LEMMA AimedGot ==
  ASSUME Inv, NEW x \in Actors, Confirm(x) \/ Answer(x), Aimed(act[x].plan, pointer)
  PROVE  Aimed(act'[x].plan, pointer)
<1>1. Top(x).f # "" /\ \E class, lock : Got(x, class, FALSE, lock)
  <2>1. CASE Confirm(x)
    BY <2>1 DEF Confirm, At
  <2>2. CASE Answer(x)
    BY <2>2, AnswerStores DEF Store, At
  <2> QED
    BY <2>1, <2>2
<1> QED
  BY <1>1, GotPlan, AimedLater

LEMMA AimedPick ==
  ASSUME Inv, NEW x \in Actors, pickNext(x)
  PROVE  Aimed(act'[x].plan, pointer)
<1> DEFINE c == Top(x)  a == Candidate(c)  d == [c EXCEPT !.f = "rank"]
<1>1. c.f = "pick" /\ Moved(x)
  BY pickNextMoves DEF pickNext, At
<1>2. \/ \E calls : Do(x, calls)
      \/ /\ c.ids # {}
         /\ Returns(x, Requests(a) \o <<d>> \o Later(x), TRUE)
  BY DEF pickNext
<1>3. c \in Calls /\ c.from \in Ids /\ Later(x) \in Seq(Calls) /\ act[x].lock = FALSE
  BY <1>1, TopOK DEF CallOK, Locking, Action
<1>4. CASE \E calls : Do(x, calls)
  <2>1. \E p : Returns(x, p, FALSE)
    BY <1>3, <1>4 DEF Do
  <2>2. act'[x].lock = FALSE
    BY <2>1, Returned
  <2> QED
    BY <1>1, <2>2, AimedUnlocked
<1>5. CASE c.ids # {} /\ Returns(x, Requests(a) \o <<d>> \o Later(x), TRUE)
  <2>1. a \in Ids
    BY <1>3, <1>5, RankedChain
  <2>2. d \in Calls /\ d.f = "rank"
    BY <1>3 DEF Calls
  <2> HIDE DEF a, c, d
  <2>3. /\ Requests(a) \o <<d>> \o Later(x) = Requests(a) \o (<<d>> \o Later(x))
        /\ <<d>> \o Later(x) \in Seq(Calls) /\ Head(<<d>> \o Later(x)) = d
    <3>1. Requests(a) \in Seq(Calls)
      BY <2>1, WithType DEF Requests, Names
    <3>2. <<d>> \in Seq(Calls) /\ <<d>> # <<>> /\ Head(<<d>>) = d
      BY <2>2
    <3> DEFINE e == <<d>>
    <3> HIDE DEF e
    <3>3. Requests(a) \o e \o Later(x) = Requests(a) \o (e \o Later(x)) /\ e \o Later(x) \in Seq(Calls)
      BY <1>3, <3>1, <3>2, ConcatAssociative, ConcatProperties DEF e
    <3>4. Head(e \o Later(x)) = Head(e)
      BY <1>3, <3>2, Joined DEF e
    <3> QED
      BY <3>2, <3>3, <3>4 DEF e
  <2>4. act'[x].plan = Requests(a) \o (<<d>> \o Later(x))
    BY <1>5, <2>3, Returned
  <2>5. <<d>> \in Seq(Calls) /\ Aimed(<<d>>, pointer)
    BY <2>2, AimedOne
  <2>6. Aimed(<<d>> \o Later(x), pointer)
    BY <1>1, <2>5, AimedOpen DEF Locking, c
  <2>7. Aimed(Requests(a) \o (<<d>> \o Later(x)), pointer)
    BY <2>1, <2>2, <2>3, <2>6, AimedAsk
  <2> QED
    BY <2>4, <2>7
<1> QED
  BY <1>2, <1>4, <1>5

LEMMA AimedApply ==
  ASSUME Inv, NEW x \in Actors, TryApply(x)
  PROVE  Aimed(act'[x].plan, pointer)
<1> DEFINE c(f) == [Call(f) EXCEPT !.id = pending.to, !.from = pending.from, !.why = pending.why]
           two == <<Automatic(pending.to), c("target")>>
           front == <<Automatic(pending.from), c("source")>>
           p == (IF pending.why = "expiring" \/ knownExhausted(pending.from) THEN <<>> ELSE front)
                  \o two
<1>1. Top(x).f = "apply" /\ Moved(x)
  BY TryApplyMoves DEF TryApply, At
<1>2. \/ End(x)
      \/ pending # NoPending /\ pointer = pending.from /\ Returns(x, p \o Later(x), TRUE)
  BY DEF TryApply, Leave, cancelSwitch, StillWanted, expiringStillDue
<1>3. CASE End(x)
  <2>1. act'[x].lock = FALSE
    BY <1>3, Returned DEF End
  <2> QED
    BY <1>1, <2>1, AimedUnlocked
<1>4. CASE pending # NoPending /\ pointer = pending.from /\ Returns(x, p \o Later(x), TRUE)
  <2>1. pending.from \in Ids /\ pending.to \in Ids /\ pending.why \in {"", "exhausted", "expiring"}
    BY <1>4 DEF Inv, PendingInv, TypeOK, Pending
  <2>2. \A a \in Ids : Automatic(a) \in Calls /\ Automatic(a).f = "auto" /\ Automatic(a).id = a
    <3> SUFFICES ASSUME NEW a \in Ids
                 PROVE  Automatic(a) \in Calls /\ Automatic(a).f = "auto" /\ Automatic(a).id = a
      OBVIOUS
    <3>1. Call("auto") \in Calls /\ Call("auto").f = "auto"
      BY CallType DEF Names
    <3> QED
      BY <3>1 DEF Automatic, Calls
  <2>3. \A f \in {"source", "target"} :
          c(f) \in Calls /\ c(f).f = f /\ c(f).id = pending.to /\ c(f).from = pending.from
    <3> SUFFICES ASSUME NEW f \in {"source", "target"}
                 PROVE  /\ c(f) \in Calls /\ c(f).f = f /\ c(f).id = pending.to
                        /\ c(f).from = pending.from
      OBVIOUS
    <3>1. Call(f) \in Calls /\ Call(f).f = f
      BY CallType DEF Names
    <3> QED
      BY <2>1, <3>1 DEF Calls
  <2> HIDE DEF c
  <2>4. two \in Seq(Calls) /\ Aimed(two, pointer)
    BY <1>4, <2>1, <2>2, <2>3, AimedTwo
  <2>5. front \in Seq(Calls) /\ Aimed(front, pointer)
    BY <2>1, <2>2, <2>3, AimedTwo
  <2>6. Head(two).f = "auto"
    <3>1. Head(two) = Automatic(pending.to)
      OBVIOUS
    <3> HIDE DEF two
    <3> QED
      BY <2>1, <2>2, <3>1
  <2> HIDE DEF two, front
  <2>7. front \o two \in Seq(Calls) /\ Aimed(front \o two, pointer)
    BY <2>4, <2>5, <2>6, AimedJoin, ConcatProperties
  <2>8. <<>> \o two = two
    BY <2>4, ConcatEmptySeq
  <2>9. p = two \/ p = front \o two
    BY <2>8
  <2> HIDE DEF p
  <2>10. p \in Seq(Calls) /\ Aimed(p, pointer)
    BY <2>4, <2>7, <2>9
  <2>11. Aimed(p \o Later(x), pointer)
    BY <1>1, <2>10, AimedOpen DEF Locking
  <2> QED
    BY <1>4, <2>11, Returned
<1> QED
  BY <1>2, <1>3, <1>4

LEMMA AimedSource ==
  ASSUME Inv, NEW x \in Actors, Source(x), Aimed(act[x].plan, pointer)
  PROVE  Aimed(act'[x].plan, pointer)
<1>1. Top(x).f = "source" /\ Moved(x)
  BY SourceMoves DEF Source, At
<1>2. CASE Done(x)
  <2>1. Later(x) \in Seq(Calls) /\ Aimed(Later(x), pointer)
    BY <1>1, TopOK, AimedLater
  <2>2. <<>> \o Later(x) = Later(x)
    BY <2>1, ConcatEmptySeq
  <2>3. act'[x].plan = Later(x)
    BY <1>2, <2>2, Returned DEF Done, Do
  <2> QED
    BY <2>1, <2>3
<1>3. CASE ~Done(x)
  <2>1. \E p : Returns(x, p, FALSE)
    BY <1>3 DEF Source
  <2>2. act'[x].lock = FALSE
    BY <2>1, Returned
  <2> QED
    BY <1>1, <2>2, AimedUnlocked
<1> QED
  BY <1>2, <1>3

LEMMA AimedStep ==
  ASSUME Inv, NEW x \in Actors, Step(x), Aimed(act[x].plan, pointer)
  PROVE  Aimed(act'[x].plan, pointer)
<1>1. CASE act'[x].lock = FALSE
  BY <1>1, StepMoves, AimedUnlocked
<1> QED
  BY <1>1, FreeCalls, AimedProbe, AimedAuto, AimedGot, AimedPick, AimedApply, AimedSource

LEMMA PointerSteps ==
  ASSUME Inv, [Next]_vars, pointer' # pointer
  PROVE  \/ \E a \in Ids : Switch(a)
         \/ \E x \in Actors : Target(x)
<1>1. ASSUME NEW x \in Actors, Step(x) PROVE Target(x)
  <2>1. CASE Answer(x)
    BY <2>1, AnswerStores DEF Store, Live
  <2>2. CASE ProbeLimitHit(x) \/ ProbeLocal(x) \/ Recovered(x)
    BY <2>2 DEF ProbeLimitHit, ProbeLocal, Recovered, Live
  <2>3. CASE SetPending(x) \/ TryApply(x) \/ Source(x)
    BY <2>3 DEF SetPending, TryApply, Source, Live
  <2>4. CASE Renew(x)
    BY <2>4, RenewRows DEF Live
  <2> QED
    BY <1>1, <2>1, <2>2, <2>3, <2>4, PlainInv DEF Step, Live
<1>2. ASSUME NEW t \in due, runToolWorker(t) PROVE FALSE
  BY <1>2 DEF runToolWorker, Live
<1>3. ASSUME NEW a \in Ids, RefreshOne(a) \/ EarlyReset(a) PROVE FALSE
  BY <1>3 DEF RefreshOne, EarlyReset, World, Manual, Live
<1>4. ASSUME NEW win \in {0, Window}, Use(win) PROVE FALSE
  BY <1>4 DEF Use, World, Live
<1>5. Refresh \/ Settle \/ Reload \/ Tick \/ UNCHANGED vars => FALSE
  BY DEF Refresh, Settle, Reload, World, Manual, Live, Tick, vars
<1> QED
  BY <1>1, <1>2, <1>3, <1>4, <1>5 DEF Next, Work

LEMMA ActSteps ==
  ASSUME Inv, [Next]_vars
  PROVE  \/ UNCHANGED act
         \/ \E y \in Actors : Step(y)
         \/ \E t \in due : runToolWorker(t)
         \/ /\ "web" \in Actors /\ act["web"].plan = <<>> /\ Moved("web")
            /\ act'["web"].lock = FALSE /\ UNCHANGED <<q, due>>
<1>1. CASE Refresh
  BY <1>1, RefreshMoves DEF Refresh, Manual
<1>2. CASE \E a \in Ids : RefreshOne(a)
  BY <1>2, RefreshOneMoves DEF RefreshOne, Manual
<1>3. ASSUME NEW a \in Ids, Switch(a) \/ EarlyReset(a) PROVE UNCHANGED act
  BY <1>3 DEF Switch, EarlyReset, World
<1>4. ASSUME NEW win \in {0, Window}, Use(win) PROVE UNCHANGED act
  BY <1>4 DEF Use, World
<1>5. Settle \/ Reload \/ Tick \/ UNCHANGED vars => UNCHANGED act
  BY DEF Settle, Reload, Tick, World, vars
<1> QED
  BY <1>1, <1>2, <1>3, <1>4, <1>5 DEF Next, Work

LEMMA AimedNext ==
  ASSUME Inv, [Next]_vars, \A y \in Actors : Aimed(act[y].plan, pointer), NEW x \in Actors
  PROVE  Aimed(act'[x].plan, pointer')
<1>1. act[x] \in Action /\ Chain(act[x].plan) /\ (act[x].lock <=> Locked(act[x].plan))
  BY ActTypes DEF ActInv, PlanInv, PlanOK
<1>2. act[x].plan \in Seq(Calls)
  BY <1>1 DEF Action
<1>3. ASSUME act'[x] = act[x], act[x].lock = FALSE PROVE Aimed(act'[x].plan, pointer')
  BY <1>1, <1>2, <1>3, AimedFree
<1>4. CASE \E a \in Ids : Switch(a)
  <2>1. act' = act /\ Free
    BY <1>4 DEF Switch
  <2>2. act[x].lock = FALSE
    BY <1>1, <2>1 DEF Free, Action
  <2> QED
    BY <1>3, <2>1, <2>2
<1>5. ASSUME NEW y \in Actors, Target(y) PROVE Aimed(act'[x].plan, pointer')
  <2>1. Moved(y) /\ Top(y).f = "target" /\ End(y)
    BY <1>5, TargetMoves DEF Target, cancelSwitch, Leave, At
  <2>2. act'[y].lock = FALSE /\ act[y].lock = TRUE
    <3>1. act'[y].lock = FALSE
      BY <2>1, Returned DEF End
    <3>2. act[y].lock = TRUE
      BY <2>1, TopOK DEF Locking, Action
    <3> QED
      BY <3>1, <3>2
  <2>3. CASE x = y
    BY <2>1, <2>2, <2>3, AimedUnlocked
  <2>4. CASE x # y
    <3>1. act'[x] = act[x]
      BY <2>1, <2>4, MovedTo
    <3>2. ~(act["worker"].lock /\ act["web"].lock)
      BY DEF Inv, TypeOK
    <3>3. act[x].lock = FALSE
      BY <1>1, <2>2, <2>4, <3>2 DEF Actors, Action
    <3> QED
      BY <1>3, <3>1, <3>3
  <2> QED
    BY <2>3, <2>4
<1>6. CASE pointer' = pointer
  <2>1. ASSUME NEW y \in Actors, Step(y) PROVE Aimed(act'[x].plan, pointer)
    <3>1. CASE x = y
      BY <2>1, <3>1, AimedStep
    <3>2. CASE x # y
      <4>1. act'[x] = act[x]
        BY <2>1, <3>2, StepMoves, MovedTo
      <4> QED
        BY <4>1
    <3> QED
      BY <3>1, <3>2
  <2>2. ASSUME NEW y \in Actors, Moved(y), act'[y].lock = FALSE PROVE Aimed(act'[x].plan, pointer)
    <3>1. CASE x = y
      BY <2>2, <3>1, AimedUnlocked
    <3>2. CASE x # y
      <4>1. act'[x] = act[x]
        BY <2>2, <3>2, MovedTo
      <4> QED
        BY <4>1
    <3> QED
      BY <3>1, <3>2
  <2>3. CASE UNCHANGED act
    <3>1. act'[x].plan = act[x].plan
      BY <2>3
    <3> QED
      BY <1>6, <3>1
  <2>4. ASSUME NEW t \in due, runToolWorker(t) PROVE Aimed(act'[x].plan, pointer)
    BY <2>2, <2>4, TickerMoves
  <2>5. ASSUME "web" \in Actors, Moved("web"), act'["web"].lock = FALSE
        PROVE  Aimed(act'[x].plan, pointer)
    BY <2>2, <2>5
  <2> QED
    BY <1>6, <2>1, <2>3, <2>4, <2>5, ActSteps
<1> QED
  BY <1>4, <1>5, <1>6, PointerSteps

(* What an actor's own step makes of the target's row. *)
LEMMA OwnVouched ==
  ASSUME Inv, NEW x \in Actors, Step(x), Aimed(act[x].plan, pointer), Vouched(x),
         Top(x)'.f \in {"confirm", "target"}, act'[x].class = "ok"
  PROVE  LET l == q'[Top(x)'.id].last IN l.class = "ok" /\ l.age < Interval
<1> DEFINE a == Top(x).id
<1>1. ~\E p, lock : Returns(x, p, lock)
  BY Returned
<1>2. ~\E p : Do(x, p)
  BY <1>1 DEF Do
<1>3. ~End(x) /\ ~Done(x)
  BY <1>1, <1>2 DEF End, Done
<1>4. act'[x].lock = TRUE
  <2>1. Moved(x)
    BY StepMoves
  <2>2. act'[x] \in Action /\ (act'[x].lock <=> Locked(act'[x].plan))
    BY <2>1, MovedTo
  <2>3. Locked(act'[x].plan)
    BY DEF Locked, Locking, Top, Call
  <2> QED
    BY <2>2, <2>3 DEF Action
<1>5. Probe(x) \/ ProbeAuto(x) \/ Confirm(x) \/ Answer(x)
  <2>1. ~TryApply(x)
    BY <1>1, <1>3 DEF TryApply, Leave, cancelSwitch
  <2>2. ~Source(x)
    BY <1>1, <1>3 DEF Source
  <2>3. ~pickNext(x)
    BY <1>1, <1>2 DEF pickNext
  <2> QED
    BY <1>4, <2>1, <2>2, <2>3, FreeCalls
<1>6. ASSUME NEW class, NEW backoff, NEW lock, Got(x, class, backoff, lock), Top(x).f # ""
      PROVE  class = "ok" /\ lock = TRUE /\ Top(x)'.id = a
  <2>1. act'[x].plan = Later(x) /\ Later(x) # <<>> /\ class = "ok" /\ lock = TRUE
    BY <1>4, <1>6, GotPlan
  <2>2. Top(x)' = Head(Later(x))
    BY <2>1 DEF Top
  <2> QED
    BY <1>6, <2>1, <2>2, AimedLater
<1>7. ~Probe(x)
  <2> SUFFICES ASSUME Probe(x) PROVE FALSE
    OBVIOUS
  <2>1. Top(x).f # "" /\ \E class, backoff : Got(x, class, backoff, FALSE)
    BY <1>1 DEF Probe, At
  <2> QED
    BY <1>6, <2>1
<1>8. CASE ProbeAuto(x)
  <2>1. Top(x).f = "auto" /\ Got(x, automaticQuota(a), FALSE, TRUE) /\ q' = q
    BY <1>2, <1>8 DEF ProbeAuto, At
  <2>2. automaticQuota(a) = "ok" /\ Top(x)'.id = a
    BY <1>6, <2>1
  <2>3. cachedAutomaticQuota(a) /\ q[a].class = "ok"
    BY <2>2 DEF automaticQuota
  <2>4. q[a].last.class = "ok" /\ q[a].last.age < Interval
    BY <2>3 DEF cachedAutomaticQuota, observedQuota
  <2> QED
    BY <2>1, <2>2, <2>4
<1>9. CASE Confirm(x)
  <2> DEFINE class == IF act[x].class \notin {"unknown", "expired"} /\ cachedAutomaticQuota(a)
                      THEN act[x].class ELSE "unknown"
  <2>1. Top(x).f = "confirm" /\ q' = q /\ Got(x, class, FALSE, act[x].lock)
    BY <1>9 DEF Confirm, At
  <2>2. Top(x)'.id = a /\ act[x].class = "ok" /\ cachedAutomaticQuota(a)
    <3> HIDE DEF class
    <3>1. class = "ok" /\ Top(x)'.id = a
      BY <1>6, <2>1
    <3> QED
      BY <3>1 DEF class
  <2>3. q[a].last.class = "ok"
    BY <2>1, <2>2 DEF Vouched, At
  <2>4. q[a].last.age < Interval
    BY <2>2, <2>3 DEF cachedAutomaticQuota, observedQuota
  <2> QED
    BY <2>1, <2>2, <2>3, <2>4
<1>10. CASE Answer(x)
  <2>1. PICK row \in Account, class \in Classes : Store(x, row, class) /\ Outcome(x, row, class)
    BY <1>10, AnswerStores
  <2>2. a \in Ids /\ Top(x).f = "wait"
    BY <1>10, AnswerStores DEF At
  <2>3. Got(x, class, FALSE, Keeps(x)) /\ q' = [q EXCEPT ![a] = row] /\ q \in [Ids -> Account]
    BY <2>1, DataTypes DEF Store
  <2>4. class = "ok" /\ Top(x)'.id = a
    BY <1>6, <2>2, <2>3
  <2>5. PICK r \in Asked(a) : row = Answered(r, truth[a]) /\ truth[a].class = "ok"
    BY <2>1, <2>4 DEF Outcome
  <2>6. row.last.class = "ok" /\ row.last.age = 0
    <3> HIDE DEF a
    <3>1. r \in Account
      BY <2>2, AskedType
    <3>2. /\ Answered(r, truth[a]).last.class = truth[a].class
          /\ Answered(r, truth[a]).last.age = 0
      BY <2>2, <3>1, AnsweredType
    <3> QED
      BY <2>5, <3>2
  <2>7. q'[a] = row
    BY <2>2, <2>3
  <2>8. Interval \in Nat /\ Interval > 0
    BY QuotaAssumption
  <2> QED
    BY <2>4, <2>6, <2>7, <2>8
<1> QED
  BY <1>5, <1>7, <1>8, <1>9, <1>10

LEMMA DueSteps ==
  ASSUME Inv, [Next]_vars
  PROVE  \/ UNCHANGED due
         \/ Tick
         \/ \E t \in due : runToolWorker(t)
<1>1. ASSUME NEW x \in Actors, Step(x) PROVE UNCHANGED due
  <2>1. CASE Answer(x)
    BY <2>1, AnswerStores DEF Store
  <2>2. CASE ProbeLimitHit(x) \/ ProbeLocal(x) \/ Recovered(x)
    BY <2>2 DEF ProbeLimitHit, ProbeLocal, Recovered, Still, Outside
  <2>3. CASE SetPending(x) \/ TryApply(x) \/ Source(x) \/ Target(x)
    BY <2>3 DEF SetPending, TryApply, Source, Target, Still, Outside
  <2>4. CASE Renew(x)
    BY <2>4, RenewRows
  <2> QED
    BY <1>1, <2>1, <2>2, <2>3, <2>4, PlainInv DEF Step, Still, Outside
<1>2. ASSUME NEW a \in Ids, RefreshOne(a) \/ Switch(a) \/ EarlyReset(a) PROVE UNCHANGED due
  BY <1>2 DEF RefreshOne, Switch, EarlyReset, World, Manual
<1>3. ASSUME NEW win \in {0, Window}, Use(win) PROVE UNCHANGED due
  BY <1>3 DEF Use, World
<1>4. Refresh \/ Settle \/ Reload \/ UNCHANGED vars => UNCHANGED due
  BY DEF Refresh, Settle, Reload, World, Manual, vars
<1> QED
  BY <1>1, <1>2, <1>3, <1>4 DEF Next, Work

(* While the web server has the lock, the worker still has to ask for the live
   account. *)
LEMMA AskingStep ==
  ASSUME Inv, ~Free, act["worker"].lock = FALSE, Step("worker"), Asking(act["worker"].plan)
  PROVE  Asking(act'["worker"].plan)
<1> DEFINE x == "worker"
           p == act[x].plan
           r == act'[x].plan
<1>1. x \in Actors
  BY DEF Actors
<1>2. p \in Seq(Calls) /\ p # <<>>
  <2>1. p # <<>>
    BY DEF Asking
  <2> QED
    BY <1>1, <2>1, ActTypes DEF Action
<1>3. PICK i \in 1..Len(p) : p[i].f \in {"current", "ask"}
  BY DEF Asking
<1>4. Top(x) = Head(p) /\ Later(x) = Tail(p)
  BY <1>2 DEF Top, Later
<1>5. /\ Len(p) \in Nat /\ Head(p) = p[1] /\ Len(Tail(p)) = Len(p) - 1
      /\ \A j \in 1..Len(Tail(p)) : Tail(p)[j] = p[j + 1]
  BY <1>2, Tails
<1>6. ~Locked(p)
  BY <1>1 DEF Inv, PlanInv, PlanOK
<1>7. Top(x).f \notin Locking
  BY <1>2, <1>4, <1>6 DEF Locked
<1>8. ~Probe(x) /\ ~TryApply(x)
  BY DEF Probe, TryApply
<1>9. /\ ~ProbeAuto(x) /\ ~Confirm(x) /\ ~Answer(x) /\ ~candidateRank(x) /\ ~Source(x)
      /\ ~Target(x)
  BY <1>7 DEF ProbeAuto, Confirm, Answer, candidateRank, Source, Target, At, Locking
<1>10. Passes(x)
  BY <1>1, <1>8, <1>9, ProbeLocalMoves, ProbeHTTPMoves, JudgeMoves, ProbeLimitHitMoves,
     ProbeRecoveredMoves, RecoveredMoves, ProbeResetMoves, pickNextMoves, QueueMoves,
     considerExpiringMoves, KeepAliveMoves, RenewMoves, SetPendingMoves DEF Step
<1>11. CASE i > 1
  <2>1. i - 1 \in 1..Len(Later(x)) /\ Later(x)[i - 1] = p[i]
    BY <1>3, <1>4, <1>5, <1>11
  <2>2. \E j \in 1..Len(r) : r[j] = p[i]
    BY <1>10, <2>1 DEF Passes, Within
  <2> QED
    BY <1>3, <2>2 DEF Asking
<1>12. CASE i = 1
  <2>1. Top(x).f \in {"current", "ask"}
    BY <1>3, <1>4, <1>5, <1>12
  <2>2. ProbeHTTP(x) /\ Top(x).f = "current"
    BY <1>8, <1>9, <2>1 DEF Step, ProbeLocal, ProbeHTTP, Judge, ProbeLimitHit, ProbeRecovered,
       Recovered, ProbeReset, pickNext, Queue, considerExpiring, KeepAlive, Renew, SetPending,
       At, Probe
  <2> DEFINE c == Ask(pointer, TRUE)  d == With("judge", pointer)
             s == <<c, d>>
  <2>3. Do(x, s)
    BY <2>2 DEF ProbeHTTP, At
  <2>4. c.f = "ask"
    BY <1>1, PointerType, AskType
  <2>5. s \in Seq(Calls)
    BY PointerType, Judged
  <2>6. Len(s) = 2 /\ s[1] = c
    OBVIOUS
  <2> HIDE DEF c, d, s
  <2>7. r = s \o Later(x)
    BY <1>1, <2>3, Returned DEF Do
  <2>8. Later(x) \in Seq(Calls)
    BY <1>2, <1>4, Tails
  <2>9. Len(s \o Later(x)) = Len(s) + Len(Later(x)) /\ Len(Later(x)) \in Nat
    BY <2>5, <2>8, Joined
  <2>10. \A j \in 1..Len(s) : (s \o Later(x))[j] = s[j]
    BY <2>5, <2>8, Joined
  <2>11. 1 \in 1..Len(r) /\ r[1] = c
    BY <2>6, <2>7, <2>9, <2>10
  <2> QED
    BY <2>4, <2>11 DEF Asking
<1> QED
  BY <1>3, <1>5, <1>11, <1>12

LEMMA StalledStays ==
  ASSUME Inv, [Next]_vars, act["web"].lock = TRUE, act'["web"] = act["web"], Stalled
  PROVE  Stalled'
<1>1. "web" \in Actors /\ "worker" \in Actors /\ \A y \in Actors : y = "web" \/ y = "worker"
  BY DEF Actors
<1>2. ~Free /\ act["web"].plan # <<>>
  BY <1>1 DEF Free, Inv, TypeOK
<1>3. act["worker"].lock = FALSE
  <2>1. act["worker"] \in Action
    BY <1>1, ActTypes
  <2> QED
    BY <2>1 DEF Action, Inv, TypeOK
<1>4. Asking(act'["worker"].plan) => Stalled'
  BY DEF Stalled, Asking
<1>5. CASE Tick
  BY <1>5 DEF Tick, Tickers, Stalled
<1>6. ASSUME NEW t \in due, runToolWorker(t) PROVE Stalled'
  <2>1. /\ act["worker"].plan = <<>> /\ due' = due \ {t}
        /\ act' = [act EXCEPT !["worker"].plan = Plan(t)]
    BY <1>6 DEF runToolWorker
  <2>2. "http" \in due
    BY <2>1 DEF Stalled, Asking
  <2>3. CASE t # "http"
    BY <2>1, <2>2, <2>3 DEF Stalled
  <2>4. CASE t = "http"
    <3> DEFINE s == <<EveryAccount, Call("current"), Call("parked")>>
               e == ForClaude("expiring")
    <3>1. act'["worker"].plan = Plan(t)
      <4>1. act \in [Actors -> Action]
        BY ActTypes DEF ActInv
      <4>2. act["worker"] \in Action
        BY <1>1, <4>1
      <4> QED
        BY <1>1, <2>1, <4>1, <4>2 DEF Action
    <3>2. Plan(t) = s \o e
      BY <2>4 DEF Plan
    <3>3. s \in Seq(Calls) /\ e \in Seq(Calls)
      BY StartType, EveryType, NoCalls, StartCalls DEF Starts, ForClaude
    <3>4. Len(s) = 3 /\ s[2] = Call("current")
      OBVIOUS
    <3>5. Call("current").f = "current"
      BY DEF Call
    <3> HIDE DEF s, e
    <3>6. Len(s \o e) = Len(s) + Len(e) /\ Len(e) \in Nat
      BY <3>3, Joined
    <3>7. \A j \in 1..Len(s) : (s \o e)[j] = s[j]
      BY <3>3, Joined
    <3>8. 2 \in 1..Len(s \o e) /\ (s \o e)[2].f = "current"
      BY <3>4, <3>5, <3>6, <3>7
    <3> DEFINE r == act'["worker"].plan
    <3>9. r = s \o e
      BY <3>1, <3>2
    <3> HIDE DEF r
    <3>10. Asking(r)
      BY <3>8, <3>9 DEF Asking
    <3> QED
      BY <1>4, <3>10 DEF r
  <2> QED
    BY <2>3, <2>4
<1>7. CASE UNCHANGED due /\ ~Tick /\ ~\E t \in due : runToolWorker(t)
  <2>1. CASE "http" \in due
    BY <1>7, <2>1 DEF Stalled
  <2>2. CASE Asking(act["worker"].plan)
    <3>1. ASSUME UNCHANGED act PROVE Asking(act'["worker"].plan)
      <4>1. act'["worker"] = act["worker"]
        BY <3>1
      <4> QED
        BY <2>2, <4>1
    <3>2. ASSUME NEW y \in Actors, Step(y) PROVE Asking(act'["worker"].plan)
      <4>1. CASE y = "worker"
        BY <1>2, <1>3, <2>2, <3>2, <4>1, AskingStep
      <4>2. CASE y = "web"
        <5>1. act'["worker"] = act["worker"]
          BY <1>1, <3>2, <4>2, StepMoves, MovedTo
        <5> QED
          BY <2>2, <5>1
      <4> QED
        BY <1>1, <4>1, <4>2
    <3>3. act["web"].plan # <<>>
      BY <1>2
    <3> QED
      BY <1>4, <1>7, <3>1, <3>2, <3>3, ActSteps
  <2> QED
    BY <2>1, <2>2 DEF Stalled
<1> QED
  BY <1>5, <1>6, <1>7, DueSteps

(* An actor that is about to confirm or to switch has the lock. *)
LEMMA Holds ==
  ASSUME Inv, NEW x \in Actors, Top(x).f \in {"confirm", "target"}
  PROVE  /\ act[x].lock = TRUE /\ act[x].plan # <<>> /\ Top(x).id \in Ids
         /\ \A y \in Actors \ {x} : act[y].lock = FALSE
         /\ \A y \in Actors : ~At(y, "wait")
<1>1. act[x].lock = TRUE /\ act[x].plan # <<>> /\ Top(x).id \in Ids
  BY TopOK DEF Locking, Action, CallOK
<1>2. ASSUME NEW y \in Actors \ {x} PROVE act[y].lock = FALSE
  <2>1. act[y] \in Action /\ ~(act["worker"].lock /\ act["web"].lock)
    BY ActTypes DEF Inv, TypeOK
  <2> QED
    BY <1>1, <2>1 DEF Actors, Action
<1>3. ASSUME NEW y \in Actors, At(y, "wait") PROVE FALSE
  <2>1. act[y].lock = TRUE /\ Top(y).f = "wait"
    BY <1>3, KeepsLock DEF At
  <2> QED
    BY <1>2, <2>1
<1> QED
  BY <1>1, <1>2, <1>3

LEMMA KeptVouched ==
  ASSUME Inv, [Next]_vars, NEW x \in Actors, Vouched(x),
         act'[x] = act[x], Top(x).f \in {"confirm", "target"}
  PROVE  Vouched(x)'
<1> DEFINE a == Top(x).id
<1>1. /\ act[x].lock = TRUE /\ act[x].plan # <<>> /\ a \in Ids
      /\ \A y \in Actors \ {x} : act[y].lock = FALSE
      /\ \A y \in Actors : ~At(y, "wait")
  BY Holds
<1>2. Top(x)' = Top(x)
  BY DEF Top, Call
<1>3. /\ At(x, "confirm") /\ act[x].class = "ok" => q[a].last.class = "ok"
      /\ At(x, "target") /\ act[x].class = "ok" =>
           /\ q[a].last.class = "ok"
           /\ q[a].last.age < Interval \/ (x = "web" /\ q[a].last.age <= Interval /\ Stalled)
  BY DEF Vouched
<1>4. x = "web" /\ Stalled => Stalled'
  BY <1>1, StalledStays
<1>5. (At(x, "confirm")' <=> At(x, "confirm")) /\ (At(x, "target")' <=> At(x, "target"))
  BY <1>2 DEF At
<1>6. ASSUME q'[a].last = q[a].last PROVE Vouched(x)'
  <2>1. q'[Top(x)'.id].last = q[a].last /\ act'[x].class = act[x].class
    BY <1>2, <1>6
  <2> HIDE DEF a
  <2> QED
    BY <1>3, <1>4, <1>5, <2>1 DEF Vouched
<1>7. ASSUME NEW y \in Actors, Recovered(y) PROVE q'[a].last = q[a].last
  BY <1>1, <1>7, RecoveredRows
<1>8. ASSUME NEW y \in Actors, Answer(y) PROVE FALSE
  BY <1>1, <1>8, AnswerStores
<1>9. ASSUME NEW y \in Actors, ProbeLocal(y) PROVE FALSE
  BY <1>1, <1>9 DEF ProbeLocal, Free
<1>11. ASSUME NEW y \in Actors, Renew(y) PROVE FALSE
  BY <1>1, <1>11 DEF Renew, Free
<1>10. CASE Tick
  <2>1. due = {} /\ act["worker"].plan = <<>> /\ q'[a] = Aged(q[a]) /\ due' = Tickers
    BY <1>1, <1>10 DEF Tick
  <2>2. x = "web" /\ ~Stalled /\ Stalled'
    <3>1. x # "worker"
      BY <1>1, <2>1
    <3>2. x = "web"
      BY <3>1 DEF Actors
    <3>3. ~Asking(act["worker"].plan)
      BY <2>1 DEF Asking
    <3>4. ~Stalled
      BY <2>1, <3>3 DEF Stalled
    <3>5. Stalled'
      BY <2>1 DEF Stalled, Tickers
    <3> QED
      BY <3>2, <3>4, <3>5
  <2>3. q[a] \in Account
    BY <1>1, RowTypes
  <2>4. q'[a].last.class = q[a].last.class /\ q'[a].last.age = Older(q[a].last.age)
    BY <2>1, <2>3, AgedType
  <2>5. q[a].last.age \in Ages
    BY <2>3 DEF Account
  <2>6. q[a].last.age < Interval => q'[a].last.age <= Interval
    <3>1. q[a].last.age \in Int /\ q[a].last.age + 1 \in Int /\ Cap \in Int /\ Interval \in Int
      BY <2>5, Bounds, QuotaAssumption DEF Ages
    <3>2. q'[a].last.age = IF q[a].last.age + 1 <= Cap THEN q[a].last.age + 1 ELSE Cap
      BY <2>4, <3>1, MinType DEF Older
    <3> QED
      BY <3>1, <3>2
  <2>7. q'[Top(x)'.id].last = q'[a].last /\ act'[x].class = act[x].class
    BY <1>2
  <2> HIDE DEF a
  <2> QED
    BY <1>3, <1>5, <2>2, <2>4, <2>6, <2>7 DEF Vouched
<1> QED
  BY <1>6, <1>7, <1>8, <1>9, <1>10, <1>11, RowSteps

LEMMA VouchedNext ==
  ASSUME Inv, [Next]_vars, NEW x \in Actors, Vouched(x),
         Aimed(act[x].plan, pointer)
  PROVE  Vouched(x)'
<1>1. CASE ~(Top(x)'.f \in {"confirm", "target"} /\ act'[x].class = "ok")
  BY <1>1 DEF Vouched, At
<1>2. CASE Top(x)'.f \in {"confirm", "target"} /\ act'[x].class = "ok"
  <2>1. CASE Step(x)
    <3>1. q'[Top(x)'.id].last.class = "ok" /\ q'[Top(x)'.id].last.age < Interval
      BY <1>2, <2>1, OwnVouched
    <3> QED
      BY <3>1 DEF Vouched
  <2>2. ASSUME act'[x] = act[x] PROVE Vouched(x)'
    <3>1. Top(x)' = Top(x)
      BY <2>2 DEF Top, Call
    <3> QED
      BY <1>2, <2>2, <3>1, KeptVouched
  <2>3. ASSUME NEW y \in Actors, Moved(y), x # y PROVE Vouched(x)'
    <3>1. act'[x] = act[x]
      BY <2>3, MovedTo
    <3> QED
      BY <2>2, <3>1
  <2>4. ASSUME NEW y \in Actors, Moved(y), act'[y].lock = FALSE PROVE Vouched(x)'
    <3>1. CASE x = y
      <4>1. act'[x].lock <=> Locked(act'[x].plan)
        BY <2>4, <3>1, MovedTo
      <4>2. ~Locked(act'[x].plan)
        BY <2>4, <3>1, <4>1
      <4> QED
        BY <1>2, <4>2 DEF Locked, Locking, Top, Call
    <3> QED
      BY <2>3, <2>4, <3>1
  <2>5. ASSUME NEW y \in Actors, Step(y) PROVE Vouched(x)'
    <3>1. Moved(y)
      BY <2>5, StepMoves
    <3> QED
      BY <2>1, <2>3, <2>5, <3>1
  <2>6. ASSUME NEW t \in due, runToolWorker(t) PROVE Vouched(x)'
    BY <2>4, <2>6, TickerMoves
  <2>7. ASSUME "web" \in Actors, Moved("web"), act'["web"].lock = FALSE PROVE Vouched(x)'
    BY <2>4, <2>7
  <2>8. CASE UNCHANGED act
    <3>1. act'[x] = act[x]
      BY <2>8
    <3> QED
      BY <2>2, <3>1
  <2> QED
    BY <2>5, <2>6, <2>7, <2>8, ActSteps
<1> QED
  BY <1>1, <1>2

LEMMA EvidenceNext == Inv /\ DeadlineInv /\ EvidenceInv /\ [Next]_vars => EvidenceInv'
<1> SUFFICES ASSUME Inv, DeadlineInv, EvidenceInv, [Next]_vars PROVE EvidenceInv'
  OBVIOUS
<1>1. Ids' = Ids /\ Actors' = Actors
  BY EventQuiet DEF Ids, Actors
<1>2. /\ \A a \in Ids : Agrees(truth[a], q[a])
      /\ \A x \in Actors : Aimed(act[x].plan, pointer) /\ Vouched(x)
  BY DEF EvidenceInv
<1>3. ASSUME NEW a \in Ids PROVE Agrees(truth[a], q[a])'
  BY <1>2, AgreesNext
<1>4. ASSUME NEW x \in Actors PROVE Aimed(act'[x].plan, pointer')
  BY <1>2, AimedNext
<1>5. ASSUME NEW x \in Actors PROVE Vouched(x)'
  BY <1>2, VouchedNext
<1>6. \A x \in Actors : Aimed(act[x].plan, pointer)'
  BY <1>4 DEF Aimed
<1> QED
  BY <1>1, <1>3, <1>5, <1>6 DEF EvidenceInv

LEMMA EvidenceStart == Init => EvidenceInv
<1> SUFFICES ASSUME Init PROVE EvidenceInv
  OBVIOUS
<1>1. ASSUME NEW a \in Ids PROVE Agrees(truth[a], q[a])
  <2>1. truth[a] = [class |-> "ok", win |-> 0, age |-> Cap] /\ q[a] = Fresh
    BY DEF Init
  <2>2. ~(-Cap > 0)
    BY Bounds
  <2> QED
    BY <2>1, <2>2 DEF Agrees, Fresh
<1>2. ASSUME NEW x \in Actors PROVE Aimed(act[x].plan, pointer) /\ Vouched(x)
  <2>1. act[x] = Idle
    BY DEF Init
  <2>2. act[x].plan = <<>>
    BY <2>1 DEF Idle
  <2> QED
    BY <2>2 DEF Aimed, Vouched, At, Top, Call
<1> QED
  BY <1>1, <1>2 DEF EvidenceInv

(* Only the actor whose call is the target's switches. *)
LEMMA TargetSteps ==
  ASSUME Inv, [Next]_vars, NEW x \in Actors, At(x, "target"), pointer' # pointer
  PROVE  /\ act[x].class = "ok" /\ Decided(Top(x)) /\ pointer' = Top(x).id /\ Top(x).id \in Ids
         /\ q' = q
<1>1. /\ act[x].lock = TRUE /\ Top(x).id \in Ids
      /\ \A y \in Actors \ {x} : act[y].lock = FALSE
  BY Holds DEF At
<1>2. ~\E a \in Ids : Switch(a)
  BY <1>1 DEF Switch, Free
<1>3. PICK y \in Actors : Target(y)
  BY <1>2, PointerSteps
<1>4. y = x
  <2>1. act[y].lock = TRUE
    BY <1>3, Holds DEF Target, At
  <2> QED
    BY <1>1, <2>1
<1> QED
  BY <1>1, <1>3, <1>4 DEF Target, Live

(* The target of a switch had quota, by the last answer of the provider, no
   longer ago than an observation is trusted. *)
LEMMA TargetHad ==
  ASSUME Inv, EvidenceInv, [Next]_vars, NEW x \in Actors, At(x, "target"), pointer' # pointer
  PROVE  /\ Top(x).why = "exhausted" => Recently(pointer', "ok", Interval)
         /\ Recently(pointer', "ok", Interval + 1)
         /\ q[pointer'].last.class = "ok"
<1> DEFINE a == Top(x).id
<1>1. act[x].class = "ok" /\ Decided(Top(x)) /\ pointer' = a /\ a \in Ids
  BY TargetSteps
<1>2. /\ q[a].last.class = "ok" /\ q[a].last.age <= Interval
      /\ truth[a].class = "ok" \/ truth[a].age <= q[a].last.age
  <2>1. Vouched(x) /\ Agrees(truth[a], q[a])
    BY <1>1 DEF EvidenceInv
  <2>2. q[a].last.age \in Int /\ Interval \in Int
    BY <1>1, RowTypes, QuotaAssumption DEF Account, Ages
  <2> QED
    BY <1>1, <2>1, <2>2 DEF Vouched, Agrees
<1>3. q[a].last.age \in Int /\ Interval \in Int /\ truth[a].age \in Int
  BY <1>1, RowTypes, DataTypes, QuotaAssumption DEF Account, Ages
<1>4. Top(x).why = "exhausted" => q[a].last.age < Interval
  BY <1>1, <1>2 DEF Decided, cachedAutomaticQuota, observedQuota
<1> HIDE DEF a
<1>5. truth[a].class = "ok" \/ truth[a].age < Interval + 1
  BY <1>2, <1>3
<1>6. Top(x).why = "exhausted" => truth[a].class = "ok" \/ truth[a].age < Interval
  BY <1>2, <1>3, <1>4
<1> QED
  BY <1>1, <1>2, <1>5, <1>6 DEF Recently

(* The account it leaves was used up, where no client's log is read. *)
LEMMA SourceHad ==
  ASSUME Inv, EvidenceInv, [Next]_vars, "log" \notin world, NEW x \in Actors,
         At(x, "target"), pointer' # pointer, Top(x).why = "exhausted"
  PROVE  Recently(pointer, "exhausted", Trusted)
<1>1. Decided(Top(x))
  BY TargetSteps
<1>2. Top(x).from = pointer
  BY AimedLater DEF EvidenceInv, At
<1>3. knownExhausted(pointer)
  BY <1>1, <1>2 DEF Decided
<1> DEFINE t == truth[pointer]  r == q[pointer]
<1>4. /\ t.class = r.conf.class \/ t.age <= r.conf.age
      /\ tool # "codex" /\ r.rel > 0 => t.class = "exhausted"
  BY PointerType DEF EvidenceInv, Agrees
<1>5. /\ r.conf.class = "exhausted"
      /\ IF tool = "codex" THEN r.conf.age < CodexRecover \/ r.conf.age < IntervalMin
                           ELSE r.rel > 0 \/ r.conf.age < IntervalMin
  BY <1>3 DEF knownExhausted, Exhausted, observedQuota, codexRecoverInterval
<1>6. t.age \in Int /\ r.conf.age \in Int /\ CodexRecover \in Int /\ IntervalMin \in Int
  BY PointerType, RowTypes, DataTypes, QuotaAssumption DEF Account, Ages
<1>7. tool = "codex" => Trusted >= CodexRecover /\ Trusted >= IntervalMin /\ Trusted \in Int
  <2>1. tool = "codex" => Trusted = Max({CodexRecover, IntervalMin})
    BY DEF Trusted
  <2>2. Max({CodexRecover, IntervalMin})
          = IF CodexRecover >= IntervalMin THEN CodexRecover ELSE IntervalMin
    BY <1>6, MaxType
  <2> QED
    BY <1>6, <2>1, <2>2
<1>8. tool # "codex" => Trusted = IntervalMin
  BY DEF Trusted
<1> HIDE DEF t, r, Trusted
<1>9. t.class = "exhausted" \/ t.age < Trusted
  BY <1>4, <1>5, <1>6, <1>7, <1>8
<1> QED
  BY <1>9 DEF Recently, t

(* An automatic switch for a used-up account leaves one that was used up (where
   no client's log is read) and moves to one that had quota when the provider
   last answered, a moment ago (automaticQuotaLocked, TryApply), whatever the
   web server asked meanwhile. *)
THEOREM EvidenceStands == Spec => Evidence
<1>1. Inv /\ EvidenceInv /\ [Next]_vars =>
        [\A x \in Actors :
           (At(x, "target") /\ pointer' # pointer) =>
             /\ Top(x).why = "exhausted" =>
                  /\ "log" \notin world => Recently(pointer, "exhausted", Trusted)
                  /\ Recently(pointer', "ok", Interval)
             /\ Recently(pointer', "ok", Interval + 1)
             /\ q[pointer'].last.class = "ok"]_vars
  BY TargetHad, SourceHad
<1> QED
  BY <1>1, InvInit, InvNext, DeadlineStart, DeadlineNext, EvidenceStart, EvidenceNext,
     PTL DEF Spec, Evidence
=============================================================================
