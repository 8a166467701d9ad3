--------------------------------- MODULE Quota ---------------------------------
(***************************************************************************)
(* What qswitch knows of the quota of a tool's accounts, when it asks the  *)
(* provider, and when it queues and starts an automatic switch.            *)
(*                                                                         *)
(* Two actors work on the same records: the daemon's worker of the tool    *)
(* and the web server.  Each runs a plan, a stack of the calls it has to   *)
(* make; a call that the code makes without a lock is a step of its own,   *)
(* and a request to the provider holds the tool lock from `Ask` to         *)
(* `Answer`.  Times are kept relative to now: an age grows and a           *)
(* remaining time shrinks with Tick, both up to Cap.                       *)
(***************************************************************************)
EXTENDS Integers, Sequences, SequencesExt, FiniteSetsExt

CONSTANTS
  Worlds,         \* a tool and the events that may happen together
  MaxFailures,    \* how many requests fail
  IntervalMin, Interval,            \* config IntervalMin, and quota.Interval of these accounts
  CodexRecover, IdleQuotaInterval,
  RetryMin, RetryMax, ServerDelay,  \* delays after a failed request
  Backoff,                          \* after a refused sign-in
  ResetGrace, ManualSpacing, ExpiringSettle,
  Window, DefaultCooling,           \* until the next reset, and what is assumed without one
  Cap                               \* ages are not told apart from here on

Tools == {"codex", "claude"}
Events ==
  { "three", "fails", "throttled", "refused", "broken", "early", "log", "busy",
    "refresh", "probe", "switch", "off", "expiring",
    "again", "renews", "unused" }

ASSUME QuotaAssumption ==
  /\ \A w \in Worlds : w \subseteq Tools \cup Events /\ Cardinality(w \cap Tools) = 1
  /\ {MaxFailures, ResetGrace, ManualSpacing, ExpiringSettle, Cap} \subseteq Nat
  /\ {IntervalMin, Interval, CodexRecover, IdleQuotaInterval, RetryMin, RetryMax, ServerDelay,
      Backoff, Window, DefaultCooling} \subseteq 1..Cap
  /\ RetryMin <= RetryMax /\ IntervalMin <= Interval

Classes == {"ok", "exhausted", "unknown", "expired"}  \* Soft is an OK that ranks lower

VARIABLES
  world,    \* it never changes
  truth,    \* truth[a]: what the provider would answer, until when, and since when
  q,        \* q[a]: the account's row and its last two kinds of row in quota_log
  expires,  \* expires[a]: how soon a reset forfeits what is left; 1 soon, 2 later, 0 unknown
  pointer, applied,  \* the live account, and how long ago it became that
  pending,  \* the queued switch
  auto,     \* automatic switching is on
  busy,     \* a session or a CLI is not idle
  hit,      \* a session reported a usage-limit failure
  event,    \* the last usage-limit line a client wrote to its log
  act,      \* act[x]: what actor x is doing
  due,      \* the worker's tickers that fired
  late,     \* the clock moved during the request
  deadline, \* deadline[a]: how long account a must not be asked, as the provider said
  hidden,   \* the accounts whose deadline something else than a request covered up
  uses, failures, manual

vars == << world, truth, q, expires, pointer, applied, pending, auto, busy, hit, event, act,
           due, late, deadline, hidden, uses, failures, manual >>

tool == CHOOSE t \in Tools : t \in world
Ids == 1..(IF "three" \in world THEN 3 ELSE 2)  \* in the order of ListAccounts

(* The row: `delay` is HTTPBackoffUntil less LastHTTPAt, `rel` is LastResetsAt
   less now and -Cap without one, `http` and `probed` are the ages of
   LastHTTPAt and LastProbedAt, `refresh` and `cooling` what is left of the
   other two deadlines.  `last` is LatestQuota, `conf` LatestConfirmedQuota. *)
Ages == 0..Cap
Account ==
  [ class : Classes, http : Ages, delay : Ages, rel : (-Cap)..Cap, refresh : Ages,
    cooling : Ages, probed : Ages, last : [class : Classes, throttled : BOOLEAN, age : Ages],
    conf : [class : {"ok", "exhausted"}, age : Ages] ]

Pending == [from : 0..3, to : 0..3, why : {"", "exhausted", "expiring"}, age : Ages]
NoPending == [from |-> 0, to |-> 0, why |-> "", age |-> 0]

(* A call an actor has to make: `ids` and `id` are the loop of a caller. *)
Call(f) == [f |-> f, ids |-> {}, id |-> 0, from |-> 0, why |-> "", gate |-> FALSE]
Calls ==
  [ f : { "keepalive", "renew", "local", "current", "current!", "parked", "parked!", "recovered",
          "judge", "limit", "limited", "reset", "expiring", "pick", "rank", "queue", "set",
          "apply", "source", "target", "ask", "wait", "auto", "confirm" },
    ids : SUBSET Ids, id : {0} \cup Ids, from : {0} \cup Ids, why : {"", "exhausted", "expiring"},
    gate : BOOLEAN ]
Actors == {"worker", "web"}
Idle == [plan |-> <<>>, lock |-> FALSE, class |-> "unknown", backoff |-> FALSE]
Tickers == {"http", "apply"} \cup (IF "log" \in world THEN {"local"} ELSE {})
NoEvent == [age |-> Cap, win |-> 0]

(* Every variable has its type. *)
TypeOK ==
  /\ world \in Worlds
  /\ truth \in [Ids -> [class : {"ok", "exhausted"}, win : 0..Window, age : Ages]]
  /\ q \in [Ids -> Account] /\ expires \in [Ids -> 0..2]
  /\ pointer \in Ids /\ applied \in Ages /\ pending \in Pending
  /\ {auto, busy, hit, late} \subseteq BOOLEAN
  /\ deadline \in [Ids -> Ages] /\ hidden \subseteq Ids
  /\ event \in [age : Ages, win : 0..Window]
  /\ act \in [Actors -> [plan : Seq(Calls), lock : BOOLEAN, class : Classes, backoff : BOOLEAN]]
  /\ \A x \in Actors : act[x].lock => act[x].plan # <<>>
  /\ ~(act["worker"].lock /\ act["web"].lock)
  /\ due \subseteq {"local", "http", "apply"}
  /\ uses \in 0..2 /\ failures \in 0..MaxFailures /\ manual \in 0..1

(* Every account was asked a moment ago and has quota; one is live. *)
Fresh ==
  [ class |-> "ok", http |-> 0, delay |-> 0, rel |-> -Cap, refresh |-> 0, cooling |-> 0,
    probed |-> 0, last |-> [class |-> "ok", throttled |-> FALSE, age |-> 0],
    conf |-> [class |-> "ok", age |-> 0] ]

Init ==
  /\ world \in Worlds
  /\ truth = [a \in Ids |-> [class |-> "ok", win |-> 0, age |-> Cap]]
  /\ q = [a \in Ids |-> Fresh]
  /\ expires \in IF "expiring" \in world THEN [Ids -> 0..2] ELSE {[a \in Ids |-> 0]}
  /\ pointer = 1 /\ applied = Cap /\ pending = NoPending
  /\ auto = TRUE /\ busy = ("busy" \in world) /\ hit = FALSE /\ event = NoEvent
  /\ act = [x \in Actors |-> Idle]
  /\ due = Tickers /\ late = FALSE /\ deadline = [a \in Ids |-> 0] /\ hidden = {}
  /\ uses = 0 /\ failures = 0 /\ manual = 0

-----------------------------------------------------------------------------
(* What a record says *)

Waits(a) == q[a].delay > q[a].http          \* HTTPBackoffUntil is ahead
Held(a) == Waits(a) \/ q[a].refresh > 0
Exhausted(a) == q[a].class = "exhausted"

ResetSince(a, age) == q[a].rel > -age       \* LastResetsAt is later than `age` ago

resetDue(a) ==
  Exhausted(a) /\ ResetSince(a, q[a].http) /\ q[a].rel + ResetGrace <= 0

codexRecoverInterval(a) ==
  IF q[a].cooling = 0 /\ q[a].rel <= 0 THEN IntervalMin ELSE CodexRecover

recoverDue(a) ==
  /\ ~Held(a)
  /\ \/ q[a].delay > 0
     \/ tool = "codex" /\ (resetDue(a) \/ q[a].http >= codexRecoverInterval(a))
     \/ /\ tool # "codex" /\ q[a].cooling = 0 /\ q[a].rel <= 0
        /\ resetDue(a) \/ q[a].http >= IntervalMin

(* Mutated form: only a failed request is ever repeated. *)
idleQuotaDue_retries(a) == ~Held(a) /\ q[a].delay > 0

idleQuotaDue(a) == ~Held(a) /\ (q[a].delay > 0 \/ q[a].http >= IdleQuotaInterval)

(* Mutated form: an observation shows what it showed for good. *)
observedQuota_ageless(a, o) == o.class = q[a].class /\ o.class \in {"ok", "exhausted"}

(* What observation o of account a still shows. *)
observedQuota(a, o) ==
  /\ o.class = q[a].class
  /\ ~(ResetSince(a, o.age) /\ q[a].rel <= 0)
  /\ \/ o.class = "ok" /\ o.age < Interval
     \/ /\ o.class = "exhausted"
        /\ IF tool = "codex" THEN o.age < codexRecoverInterval(a)
                             ELSE q[a].rel > 0 \/ o.age < IntervalMin

knownExhausted(a) == Exhausted(a) /\ observedQuota(a, q[a].conf)
cachedAutomaticQuota(a) == ~Held(a) /\ observedQuota(a, q[a].last)

refreshSkips(a) == knownExhausted(a) \/ q[a].http < ManualSpacing

(* A gated probe is answered from the row. *)
CachedByInterval(a) ==
  IF tool = "codex" /\ Exhausted(a) THEN ~recoverDue(a)
  ELSE \/ Exhausted(a) /\ q[a].rel > 0
       \/ ~(Exhausted(a) /\ ResetSince(a, q[a].http)) /\ q[a].http < Interval

quotaRetryDelay(r, server) ==
  LET d == r.delay
      own == IF 2 * d >= RetryMax THEN RetryMax ELSE IF d >= RetryMin THEN 2 * d ELSE RetryMin
  IN  Max({IF d = 0 THEN RetryMin ELSE own, server})

-----------------------------------------------------------------------------
(* Actors and their calls *)

Top(x) == IF act[x].plan = <<>> THEN Call("") ELSE Head(act[x].plan)
At(x, f) == Top(x).f = f

(* Mutated form: a request is made without the tool lock. *)
Free_always == TRUE
Free == \A x \in Actors : ~act[x].lock
Later(x) == Tail(act[x].plan)

(* The next call uses what this one returned. *)
Returns(x, calls, lock) == act' = [act EXCEPT ![x] = [Idle EXCEPT !.plan = calls, !.lock = lock]]
Do(x, calls) == Returns(x, calls \o Later(x), act[x].lock)
Done(x) == Do(x, <<>>)
Got(x, class, backoff, lock) ==
  IF Later(x) = <<>> THEN Returns(x, <<>>, FALSE)
  ELSE act' = [act EXCEPT ![x] =
         [plan |-> Later(x), lock |-> lock, class |-> class, backoff |-> backoff]]

Outside == <<world, truth, expires, busy, due, late, deadline, hidden, uses, failures, manual>>
Still == <<Outside, auto, hit, event>>
Live == <<pointer, applied>>

Ask(id, gate) == [Call("ask") EXCEPT !.id = id, !.gate = gate]
Automatic(id) == [Call("auto") EXCEPT !.id = id]
With(f, id) == [Call(f) EXCEPT !.id = id]

(* Mutated form: a manual request retries a throttled one as well. *)
Probe_retries(x) ==
  LET a == Top(x).id  gate == Top(x).gate IN
  /\ At(x, "ask") /\ Free
  /\ IF Waits(a) /\ gate THEN Got(x, q[a].class, TRUE, FALSE)
     ELSE IF gate /\ q[a].refresh > 0 THEN Got(x, "unknown", FALSE, FALSE)
     ELSE IF gate /\ q[a].delay = 0 /\ CachedByInterval(a) THEN Got(x, q[a].class, FALSE, FALSE)
     ELSE Returns(x, <<With("wait", a)>> \o Later(x), TRUE)
  /\ UNCHANGED <<Still, q, Live, pending>>

(* probeAccount: what it decides once it has the lock. *)
Probe(x) ==
  LET a == Top(x).id  gate == Top(x).gate IN
  /\ At(x, "ask") /\ Free
  /\ IF Waits(a) /\ (gate \/ q[a].last.throttled) THEN Got(x, q[a].class, TRUE, FALSE)
     ELSE IF gate /\ q[a].refresh > 0 THEN Got(x, "unknown", FALSE, FALSE)
     ELSE IF gate /\ q[a].delay = 0 /\ CachedByInterval(a) THEN Got(x, q[a].class, FALSE, FALSE)
     ELSE Returns(x, <<With("wait", a)>> \o Later(x), TRUE)
  /\ UNCHANGED <<Still, q, Live, pending>>

(* automaticQuotaLocked: it honours every deadline and asks at most once;
   "ask" if it has to. *)
automaticQuota(a) ==
  IF Held(a) \/ q[a].class = "expired" THEN "unknown"
  ELSE IF cachedAutomaticQuota(a) THEN q[a].class
  ELSE IF q[a].delay = 0 /\ CachedByInterval(a) THEN "unknown"
  ELSE "ask"

Requests(a) == <<With("wait", a), With("confirm", a)>>

ProbeAuto(x) ==
  LET a == Top(x).id IN
  /\ At(x, "auto")
  /\ IF automaticQuota(a) = "ask"
     THEN Do(x, Requests(a))
     ELSE Got(x, automaticQuota(a), FALSE, TRUE)
  /\ UNCHANGED <<Still, q, Live, pending>>

(* Only an observation that is in the log and fresh authorizes. *)
Confirm(x) ==
  /\ At(x, "confirm")
  /\ Got(x, IF act[x].class \notin {"unknown", "expired"} /\ cachedAutomaticQuota(Top(x).id)
            THEN act[x].class ELSE "unknown", FALSE, act[x].lock)
  /\ UNCHANGED <<Still, q, Live, pending>>

-----------------------------------------------------------------------------
(* The provider's answer, stored under the lock *)

Log(r, class, throttled) == [r EXCEPT !.last = [class |-> class, throttled |-> throttled, age |-> 0]]
Confirmed(r, class) == [Log(r, class, FALSE) EXCEPT !.conf = [class |-> class, age |-> 0]]
Until(win) == IF win = 0 THEN -Cap ELSE win
Cooling(win) == IF win = 0 THEN DefaultCooling ELSE win

Answered(r, t) ==
  Confirmed([ r EXCEPT !.class = t.class, !.http = 0, !.probed = 0, !.delay = 0,
                       !.rel = Until(t.win),
                       !.cooling = IF t.class = "ok" THEN 0 ELSE Cooling(t.win) ], t.class)

(* Mutated form: a failed request leaves the class unknown. *)
Failed_forgets(r, throttled, authenticated) ==
  Log([ r EXCEPT !.class = "unknown", !.http = 0, !.probed = 0,
                 !.delay = quotaRetryDelay(r, IF throttled THEN ServerDelay ELSE 0) ],
      "unknown", throttled)

(* Class, usage and reset survive a failed request, but an answer without
   quota shows that the sign-in is valid. *)
Failed(r, throttled, authenticated) ==
  Log([ r EXCEPT !.class = IF @ = "expired" /\ authenticated THEN "unknown" ELSE @,
                 !.http = 0, !.probed = 0,
                 !.delay = quotaRetryDelay(r, IF throttled THEN ServerDelay ELSE 0) ],
      "unknown", throttled)

Refused(r) ==
  Log([ r EXCEPT !.class = "expired", !.http = 0, !.probed = 0, !.delay = Backoff,
                 !.refresh = Backoff, !.rel = -Cap ], "expired", FALSE)

(* recordRefreshResult: a renewed sign-in is no longer expired. *)
Renewed(r) ==
  IF r.class = "expired" THEN [r EXCEPT !.class = "unknown", !.delay = 0, !.refresh = 0]
                         ELSE [r EXCEPT !.refresh = 0]

(* The access token could not be renewed: no request was made. *)
recordRefreshResult(a, permanent) ==
  Log([ q[a] EXCEPT !.probed = 0, !.refresh = IF permanent THEN Backoff ELSE RetryMin,
                    !.class = IF permanent THEN "expired" ELSE @ ],
      IF permanent THEN "expired" ELSE "unknown", FALSE)

Broken(a) == "broken" \in world /\ a = 2

(* Codex renews its live login itself, a CLI of Claude does while it runs. *)
Renews(a) == a # pointer \/ tool # "codex"

(* The row an answer finds: the access token may have been renewed for the
   request, and is if the sign-in was refused before. *)
Asked(a) ==
  { r \in {q[a], Renewed(q[a])} :
      IF a # pointer THEN r.class # "expired" ELSE Renews(a) \/ r = q[a] }

(* The lock ends with probeAccount; a caller of automaticQuotaLocked keeps it. *)
Keeps(x) == Len(act[x].plan) > 1 /\ act[x].plan[2].f = "confirm"

Store(x, row, class) ==
  /\ q' = [q EXCEPT ![Top(x).id] = row]
  /\ Got(x, class, FALSE, Keeps(x))
  /\ IF row.last.throttled
     THEN deadline' = [deadline EXCEPT ![Top(x).id] = ServerDelay] /\ hidden' = hidden \ {Top(x).id}
     ELSE UNCHANGED <<deadline, hidden>>
  /\ late' = FALSE
  /\ UNCHANGED << world, truth, expires, Live, pending, auto, busy, hit, event, due, uses, manual >>

Answer(x) ==
  LET a == Top(x).id IN
  /\ At(x, "wait")
  /\ \/ /\ ~Broken(a) /\ UNCHANGED failures
        /\ \E r \in Asked(a) : Store(x, Answered(r, truth[a]), truth[a].class)
     \/ Broken(a) /\ Store(x, recordRefreshResult(a, FALSE), "unknown") /\ UNCHANGED failures
     \/ /\ ~Broken(a) /\ failures < MaxFailures /\ failures' = failures + 1
        /\ \/ \E r \in Asked(a) :
                \/ /\ "fails" \in world
                   /\ \E authenticated \in BOOLEAN : Store(x, Failed(r, FALSE, authenticated), "unknown")
                \/ "throttled" \in world /\ Store(x, Failed(r, TRUE, FALSE), "unknown")
                \/ "refused" \in world /\ Store(x, Refused(r), "expired")
           \/ "refused" \in world /\ Renews(a) /\ Store(x, recordRefreshResult(a, TRUE), "expired")

-----------------------------------------------------------------------------
(* Renewing the sign-ins *)

(* What is logged for account a covers up a deadline of its provider. *)
Hides(a) == hidden' = IF deadline[a] > 0 THEN hidden \cup {a} ELSE hidden

TokenDue(a) == q[a].class = "expired" \/ Broken(a)
Renewable(a) == q[a].refresh = 0 /\ Renews(a)

(* KeepAlive: the first account, in the order of ListAccounts, whose token has
   to be renewed.  Any token may be about to expire. *)
KeepAlive(x) ==
  LET c == Top(x)
      certain == {a \in c.ids : Renewable(a) /\ TokenDue(a)}
      first == {a \in c.ids : Renewable(a) /\ \A b \in certain : a <= b}
  IN
  /\ At(x, "keepalive")
  /\ \/ certain = {} /\ Done(x)
     \/ \E a \in first :
          /\ a \in certain \/ "renews" \in world
          /\ Do(x, <<[c EXCEPT !.f = "renew", !.id = a, !.ids = {b \in @ : b > a}]>>)
  /\ UNCHANGED <<Still, q, Live, pending>>

(* keepAliveCodex and keepAliveClaudeLocked: it looks again under the lock,
   and renews one account at most.  The exchange takes no time here. *)
Renew(x) ==
  LET c == Top(x)  a == c.id IN
  /\ At(x, "renew") /\ Free
  /\ \/ /\ ~TokenDue(a) \/ ~Renewable(a) \/ a = pointer
        /\ Do(x, IF tool = "claude" /\ ~TokenDue(a) THEN <<[c EXCEPT !.f = "keepalive", !.id = 0]>> ELSE <<>>)
        /\ UNCHANGED <<q, failures, hidden>>
     \/ /\ Renewable(a) /\ ~Broken(a) /\ Done(x)
        /\ q' = [q EXCEPT ![a] = Renewed(@)]
        /\ (IF q[a].class = "expired" THEN Hides(a) ELSE UNCHANGED hidden) /\ UNCHANGED failures
     \/ /\ Renewable(a) /\ Done(x) /\ Hides(a)
        /\ \E permanent \in BOOLEAN :
             /\ q' = [q EXCEPT ![a] = recordRefreshResult(a, permanent)]
             /\ \/ Broken(a) /\ ~permanent /\ UNCHANGED failures
                \/ /\ ~Broken(a) /\ failures < MaxFailures /\ failures' = failures + 1
                   /\ (IF permanent THEN "refused" ELSE "renews") \in world
  /\ UNCHANGED <<world, truth, expires, busy, due, late, deadline, uses, manual, auto, hit, event,
                 Live, pending>>

-----------------------------------------------------------------------------
(* Probing *)

(* considerSwitch: the candidates as they are listed now. *)
Consider ==
  IF ~auto THEN <<>>
  ELSE <<[ Call("pick") EXCEPT !.from = pointer,
             !.ids = {a \in Ids \ {pointer} : q[a].cooling = 0} ]>>

(* ProbeLocal: a line newer than the last probe and the last switch. *)
ProbeLocal(x) ==
  /\ At(x, "local") /\ Free
  /\ IF event.age < q[pointer].probed /\ event.age < applied
     THEN LET left == Max({event.win - event.age, 0}) IN
          /\ q' = [q EXCEPT ![pointer] =
               Confirmed([@ EXCEPT !.class = "exhausted", !.probed = 0, !.rel = Until(left),
                                   !.cooling = Cooling(left)], "exhausted")]
          /\ Do(x, Consider) /\ Hides(pointer)
     ELSE Done(x) /\ UNCHANGED <<q, hidden>>
  /\ UNCHANGED <<world, truth, expires, busy, due, late, deadline, uses, failures, manual, auto,
                 hit, event, Live, pending>>

(* ProbeHTTP of the tick, and of a refresh of every account. *)
ProbeHTTP(x) ==
  /\ \/ At(x, "current") /\ Do(x, <<Ask(pointer, TRUE), With("judge", pointer)>>)
     \/ /\ At(x, "current!")
        /\ IF ~refreshSkips(pointer) THEN Do(x, <<Ask(pointer, FALSE), With("judge", pointer)>>)
           ELSE Do(x, IF knownExhausted(pointer) THEN Consider ELSE <<>>)
  /\ UNCHANGED <<Still, q, Live, pending>>

(* A failed request does not withdraw a confirmed exhaustion. *)
Judge(x) ==
  /\ At(x, "judge")
  /\ Do(x, IF (IF act[x].backoff THEN knownExhausted(Top(x).id) ELSE act[x].class = "exhausted")
           THEN Consider ELSE <<>>)
  /\ UNCHANGED <<Still, q, Live, pending>>

ProbeLimitHit(x) ==
  /\ \/ /\ At(x, "limit") /\ hit' = FALSE
        /\ Do(x, IF ~hit \/ ~auto THEN <<>>
                 ELSE IF knownExhausted(pointer) THEN Consider
                 ELSE IF Held(pointer) THEN <<>>
                 ELSE <<Ask(pointer, FALSE), Call("limited")>>)
     \/ /\ At(x, "limited") /\ UNCHANGED hit
        /\ Do(x, IF act[x].class = "exhausted" THEN Consider ELSE <<>>)
  /\ UNCHANGED <<Outside, auto, event, q, Live, pending>>

(* The parked accounts, oldest attempt first. *)
Attempt(a) == Min({q[a].http, q[a].probed})

Sooner(a, b) == Attempt(a) > Attempt(b) \/ (Attempt(a) = Attempt(b) /\ a < b)

OldestFirst(ids) ==
  [i \in 1..Cardinality(ids) |->
     CHOOSE a \in ids : Cardinality({b \in ids : Sooner(b, a)}) = i - 1]

Probed(a) == <<Ask(a, FALSE)>> \o
  (IF Exhausted(a) THEN <<[With("recovered", a) EXCEPT !.from = pointer]>> ELSE <<>>)

ProbeRecovered(x) ==
  /\ \/ /\ At(x, "parked")
        /\ LET ready == {a \in Ids \ {pointer} :
                          IF Exhausted(a) THEN recoverDue(a) ELSE idleQuotaDue(a)}
           IN  Do(x, IF ready = {} THEN <<>> ELSE Probed(OldestFirst(ready)[1]))
     \/ /\ At(x, "parked!")
        /\ LET order == OldestFirst({a \in Ids \ {pointer} : ~refreshSkips(a)})
           IN  Do(x, FlattenSeq([i \in DOMAIN order |-> Probed(order[i])]))
  /\ UNCHANGED <<Still, q, Live, pending>>

Recovered(x) ==
  /\ At(x, "recovered")
  /\ IF act[x].class = "ok"
     THEN /\ q' = [q EXCEPT ![Top(x).id].cooling = 0]
          /\ Do(x, IF Exhausted(Top(x).from) THEN Consider ELSE <<>>)
     ELSE Done(x) /\ UNCHANGED q
  /\ UNCHANGED <<Still, Live, pending>>

(* ProbeReset: as soon as an advertised reset passed. *)
ProbeReset(x) ==
  /\ At(x, "reset")
  /\ Do(x, (IF resetDue(pointer) /\ ~Held(pointer) THEN <<Call("current")>> ELSE <<>>) \o
           (IF \E a \in Ids \ {pointer} : resetDue(a) /\ recoverDue(a) THEN <<Call("parked")>> ELSE <<>>))
  /\ UNCHANGED <<Still, q, Live, pending>>

-----------------------------------------------------------------------------
(* Queueing a switch *)

(* Mutated form: an account whose reset is unknown is never chosen. *)
better_known(a, b) == expires[a] # 0 /\ (b = 0 \/ expires[b] = 0 \/ expires[a] < expires[b])

(* The account whose quota is lost first; an unknown reset comes last. *)
better(a, b) == b = 0 \/ (expires[a] # 0 /\ (expires[b] = 0 \/ expires[a] < expires[b]))

Candidate(c) == Min(c.ids)  \* in the order of ListAccounts
Ranked(c, class) ==
  [ c EXCEPT !.f = "pick", !.ids = @ \ {Candidate(c)},
             !.id = IF class = "ok" /\ better(Candidate(c), @) THEN Candidate(c) ELSE @ ]

(* pickNext asks for the candidates one by one, each under the lock. *)
pickNext(x) ==
  LET c == Top(x)  a == Candidate(c) IN
  /\ At(x, "pick")
  /\ IF c.ids = {}
     THEN Do(x, IF c.id = 0 THEN <<>> ELSE <<[c EXCEPT !.f = "queue"]>>)
     ELSE IF q[a].cooling > 0 THEN Do(x, <<Ranked(c, "unknown")>>)
     ELSE /\ Free
          /\ IF automaticQuota(a) = "ask"
             THEN Returns(x, Requests(a) \o <<[c EXCEPT !.f = "rank"]>> \o Later(x), TRUE)
             ELSE Do(x, <<Ranked(c, automaticQuota(a))>>)
  /\ UNCHANGED <<Still, q, Live, pending>>

candidateRank(x) ==
  /\ At(x, "rank")
  /\ Returns(x, <<Ranked(Top(x), act[x].class)>> \o Later(x), FALSE)
  /\ UNCHANGED <<Still, q, Live, pending>>

(* GetPending: a switch that is already queued keeps its QueuedAt. *)
Queue(x) ==
  LET c == Top(x) IN
  /\ At(x, "queue")
  /\ Do(x, IF pending.why = "exhausted" /\ pending.from = c.from /\ pending.to = c.id
           THEN <<Call("apply")>> ELSE <<[c EXCEPT !.f = "set", !.why = "exhausted"]>>)
  /\ UNCHANGED <<Still, q, Live, pending>>

(* No lock is held from what considerSwitch and considerExpiring read to this
   write: the other actor may have queued a switch, or made one. *)
SetPending(x) ==
  LET c == Top(x) IN
  /\ At(x, "set")
  /\ pending' = [from |-> c.from, to |-> c.id, why |-> c.why, age |-> 0]
  /\ Do(x, IF c.why = "exhausted" THEN <<Call("apply")>> ELSE <<>>)
  /\ UNCHANGED <<Still, q, Live>>

(* The account that forfeits quota soon, before the live one. *)
expiringTarget(live) ==
  LET good == {a \in Ids \ {live} : q[a].cooling = 0 /\ q[a].class = "ok" /\ expires[a] = 1}
  IN  IF good = {} \/ expires[live] = 1 THEN 0 ELSE Min(good)

(* It writes later what it chose from the records as they are now. *)
considerExpiring(x) ==
  /\ At(x, "expiring")
  /\ Do(x, IF /\ auto /\ pending = NoPending /\ applied >= ExpiringSettle
              /\ q[pointer].class = "ok" /\ expiringTarget(pointer) # 0
           THEN <<[Call("set") EXCEPT !.from = pointer, !.id = expiringTarget(pointer), !.why = "expiring"]>>
           ELSE <<>>)
  /\ UNCHANGED <<Still, q, Live, pending>>

-----------------------------------------------------------------------------
(* TryApply *)

(* The call ends and its lock is released, with or without the queued switch. *)
End(x) == Returns(x, Later(x), FALSE)
cancelSwitch(x) == End(x) /\ pending' = NoPending
Leave(x) == End(x) /\ UNCHANGED pending

expiringStillDue(p) == auto /\ pointer = p.from /\ expiringTarget(pointer) = p.to

StillWanted(p) ==
  IF p.why = "exhausted"
  THEN /\ auto /\ pointer = p.from /\ Exhausted(p.from)
       /\ q[p.to].cooling = 0 /\ q[p.to].class = "ok"
  ELSE expiringStillDue(p)

(* A switch for an expiring quota, and any that needs a CLI to be idle, waits. *)
WaitsForIdle(p) == busy /\ (p.why = "expiring" \/ tool # "claude")

TryApply(x) ==
  LET c(f) == [Call(f) EXCEPT !.id = pending.to, !.from = pending.from, !.why = pending.why] IN
  /\ At(x, "apply") /\ Free
  /\ IF pending = NoPending THEN Leave(x)
     ELSE IF ~StillWanted(pending) THEN cancelSwitch(x)
     ELSE IF WaitsForIdle(pending) THEN Leave(x)
     ELSE /\ Returns(x, (IF pending.why = "expiring" \/ knownExhausted(pending.from) THEN <<>>
                         ELSE <<Automatic(pending.from), c("source")>>)
                        \o <<Automatic(pending.to), c("target")>> \o Later(x), TRUE)
          /\ UNCHANGED pending
  /\ UNCHANGED <<Still, q, Live>>

(* The account the switch leaves was asked again. *)
Source(x) ==
  /\ At(x, "source")
  /\ IF act[x].class = "exhausted" THEN Done(x) /\ UNCHANGED pending
     ELSE Returns(x, Tail(Tail(Later(x))), FALSE) /\ pending' = NoPending
  /\ UNCHANGED <<Still, q, Live>>

(* Both are judged again: the request may have crossed a reset, and the
   configuration may have changed. *)
Decided(c) ==
  IF c.why = "exhausted"
  THEN auto /\ knownExhausted(c.from) /\ cachedAutomaticQuota(c.id) /\ q[c.id].class = "ok"
  ELSE expiringStillDue([from |-> c.from, to |-> c.id])

Target(x) ==
  LET c == Top(x) IN
  /\ At(x, "target")
  /\ IF ~(act[x].class = "ok" /\ Decided(c)) THEN cancelSwitch(x) /\ UNCHANGED Live
     ELSE IF busy /\ tool = "claude" THEN Leave(x) /\ UNCHANGED Live
     ELSE /\ pointer' = c.id /\ applied' = 0
          /\ cancelSwitch(x)
  /\ UNCHANGED <<Still, q>>

-----------------------------------------------------------------------------
(* The worker's tickers, the web server and the world *)

EveryAccount == [Call("keepalive") EXCEPT !.ids = Ids]
ForClaude(f) == IF tool = "claude" THEN <<Call(f)>> ELSE <<>>

Plan(t) ==
  CASE t = "local" -> <<Call("local")>>
    [] t = "http"  -> <<EveryAccount, Call("current"), Call("parked")>> \o ForClaude("expiring")
    [] t = "apply" -> ForClaude("limit") \o <<Call("reset"), Call("apply")>>

runToolWorker(t) ==
  /\ act["worker"].plan = <<>> /\ t \in due
  /\ due' = due \ {t}
  /\ act' = [act EXCEPT !["worker"].plan = Plan(t)]
  /\ UNCHANGED <<world, truth, q, expires, Live, pending, auto, busy, hit, event, late, deadline,
                 hidden, uses, failures, manual>>

Manual(event_) ==
  /\ event_ \in world /\ manual = 0 /\ act["web"].plan = <<>> /\ manual' = 1
  /\ UNCHANGED <<world, truth, q, expires, auto, busy, hit, event, due, late, deadline, hidden,
                 uses, failures>>

(* postRefresh, for every account or for one. *)
Refresh ==
  /\ Manual("refresh")
  /\ act' = [act EXCEPT !["web"].plan =
       <<EveryAccount>> \o (IF "log" \in world THEN <<Call("local")>> ELSE <<>>)
         \o <<Call("current!"), Call("parked!")>>]
  /\ UNCHANGED <<Live, pending>>

RefreshOne(a) ==
  /\ Manual("probe")
  /\ act' = [act EXCEPT !["web"].plan = <<Ask(a, FALSE)>>]
  /\ UNCHANGED <<Live, pending>>

(* postSwitch: any account, whatever its quota; a queued switch is dropped. *)
Switch(a) ==
  /\ Manual("switch") /\ Free /\ a # pointer
  /\ pointer' = a /\ applied' = 0 /\ pending' = NoPending
  /\ UNCHANGED act

World == <<world, q, expires, Live, pending, act, due, late, deadline, hidden, failures, manual>>

(* The live account is used up, until a reset or for an unknown time. *)
Use(win) ==
  /\ "unused" \notin world
  /\ uses < (IF "again" \in world THEN 2 ELSE 1) /\ truth[pointer].class = "ok" /\ uses' = uses + 1
  /\ truth' = [truth EXCEPT ![pointer] = [class |-> "exhausted", win |-> win, age |-> 0]]
  /\ hit' = (tool = "claude")
  /\ event' = IF tool = "codex" /\ "log" \in world THEN [age |-> 0, win |-> win] ELSE event
  /\ UNCHANGED <<World, auto, busy>>

(* ChatGPT windows may reset before the advertised time. *)
EarlyReset(a) ==
  /\ "early" \in world /\ tool = "codex" /\ truth[a].class = "exhausted"
  /\ truth' = [truth EXCEPT ![a] = [class |-> "ok", win |-> 0, age |-> 0]]
  /\ UNCHANGED <<World, auto, busy, hit, event, uses>>

Settle == busy /\ busy' = FALSE /\ UNCHANGED <<World, truth, auto, hit, event, uses>>
Reload ==
  /\ "off" \in world /\ auto /\ auto' = FALSE
  /\ UNCHANGED <<World, truth, busy, hit, event, uses>>

Older(age) == Min({age + 1, Cap})
Nearer(time) == Max({time - 1, 0})

Aged(r) ==
  LET http == Older(r.http) IN
  [ r EXCEPT !.http = http, !.probed = Older(@), !.refresh = Nearer(@), !.cooling = Nearer(@),
             !.rel = Max({@ - 1, IF @ > -r.http THEN 1 - http ELSE -Cap}),
             !.last.age = Older(@), !.conf.age = Older(@) ]

(* The clock moves when the worker ran what was due, or once in a request. *)
Tick ==
  /\ \/ due = {} /\ act["worker"].plan = <<>> /\ UNCHANGED late
     \/ ~late /\ (\E x \in Actors : At(x, "wait")) /\ late' = TRUE
  /\ truth' = [a \in Ids |->
       IF truth[a].win = 1 THEN [class |-> "ok", win |-> 0, age |-> 0]
       ELSE [truth[a] EXCEPT !.win = Nearer(@), !.age = Older(@)]]
  /\ q' = [a \in Ids |-> Aged(q[a])]
  /\ applied' = Older(applied)
  /\ pending' = IF pending = NoPending THEN pending ELSE [pending EXCEPT !.age = Older(@)]
  /\ event' = [event EXCEPT !.age = Older(@)]
  /\ due' = Tickers
  /\ deadline' = [a \in Ids |-> Nearer(deadline[a])] /\ hidden' = {a \in hidden : deadline[a] > 1}
  /\ UNCHANGED <<world, expires, pointer, auto, busy, hit, act, uses, failures, manual>>

Step(x) ==
  \/ KeepAlive(x) \/ Renew(x) \/ Probe(x) \/ ProbeAuto(x) \/ Confirm(x) \/ Answer(x)
  \/ ProbeLocal(x) \/ ProbeHTTP(x) \/ Judge(x) \/ ProbeLimitHit(x)
  \/ ProbeRecovered(x) \/ Recovered(x) \/ ProbeReset(x)
  \/ pickNext(x) \/ candidateRank(x) \/ Queue(x) \/ considerExpiring(x) \/ SetPending(x)
  \/ TryApply(x) \/ Source(x) \/ Target(x)

Work == (\E x \in Actors : Step(x)) \/ \E t \in due : runToolWorker(t)

Next ==
  \/ Work
  \/ Refresh \/ \E a \in Ids : RefreshOne(a) \/ Switch(a)
  \/ \E win \in {0, Window} : Use(win)
  \/ \E a \in Ids : EarlyReset(a)
  \/ Settle \/ Reload \/ Tick

Spec == Init /\ [][Next]_vars

(* Requests time out, the worker's loop goes on, sessions become idle.  The
   web server takes finitely many steps, so the worker is not kept waiting. *)
FairSpec == Spec /\ WF_vars(Work) /\ WF_vars(Settle) /\ WF_vars(Tick)

-----------------------------------------------------------------------------
(* Properties *)

(* An automatic switch for a used-up account leaves one that was used up, and
   moves to one that had quota, no longer ago than an observation is trusted,
   whatever the records say; the last request to the target did not fail.  (A
   switch for an expiring quota does not look at the time again once the target
   was judged, so the clock may have moved once.  A line of a client's log is
   stored as new when it is read, however long the worker waited before: where
   one is read, the source may have been reset since.) *)
Recently(a, class, bound) == truth[a].class = class \/ truth[a].age < bound
Trusted == IF tool = "codex" THEN Max({CodexRecover, IntervalMin}) ELSE IntervalMin
Evidence ==
  [][\A x \in Actors :
       (At(x, "target") /\ pointer' # pointer) =>
         /\ Top(x).why = "exhausted" =>
              /\ "log" \notin world => Recently(pointer, "exhausted", Trusted)
              /\ Recently(pointer', "ok", Interval)
         /\ Recently(pointer', "ok", Interval + 1)
         /\ q[pointer'].last.class = "ok"]_vars

(* A request that fails says nothing of the quota: an exhaustion the last
   successful request confirmed is neither withdrawn nor made. *)
FailureIsNoEvidence ==
  [][\A a \in Ids :
       (q'[a].last.class = "unknown" /\ q'[a].last.age = 0 /\ q[a].class # "expired"
          /\ q'[a].last # q[a].last /\ q'[a].probed = 0 /\ act' # act)
         => (knownExhausted(a) <=> knownExhausted(a)')]_vars

(* The budget of one parked account per round reaches every one of them, also
   when the sign-in of one cannot be renewed for good. *)
NoStarvation == []<>(\A a \in Ids : Attempt(a) < Cap)

(* A live account that is used up is left, or its quota comes back, if there
   is an account with quota. *)
Stuck ==
  /\ auto /\ truth[pointer].class = "exhausted"
  /\ \E b \in Ids \ {pointer} : truth[b].class = "ok" /\ ~Broken(b)
Rotates == []<>~Stuck

(* No request is made before the deadline of a throttling provider, neither by
   a schedule nor on demand, whoever else asks in between (probeAccountLocked,
   serverThrottled), as long as nothing else covers up that answer: a line of
   the account's client's log, or a renewal of its sign-in. *)
Requested(x) == At(x, "wait")' /\ ~At(x, "wait")
DeadlineKept ==
  [][\A x \in Actors : Requested(x) => deadline[Top(x)'.id] = 0 \/ Top(x)'.id \in hidden]_vars
=============================================================================
