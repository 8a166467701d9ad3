--------------------------------- MODULE Answers ---------------------------------
(***************************************************************************)
(* What qswitch makes of a provider's answer about the quota of an         *)
(* account, and what it reads back from the answers it has logged.         *)
(*                                                                         *)
(* Three pure computations, each on one input: the verdict on an answer    *)
(* (a parser per tool, over the document it understands), the time until   *)
(* the next request (from the samples in quota_log), and the pruning of    *)
(* quota_log.  A document is the windows it reports and a set of flags for *)
(* everything else the parser looks at; use is counted in tenths of a      *)
(* percent, and 0 is a reset time that is not known.                       *)
(***************************************************************************)
EXTENDS Integers, Sequences, FiniteSets, FiniteSetsExt

CONSTANTS
  Documents,        \* the answers
  SampleSeqs,       \* the logged samples of an account, oldest first
  Logs,             \* the rows of an account in quota_log, in the order of rowid
  IntervalMin, IntervalMax, ETAChecks,   \* in seconds; ETAChecks has no unit
  KeepRecent        \* quotaKeepRecent

Tools == {"codex", "grok", "cursor", "devin", "kimi", "zcode", "claude"}
Statuses == {"ok", "denied", "payment", "busy", "failed"}  \* 200, 401 or 403, 402, 429 or 503
Classes == {"ok", "soft", "exhausted", "unknown", "expired"}
Flags ==
  { "error", "text", "capacity",                       \* what the body says in words
    "reached", "type", "other",                        \* Codex: rate_limit, its type, another limit
    "unified", "period", "prepaid", "ondemand", "cents", \* Grok
    "allowance", "hit", "limit", "capped", "gone",     \* Cursor
    "hide_daily", "hide_weekly", "other_billing", "no_strategy",  \* Devin
    "booster", "wallet",                               \* Kimi
    "envelope", "duplicate" }                          \* ZCode

(* A window that is there, one that is not, and one that is malformed. *)
Missing == [kind |-> "missing", used |-> 0, reset |-> 0]
Bad == [kind |-> "bad", used |-> 0, reset |-> 0]

(* Every window a parser looks for is there, missing or malformed; the reset
   of "end" is that of the answer as a whole. *)
Named(d) ==
  /\ d.tool \in Tools /\ d.status \in Statuses /\ d.flags \subseteq Flags
  /\ d.tool = "codex" => {"primary", "secondary", "end"} \subseteq DOMAIN d.win
  /\ d.tool = "grok" => {"credits", "legacy", "end"} \subseteq DOMAIN d.win
  /\ d.tool = "cursor" => {"auto", "api", "total", "end"} \subseteq DOMAIN d.win
  /\ d.tool = "devin" => {"daily", "weekly"} \subseteq DOMAIN d.win
  /\ d.tool = "kimi" => {"5h", "monthly", "listed", "web"} \subseteq DOMAIN d.win
  /\ d.tool \in {"zcode", "claude"} => {"5h", "weekly"} \subseteq DOMAIN d.win

(* What the window w of d says. *)
Kind(d, w) == d.win[w].kind
Used(d, w) == d.win[w].used
Reset(d, w) == d.win[w].reset

Typed(d) ==
  \A w \in DOMAIN d.win :
    /\ Kind(d, w) \in {"window", "missing", "bad"}
    /\ Used(d, w) \in 0..1000 /\ Reset(d, w) \in Nat
    /\ Kind(d, w) # "window" => Used(d, w) = 0
    /\ w = "end" => Kind(d, w) = "missing"

ASSUME DocumentsAssumption == \A d \in Documents : Named(d) /\ Typed(d)

ASSUME AnswersAssumption ==
  /\ IntervalMin \in Nat \ {0} /\ IntervalMax \in Nat /\ IntervalMin <= IntervalMax
  /\ ETAChecks \in Nat \ {0} /\ KeepRecent \in Nat \ {0}

ASSUME SamplesAssumption ==
  \A s \in SampleSeqs : s \in Seq([t : Int, used : Int, class : Classes])

ASSUME LogsAssumption ==
  \A l \in Logs :
    /\ l.of = "log" /\ DOMAIN l.rows \subseteq Int /\ IsFiniteSet(DOMAIN l.rows)
    /\ \A i \in DOMAIN l.rows : l.rows[i].ts \in Int

VARIABLES input, result
vars == <<input, result>>

NoResult == [kind |-> "none"]

Full == 995       \* 99.5 %
Verdict(class, used, reset) == [class |-> class, used |-> used, reset |-> reset]
Unknown == Verdict("unknown", 0, 0)

(* Every result has its type. *)
TypeOK ==
  /\ result.kind \in {"none", "verdict", "interval", "rows"}
  /\ result.kind = "verdict" =>
       /\ result.class \in Classes /\ result.used \in 0..1000 /\ result.reset \in Nat
       /\ result.throttled \in BOOLEAN
  /\ result.kind = "interval" => result.seconds \in IntervalMin..IntervalMax
  /\ result.kind = "rows" => result.rows \subseteq DOMAIN input.rows

-----------------------------------------------------------------------------
(* Windows *)

Has(d, w) == w \in DOMAIN d.win /\ Kind(d, w) = "window"
Is(d, flag) == flag \in d.flags

(* The windows ids of d that are there. *)
There(d, ids) == {w \in ids : Has(d, w)}
MaxUsed(d, ids) == Max({Used(d, w) : w \in ids})
Hottest(d, ids) == {w \in ids : Used(d, w) = MaxUsed(d, ids)}

Level(used, limit) ==
  IF used >= limit THEN "exhausted" ELSE IF used >= 900 THEN "soft" ELSE "ok"

(* Every one of the windows must reset; one whose reset is unknown hides the
   others. *)
LastReset(d, ids) ==
  IF \E w \in ids : Reset(d, w) = 0 THEN 0 ELSE Max({Reset(d, w) : w \in ids})
FirstReset(d, ids) ==
  LET known == {Reset(d, w) : w \in ids} \ {0} IN IF known = {} THEN 0 ELSE Min(known)

-----------------------------------------------------------------------------
(* The parsers *)

(* The generic search of the document, for the shapes no parser knows. *)
classifyValue(known, reached, pct, pctKnown, gone, allowance, hit, reset) ==
  LET full == reached \/ (pctKnown /\ pct >= Full) \/ gone IN
  IF ~known THEN Unknown
  ELSE IF full
  THEN Verdict(IF allowance THEN "soft" ELSE "exhausted", IF pctKnown THEN pct ELSE 1000, reset)
  ELSE IF hit THEN Verdict("exhausted", 1000, reset)
  ELSE Verdict(IF pctKnown THEN Level(pct, Full) ELSE "ok", pct, reset)

(* Mutated form: only the first window is compared with the limit. *)
classifyCodex_first(d) ==
  LET ws == There(d, {"primary", "secondary"}) IN
  IF ws = {"primary", "secondary"}
  THEN Verdict(IF Is(d, "reached") THEN "exhausted" ELSE Level(Used(d, "primary"), Full),
               MaxUsed(d, ws), Reset(d, "primary"))
  ELSE Unknown

(* classifyCodexWindows with both windows; with one, the generic search, which
   also finds the limits of other features. *)
classifyCodex(d) ==
  LET ws == There(d, {"primary", "secondary"})
      reached == d.flags \cap {"reached", "type", "other"} # {}
  IN
  IF ws = {"primary", "secondary"}
  THEN Verdict(IF Is(d, "reached") THEN "exhausted" ELSE Level(MaxUsed(d, ws), Full),
               MaxUsed(d, ws),
               IF \/ Used(d, "secondary") >= Used(d, "primary") /\ Reset(d, "secondary") > 0
                  \/ Reset(d, "primary") = 0
               THEN Reset(d, "secondary") ELSE Reset(d, "primary"))
  ELSE classifyValue(reached \/ ws # {}, reached, MaxUsed(d, ws \cup {"end"}), ws # {}, FALSE,
                     FALSE, FALSE, FirstReset(d, ws))

(* The subscription pool; a prepaid or on-demand balance still permits use. *)
classifyGrokBilling(d) ==
  LET pct == IF Kind(d, "credits") # "missing" THEN "credits" ELSE "legacy"
      used == IF Kind(d, pct) = "window" THEN Used(d, pct) ELSE 0
      class == Level(used, 1000)
  IN
  IF \/ d.flags \cap {"error", "cents"} # {} \/ Kind(d, pct) = "bad"
     \/ Kind(d, pct) = "missing" /\ ~(Is(d, "unified") /\ Is(d, "period"))
  THEN Unknown
  ELSE Verdict(IF class = "exhausted" /\ d.flags \cap {"prepaid", "ondemand"} # {} THEN "soft"
               ELSE class, used, Reset(d, "end"))

(* Both pools, Auto and API, must be used up; `total` stands in for a missing
   one. *)
classifyCursorPeriod(d) ==
  LET ws == There(d, {"auto", "api"})
      used == IF ws = {"auto", "api"} \/ ~Has(d, "total") THEN MaxUsed(d, ws) ELSE Used(d, "total")
      full == IF ws = {"auto", "api"} THEN \A w \in ws : Used(d, w) >= Full ELSE used >= Full
      soft == used >= 900 \/ \E w \in ws : Used(d, w) >= 900
  IN
  IF There(d, {"auto", "api", "total"}) = {}
  THEN classifyValue(Is(d, "limit") , FALSE, 0, FALSE, Is(d, "gone") /\ Is(d, "capped"),
                     Is(d, "allowance"), Is(d, "gone") /\ Is(d, "hit"), Reset(d, "end"))
  ELSE Verdict(IF full THEN IF Is(d, "allowance") THEN "soft" ELSE "exhausted"
               ELSE IF soft THEN "soft" ELSE "ok", used, Reset(d, "end"))

(* An omitted percentage is zero remaining; a malformed one is no verdict. *)
ParseDevinStatus(d) ==
  LET shown == {"daily", "weekly"} \ ((IF Is(d, "hide_daily") THEN {"daily"} ELSE {})
                                        \cup (IF Is(d, "hide_weekly") THEN {"weekly"} ELSE {}))
      use(w) == IF Kind(d, w) = "missing" THEN 1000 ELSE Used(d, w)
      used == Max({use(w) : w \in shown})
  IN
  IF \/ Is(d, "other_billing") \/ shown = {} \/ \E w \in shown : Kind(d, w) = "bad"
     \/ Is(d, "no_strategy") /\ \A w \in {"daily", "weekly"} : Kind(d, w) = "missing"
  THEN Unknown
  ELSE Verdict(Level(used, Full), used,
               LastReset(d, IF used >= Full THEN {w \in shown : use(w) >= Full}
                            ELSE {w \in shown : use(w) = used}))

(* Mutated form: the reset of the hottest window. *)
ParseKimiUsage_hottest(d, ws) ==
  LET used == MaxUsed(d, ws) IN
  IF ws = {} THEN Unknown
  ELSE Verdict(IF used >= 1000 /\ Is(d, "booster") THEN "unknown" ELSE Level(used, 1000), used,
               Reset(d, CHOOSE w \in Hottest(d, ws) : TRUE))

(* The windows of `usages`, and a monthly one from `limits`; an account that
   may still have extra credit is not called exhausted. *)
ParseKimiUsage(d, ws) ==
  LET used == MaxUsed(d, ws) IN
  IF ws = {} THEN Unknown
  ELSE Verdict(IF used >= 1000 /\ Is(d, "booster") THEN "unknown" ELSE Level(used, 1000), used,
               IF used >= 1000 THEN LastReset(d, Hottest(d, ws))
               ELSE Reset(d, IF "5h" \in Hottest(d, ws) THEN "5h" ELSE CHOOSE w \in Hottest(d, ws) : TRUE))

KimiWindows(d) ==
  There(d, {"5h", "monthly"}) \cup (IF Has(d, "monthly") THEN {} ELSE There(d, {"listed"}))

(* The monthly quota of the web session is folded in where /usages has none. *)
MergeKimiWebStats(r, d) ==
  LET class == IF Level(Used(d, "web"), Full) = "exhausted" /\ Is(d, "wallet") THEN "soft"
               ELSE Level(Used(d, "web"), Full)
      more == Used(d, "web") > r.used
  IN Verdict( CASE r.class = "ok" -> class
                [] r.class = "soft" /\ class = "exhausted" -> class
                [] OTHER -> r.class,
              IF more THEN Used(d, "web") ELSE r.used,
              IF more THEN Reset(d, "web") ELSE r.reset )

classifyKimi(d) ==
  LET bad == \E w \in {"5h", "monthly"} : Kind(d, w) = "bad"
      ws == IF bad \/ Is(d, "error") \/ d.status # "ok" THEN {} ELSE KimiWindows(d)
      r == IF d.status = "denied" THEN Verdict("expired", 0, 0) ELSE ParseKimiUsage(d, ws)
  IN IF Has(d, "web") /\ ws \cap {"monthly", "listed"} = {} THEN MergeKimiWebStats(r, d) ELSE r

(* The model windows decide, the monthly MCP limit does not. *)
ClassifyZCode(d) ==
  LET ws == There(d, {"5h", "weekly"}) IN
  IF \/ d.flags \cap {"envelope", "duplicate"} # {} \/ ws = {}
     \/ \E w \in {"5h", "weekly"} : Kind(d, w) = "bad"
  THEN Unknown
  ELSE Verdict(Level(MaxUsed(d, ws), 1000), MaxUsed(d, ws),
               IF MaxUsed(d, ws) >= 1000 THEN LastReset(d, Hottest(d, ws))
               ELSE Max({Reset(d, w) : w \in Hottest(d, ws)}))

(* The 5-hour and the weekly window decide, and of those that are used up the
   one that recovers soonest is reported. *)
ParseClaudeUsage(d) ==
  LET ws == There(d, {"5h", "weekly"}) IN
  IF ws = {} \/ Is(d, "error") THEN Unknown
  ELSE Verdict(Level(MaxUsed(d, ws), 1000), MaxUsed(d, ws),
               IF MaxUsed(d, ws) >= 1000 THEN FirstReset(d, Hottest(d, ws))
               ELSE Reset(d, IF "5h" \in Hottest(d, ws) THEN "5h" ELSE "weekly"))

(* What the body says in words: only that the plan is used up counts, and only
   if it is not about capacity. *)
SaysUsedUp(d) ==
  CASE d.tool = "codex" -> Is(d, "text")
    [] d.tool = "cursor" -> Is(d, "text") /\ ~Is(d, "capacity")
    [] d.tool = "grok" -> Is(d, "text") /\ d.status # "ok"
    [] OTHER -> FALSE

ByTool(d) ==
  CASE d.tool = "codex" -> classifyCodex(d)
    [] d.tool = "grok" -> classifyGrokBilling(d)
    [] d.tool = "cursor" -> classifyCursorPeriod(d)
    [] d.tool = "devin" -> ParseDevinStatus(d)
    [] d.tool = "zcode" -> ClassifyZCode(d)
    [] d.tool = "claude" -> ParseClaudeUsage(d)

(* Mutated form: what a body says of capacity counts as well. *)
Classify_words(d) ==
  LET r == IF d.status = "ok" THEN ByTool(d) ELSE Unknown IN
  IF d.tool = "kimi" THEN classifyKimi(d)
  ELSE IF d.status = "denied" THEN Verdict("expired", 0, 0)
  ELSE IF r.class = "unknown" /\ d.flags \cap {"text", "capacity"} # {}
  THEN Verdict("exhausted", 1000, 0)
  ELSE r

Classify(d) ==
  LET r == IF d.status = "ok" /\ ~Is(d, "capacity") THEN ByTool(d) ELSE Unknown IN
  IF d.tool = "kimi" THEN classifyKimi(d)
  ELSE IF d.status = "denied" THEN Verdict("expired", 0, 0)
  ELSE IF r.class = "unknown" /\ SaysUsedUp(d)
  THEN Verdict("exhausted", 1000, Reset(d, "end"))
  ELSE r

MarkThrottled(d, r) == r.class = "unknown" /\ d.status = "busy"

-----------------------------------------------------------------------------
(* The time until the next request *)

(* Mutated form: the estimate is used as it is. *)
Clamp_open(seconds) == seconds

(* An estimate is kept between the two limits of the configuration. *)
Clamp(seconds) == Max({IntervalMin, Min({IntervalMax, seconds})})

(* The samples with a verdict, and with a use that makes sense. *)
Useful(s) == s.class \notin {"unknown", "expired"} /\ s.used \in 0..1000

usable(samples) ==
  LET out[n \in 0..Len(samples)] ==
        IF n = 0 THEN <<>>
        ELSE IF Useful(samples[n]) THEN Append(out[n - 1], samples[n]) ELSE out[n - 1]
  IN out[Len(samples)]

(* Mutated form: use is measured from the first sample. *)
SinceDrop_all(pts) == pts

(* The samples since use last dropped by more than four percent: the window
   was reset. *)
SinceDrop(pts) ==
  LET drops == {i \in 2..Len(pts) : pts[i].used + 40 < pts[i - 1].used}
  IN  SubSeq(pts, Max(drops \cup {1}), Len(pts))

Remaining(s) == 1000 - s.used

(* Without a measured rate the remaining quota decides. *)
noBurnInterval(remaining) == IntervalMin + (remaining * (IntervalMax - IntervalMin)) \div 1000

(* The last samples of the current window: how long they span, and how much
   was used meanwhile. *)
Span(pts) == pts[Len(pts)].t - pts[1].t
Burnt(pts) == pts[Len(pts)].used - pts[1].used

Interval(samples) ==
  LET pts == usable(samples)
      window == SinceDrop(pts)
      last == pts[Len(pts)]
  IN
  IF pts = <<>> THEN IntervalMax
  ELSE IF Len(window) < 2 \/ Span(window) < 60 THEN noBurnInterval(Remaining(last))
  ELSE IF Burnt(window) <= 0 THEN IntervalMax
  ELSE Clamp((Remaining(last) * Span(window)) \div (Burnt(window) * ETAChecks))

-----------------------------------------------------------------------------
(* quota_log: a row is known by its rowid *)

Newer(rows, i, j) == rows[i].ts > rows[j].ts \/ (rows[i].ts = rows[j].ts /\ i > j)

(* The n newest rows of `ids`, ORDER BY ts DESC, rowid DESC. *)
Newest(rows, ids, n) ==
  {i \in ids : Cardinality({j \in ids : Newer(rows, j, i)}) < n}

ConfirmedRows(rows, ids) == {i \in ids : rows[i].class \in {"ok", "soft", "exhausted"}}

(* RecentQuota, LatestQuota and LatestConfirmedQuota *)
Reads(rows, ids) ==
  << Newest(rows, ids, KeepRecent), Newest(rows, ids, 1), Newest(rows, ConfirmedRows(rows, ids), 1) >>

(* Mutated form: only the newest rows are kept. *)
PruneQuotaLog_recent(log) ==
  LET ids == DOMAIN log.rows IN
  {i \in ids : log.rows[i].ts >= log.before \/ (log.account /\ i \in Newest(log.rows, ids, KeepRecent))}

PruneQuotaLog(log) ==
  LET ids == DOMAIN log.rows IN
  {i \in ids :
     \/ log.rows[i].ts >= log.before
     \/ log.account /\ i \in Newest(log.rows, ids, KeepRecent)
     \/ log.account /\ i \in Newest(log.rows, ConfirmedRows(log.rows, ids), 1)}

-----------------------------------------------------------------------------
Init ==
  /\ input \in [of : {"answer"}, doc : Documents] \cup [of : {"samples"}, samples : SampleSeqs]
                 \cup Logs
  /\ result = NoResult

(* probeAccountLocked gets an answer. *)
Probe ==
  /\ result = NoResult /\ input.of = "answer"
  /\ LET r == Classify(input.doc) IN
     result' = [ kind |-> "verdict", class |-> r.class, used |-> r.used, reset |-> r.reset,
                 throttled |-> MarkThrottled(input.doc, r) ]
  /\ UNCHANGED input

quotaInterval ==
  /\ result = NoResult /\ input.of = "samples"
  /\ result' = [kind |-> "interval", seconds |-> Interval(input.samples)]
  /\ UNCHANGED input

Prune ==
  /\ result = NoResult /\ input.of = "log"
  /\ result' = [kind |-> "rows", rows |-> PruneQuotaLog(input)]
  /\ UNCHANGED input

Next == Probe \/ quotaInterval \/ Prune
Spec == Init /\ [][Next]_vars

-----------------------------------------------------------------------------
(* Properties *)

(* The windows that bind an account: one of them used up stops it, but Cursor's
   two pools stand in for each other, and the total for a pool it does not name. *)
Binding(d) ==
  There(d, CASE d.tool = "codex" -> {"primary", "secondary"}
             [] d.tool = "grok" -> IF Kind(d, "credits") = "missing" THEN {"legacy"} ELSE {"credits"}
             [] d.tool = "cursor" ->
                  IF Has(d, "total") /\ There(d, {"auto", "api"}) # {"auto", "api"} THEN {"total"}
                  ELSE {"auto", "api"}
             [] d.tool = "devin" -> {w \in {"daily", "weekly"} :
                                       ~Is(d, IF w = "daily" THEN "hide_daily" ELSE "hide_weekly")}
             [] d.tool = "kimi" ->
                  IF Has(d, "monthly") THEN {"5h", "monthly"}
                  ELSE IF Has(d, "listed") THEN {"5h", "listed"} ELSE {"5h", "web"}
             [] OTHER -> {"5h", "weekly"})

(* The answer shows an allowance that stands in for window w.  Kimi's web
   session knows whether extra use is switched on, /usages does not. *)
Allowance(d, w) ==
  CASE d.tool = "grok" -> d.flags \cap {"prepaid", "ondemand"} # {}
    [] d.tool = "cursor" -> Is(d, "allowance")
    [] d.tool = "kimi" -> Is(d, IF w = "web" THEN "wallet" ELSE "booster")
    [] OTHER -> FALSE

(* The windows that stop the account at this limit. *)
Stops(d, limit) ==
  LET full == {w \in Binding(d) : Used(d, w) >= limit /\ ~Allowance(d, w)} IN
  IF d.tool = "cursor" /\ full # Binding(d) THEN {} ELSE full

(* The provider says itself that the account is used up. *)
Says(d) ==
  \/ SaysUsedUp(d) \/ d.flags \cap {"reached", "type", "other"} # {}
  \/ d.tool = "cursor" /\ d.flags \cap {"gone", "hit"} # {} /\ Binding(d) = {}
  \/ d.tool = "devin" /\ \E w \in {"daily", "weekly"} : Kind(d, w) = "missing"

(* No account is called exhausted, and left, unless its answer shows that it
   is used up: a failed request, a busy server or a malformed document never
   do, nor a full window next to an allowance. *)
NeverTooEarly ==
  result.kind = "verdict" /\ result.class = "exhausted" =>
    LET d == input.doc IN Says(d) \/ (d.status = "ok" /\ Stops(d, Full) # {})

(* No account whose answer shows that it is used up is called usable, and
   switched to. *)
NeverMissed ==
  result.kind = "verdict" /\ result.class \in {"ok", "soft"} => Stops(input.doc, 1000) = {}

(* "Every exhausted window must reset before included usage is available"
   (Devin, Kimi, ZCode): the reset reported is not before that of any window
   that is used up, and is reported as unknown if one of those is.  (Left out:
   the monthly window of Kimi's web session.) *)
ResetWaits ==
  ( /\ result.kind = "verdict" /\ result.class = "exhausted"
    /\ input.doc.tool \in {"devin", "kimi", "zcode"} ) =>
    \A w \in Binding(input.doc) \ {"web"} :
      Used(input.doc, w) >= 1000 /\ result.reset # 0
        => Reset(input.doc, w) \in 1..result.reset

(* An account that is being used is asked again before the rest is gone at the
   rate since its window was last reset, unless that is sooner than the
   shortest interval; one that is not being used for the longest. *)
InTime ==
  result.kind = "interval" =>
    LET pts == usable(input.samples)
        last == pts[Len(pts)]
        since == {i \in 1..(Len(pts) - 1) :
                    \A j \in (i + 1)..Len(pts) : pts[j].used + 40 >= pts[j - 1].used}
        first == pts[Min(since)]
    IN since # {} /\ last.t - first.t >= 60 =>
         IF last.used <= first.used THEN result.seconds = IntervalMax
         ELSE \/ result.seconds = IntervalMin
              \/ result.seconds * (last.used - first.used) <= Remaining(last) * (last.t - first.t)

(* Pruning leaves every reader of an account's log what it read before,
   although the account was not asked for longer than the log is kept, and
   the clock was set back. *)
PruneKeepsReads ==
  result.kind = "rows" /\ input.account =>
    Reads(input.rows, result.rows) = Reads(input.rows, DOMAIN input.rows)
=============================================================================
