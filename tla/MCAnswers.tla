------------------------------ MODULE MCAnswers ------------------------------
(* Small documents, sample series and logs for Answers. *)
EXTENDS Answers, TLC

Window == [kind : {"window"}, used : {500, 900, 995, 1000}, reset : 0..2]
Slot == Window \cup {Missing, Bad}
Given == Window \cup {Missing}   \* where a malformed entry is skipped
End == [kind : {"missing"}, used : {0}, reset : {0, 1}]

(* Answers with a document, and answers with words only. *)
Docs(tool, win, flags) ==
  [tool : {tool}, status : {"ok"}, win : win, flags : SUBSET flags]
Errors(tool, win, flags) ==
  [tool : {tool}, status : Statuses \ {"ok"}, win : win, flags : SUBSET flags]

Codex == [primary : Slot, secondary : Slot, end : End]
Grok == [credits : Slot, legacy : Slot, end : End]
Cursor == [auto : Given, api : Given, total : Given, end : End]
Devin == [daily : Slot, weekly : Slot]
Kimi == [{"5h"} -> Slot]
KimiMonthly == [monthly : Slot, listed : Given, web : Given]
ZCode == [{"5h", "weekly"} -> Slot]
Nothing == [w \in {"primary", "secondary", "credits", "legacy", "auto", "api", "total", "daily",
                   "weekly", "5h", "monthly", "listed", "end"} |-> Missing]

NoReset(slots) == {w \in slots : w.reset = 0}

MCDocuments ==
  Docs("codex", Codex, {"reached", "type", "other", "text"})
  \cup Docs("grok", Grok, {"error", "cents", "unified", "period", "prepaid", "ondemand"})
  \cup Docs("cursor", {w \in Cursor : {w.auto, w.api, w.total} \subseteq NoReset(Given)},
            {"text", "capacity", "allowance", "hit", "limit", "capped", "gone"})
  \cup Docs("devin", Devin, {"hide_daily", "hide_weekly", "other_billing", "no_strategy"})
  \cup UNION {Docs("kimi", {f @@ g : f \in {[w \in {"5h"} |-> s]}, g \in KimiMonthly},
                   {"error", "booster", "wallet"}) : s \in Slot}
  \cup Docs("zcode", ZCode, {"envelope", "duplicate"})
  \cup Docs("claude", ZCode, {"error"})
  \cup UNION {Errors(tool, {[Nothing EXCEPT !["end"] = e] @@ [w \in {"web"} |-> v] : e \in End, v \in Given},
                     {"text", "capacity", "wallet"}) : tool \in Tools}

Sample == [t : {0}, used : {0, 500, 960, 1000, 1040}, class : {"ok", "unknown"}]
MCSampleSeqs ==
  {<<>>} \cup {<<s>> : s \in Sample}
  \cup {<<s, [r EXCEPT !.t = d]>> : s \in Sample, r \in Sample, d \in {30, 600, 7200}}
  \cup {<<s, [r EXCEPT !.t = d], [q EXCEPT !.t = d + e]>> :
          s \in Sample, r \in Sample, q \in Sample, d \in {600, 7200}, e \in {30, 600, 7200}}

Row == [ts : 1..3, class : {"ok", "exhausted", "unknown"}]
MCLogs ==
  [of : {"log"}, rows : UNION {[1..n -> Row] : n \in 0..4}, before : {2, 3, 4}, account : BOOLEAN]
=============================================================================
