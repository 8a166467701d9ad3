-------------------------- MODULE ClaudeFencingProofs --------------------------
(***************************************************************************)
(* What the recovery records of ClaudeTokens are for, proved for any       *)
(* accounts, pairs, events and number of faults: no refresh token is       *)
(* presented twice (TokensSpentOnce), a presented pair stays fenced off    *)
(* wherever it could be read again (OldPairsStayFenced), and no step drops *)
(* the last usable pair of an account (LastUsablePairKept).  All three     *)
(* hold as long as nothing undoes the fencing; UndoesFencing names the two *)
(* operations of the code that do.                                         *)
(***************************************************************************)
EXTENDS ClaudeTokensProofs

(* The two operations that undo the fencing (README, section 6): an isolated
   sign-in of an account with a recovery still pending, whose new pair takes
   over the account's records; and a switch to an account whose saved pair is
   fenced off. *)
UndoesFencing ==
  \E a \in Accounts :
    \/ StartEnroll(a) /\ \E r \in recs : r.acct = a
    \/ StartSwitch(a) /\ Consumed(vault[a])

-----------------------------------------------------------------------------
Recovering == op.pc \in {"recover", "writeback", "rewrite", "recovered"}
Rewriting == op.pc \in {"writeback", "rewrite", "recovered"}

Issued == {t \in Token : t.n <= issued[t.acct]}

(* The pairs a record knows. *)
Pairs(r) == {t \in r.old \cup {r.new} : Known(t)}

(* A vault entry and a record are each about one account. *)
OneAccount ==
  /\ \A a \in Accounts : Known(vault[a]) => vault[a].acct = a
  /\ \A r \in recs : \A t, u \in Pairs(r) : t.acct = u.acct
  /\ \A r \in recs : r.acct # None => \A t \in Pairs(r) : t.acct = r.acct

(* A record that still has to replace the live pair says so, and no other
   record knows its successor. *)
LiveRecords ==
  \A r \in recs : live \in r.old =>
    /\ r.path
    /\ Known(r.new) => \A q \in recs : r.new \notin q.old /\ (q.new = r.new => q = r)

(* D holds what a record of D's pairs replaced. *)
Closed(D) == \A q \in recs : q.new \in D => q.old \subseteq D

(* Records do not form a cycle: what a record replaced, directly or through
   other records, is never its successor. *)
NoCycle ==
  \A r \in recs : Known(r.new) =>
    \E E \in SUBSET Token : r.old \subseteq E /\ r.new \notin E /\ Closed(E)

(* The spent pair is in the record of the intent; its successor is nowhere
   else when it is stored. *)
AtExchange ==
  op.pc = "exchange" =>
    /\ op.rec \in recs /\ op.rec.new = NoToken /\ op.tok \in op.rec.old
    /\ op.tok \notin sent
    /\ op.rec.acct \in {None, op.tok.acct}
AtStore ==
  op.pc = "store" =>
    /\ op.rec \in recs /\ op.rec.new = NoToken
    /\ op.rec.acct \in {None, op.tok.acct}
    /\ \A t \in op.rec.old : t.acct = op.tok.acct
    /\ \A r \in recs : op.tok \notin r.old /\ r.new # op.tok

(* A record is deleted when the vault has its successor and the live file has
   none of its old pairs. *)
AtRewriting ==
  /\ Rewriting => /\ op.rec.acct # None => vault[op.rec.acct] = op.rec.new
                  /\ op.next # "capture" => op.rec.new.acct = op.tok.acct
                  /\ op.next = "profile" => op.tok = op.rec.new
  /\ op.pc = "recovered" => live \notin op.rec.old

(* A capture reads a live pair that no record fences off. *)
AtCapture ==
  /\ Recovering /\ op.next = "capture" => \A r \in recs \ op.todo : live \notin r.old
  /\ op.pc = "capture" => ~Consumed(live)
  /\ op.pc = "capture" \/ (Recovering /\ op.next = "capture") =>
       op.tok = NoToken /\ op.id = None
  /\ op.pc \in {"profile", "save"} \/ (Recovering /\ op.next = "profile") => ~Consumed(op.tok)

(* A pair is renewed after the live file has it in place of those it replaced. *)
AtRefresh ==
  /\ Recovering /\ op.next = "refresh" =>
       \A r \in recs \ op.todo : r.new = op.tok => live \notin r.old
  /\ op.pc \in {"refresh", "intent"} /\ op.kind = "keepalive" =>
       \A r \in recs : r.new = op.tok => live \notin r.old
  /\ op.kind = "keepalive" =>
       op.next \in {"idle", "refresh"} /\ op.pc \notin {"capture", "profile", "save", "restore"}
  /\ op.pc = "intent" => op.path = (op.seen = op.tok) /\ (op.kind # "keepalive" => op.path)

(* A capture saves the live pair, unless a login came after it; a sign-in
   has no record to take over. *)
AtSave ==
  op.pc = "save" =>
    /\ op.todo \subseteq recs /\ op.tok.acct = op.id
    /\ \/ \A r \in recs : live \notin r.old /\ (Known(live) /\ live = r.new => live = op.tok)
       \/ \A r \in recs : r.new # op.tok /\ r.acct # op.id

(* The goal of a switch is not fenced off, unless the capture before it is of
   the same account and replaces it. *)
GoalKept == op.pc = "restore" \/ op.goal.acct # op.tok.acct
AtSwitch ==
  /\ op.id # None /\ Known(op.tok) => op.tok.acct = op.id
  /\ GoalKept => ~Consumed(op.goal)
  /\ op.tok = NoToken /\ Known(op.goal) => vault[op.goal.acct] = op.goal
  /\ op.pc = "restore" /\ Known(op.tok) => vault[op.tok.acct] = op.tok

Phases ==
  /\ AtExchange /\ AtStore /\ AtRewriting /\ AtCapture /\ AtRefresh /\ AtSave /\ AtSwitch

(* D is a set of dead pairs: every pair that was sent is dead or fenced off,
   and no dead pair is stored, worked on or restored again. *)
Alive(D) == (Issued \ D) \cup {NoToken}
DeadRecords(D) ==
  /\ D \subseteq Issued /\ Closed(D)
  /\ \A r \in recs : r.old \subseteq Issued /\ r.new \in Issued \cup {NoToken}
Covered(D) == \A t \in sent : t \in D \/ Consumed(t)
StoresAlive(D) == live \in Alive(D) /\ \A a \in Accounts : vault[a] \in Alive(D)
OpAlive(D) ==
  /\ op.tok \in Alive(D)
  /\ Rewriting => op.rec.new \in Alive(D)
  /\ GoalKept => op.goal \in Alive(D)
Dead(D) == DeadRecords(D) /\ Covered(D) /\ StoresAlive(D) /\ OpAlive(D)

Fencing ==
  /\ OneAccount /\ LiveRecords /\ NoCycle /\ Phases
  /\ \E D \in SUBSET Token : Dead(D)

-----------------------------------------------------------------------------
(* The issued pairs only grow, and a pair just issued is a new one. *)

LEMMA IssuedSame == ASSUME issued' = issued PROVE Issued' = Issued
BY DEF Issued

LEMMA IssueGrows ==
  ASSUME TokensInv, NEW a \in Accounts, NEW spent, Issue(a, spent)
  PROVE  Issued \subseteq Issued' /\ Fresh(a) \in Issued' /\ Fresh(a) \notin Issued
<1>1. issued \in [Accounts -> 0..MaxTokens] /\ Fresh(a) \in Token /\ MaxTokens \in Nat
  BY IssueType, TokensAssumption DEF TokensInv, Types, ProviderType
<1>2. /\ issued' = [issued EXCEPT ![a] = @ + 1]
      /\ Fresh(a).acct = a /\ Fresh(a).n = issued[a] + 1
  BY DEF Issue, Fresh
<1>3. Fresh(a) \in Issued' /\ Fresh(a) \notin Issued
  BY <1>1, <1>2 DEF Issued
<1>4. ASSUME NEW t \in Issued PROVE t \in Issued'
  <2>1. t \in Token /\ t.acct \in Accounts /\ t.n \in Nat /\ t.n <= issued[t.acct]
    BY <1>4, <1>1 DEF Issued, Token
  <2>2. issued[t.acct] \in Nat /\ issued'[t.acct] \in {issued[t.acct], issued[t.acct] + 1}
    BY <1>1, <1>2, <2>1
  <2>3. QED BY <2>1, <2>2 DEF Issued
<1>5. QED BY <1>3, <1>4

(* A record that changed leads nowhere, so it closes no cycle. *)
LEMMA NoCycleChange ==
  ASSUME NoCycle, recs' \subseteq Record, NEW m, NEW n,
         recs' = (recs \ {m}) \cup {n}, \A q \in recs' : n.new \notin q.old
  PROVE  NoCycle'
<1> SUFFICES ASSUME NEW r \in recs', Known(r.new)
             PROVE  \E E \in SUBSET Token :
                      /\ r.old \subseteq E /\ r.new \notin E
                      /\ \A q \in recs' : q.new \in E => q.old \subseteq E
  BY DEF NoCycle, Closed
<1>1. \A q \in recs' : q.old \subseteq Token
  BY DEF Record
<1>2. CASE r = n
  <2> WITNESS Token \ {n.new} \in SUBSET Token
  <2>1. QED BY <1>1, <1>2
<1>3. CASE r # n
  <2>1. r \in recs
    BY <1>3
  <2>2. PICK E \in SUBSET Token : r.old \subseteq E /\ r.new \notin E /\ Closed(E)
    BY <2>1 DEF NoCycle
  <2>3. \A q \in recs' : q.new \in E \ {n.new} => q.old \subseteq E \ {n.new}
    BY <2>2 DEF Closed
  <2> WITNESS E \ {n.new} \in SUBSET Token
  <2>4. QED BY <2>2, <2>3
<1>4. QED BY <1>2, <1>3

LEMMA NoCycleFewer == ASSUME NoCycle, recs' \subseteq recs PROVE NoCycle'
BY DEF NoCycle, Closed

-----------------------------------------------------------------------------
(* The end of an operation, and steps that change nothing else. *)

LEMMA ReturnPhases == ASSUME Return PROVE Phases' /\ \A D : OpAlive(D)'
<1>1. /\ op'.pc = "idle" /\ op'.next = "idle" /\ op'.kind = "none" /\ op'.goal = NoToken
      /\ op'.tok = NoToken /\ op'.id = None
  BY DEF Return, Idle
<1>2. Phases'
  BY <1>1 DEF Phases, AtExchange, AtStore, AtRewriting, AtCapture, AtRefresh, AtSave, AtSwitch,
              Recovering, Rewriting, GoalKept, Known
<1>3. \A D : OpAlive(D)'
  BY <1>1 DEF OpAlive, Alive, Rewriting, GoalKept
<1>4. QED BY <1>2, <1>3

LEMMA OpStep ==
  ASSUME Fencing, UNCHANGED <<vault, live, recs, issued, sent>>, Phases',
         \A D \in SUBSET Token : Dead(D) => OpAlive(D)'
  PROVE  Fencing'
<1>1. OneAccount' /\ LiveRecords' /\ NoCycle'
  BY DEF Fencing, OneAccount, LiveRecords, NoCycle, Closed, Pairs
<1>2. PICK D \in SUBSET Token : Dead(D)
  BY DEF Fencing
<1>3. Issued' = Issued
  BY IssuedSame
<1>4. Dead(D)'
  BY <1>2, <1>3 DEF Dead, DeadRecords, Closed, Covered, Consumed, StoresAlive, Alive
<1>5. QED BY <1>1, <1>2, <1>4 DEF Fencing

LEMMA ReturnStep ==
  ASSUME Fencing, UNCHANGED <<vault, live, recs, issued, sent>>, Return
  PROVE  Fencing'
BY ReturnPhases, OpStep

(* A step of the official CLI: the live pair stays, is gone or is a new one. *)
LEMMA CliStep ==
  ASSUME TokensInv, Fencing, op' = op, UNCHANGED <<vault, recs, sent>>, Issued \subseteq Issued',
         live' \in {live, NoToken} \cup (Issued' \ Issued)
  PROVE  Fencing'
<1>1. PICK D \in SUBSET Token : Dead(D)
  BY DEF Fencing
<1>2. \/ live' = live
      \/ \A r \in recs : live' \notin r.old /\ (Known(live') => live' # r.new)
  <2>1. \A r \in recs : r.old \subseteq Issued /\ r.new \in Issued \cup {NoToken}
    BY <1>1 DEF Dead, DeadRecords
  <2>2. NoToken \notin Issued
    BY Constants DEF Issued
  <2>3. QED BY <2>1, <2>2 DEF Known
<1>3. OneAccount' /\ NoCycle'
  BY DEF Fencing, OneAccount, NoCycle, Closed, Pairs
<1>4. LiveRecords'
  BY <1>2 DEF Fencing, LiveRecords
<1>5. Phases'
  <2>1. AtExchange' /\ AtStore' /\ AtSwitch'
    BY DEF Fencing, Phases, AtExchange, AtStore, AtSwitch, GoalKept, Consumed
  <2>2. AtRewriting'
    <3>1. op.pc = "recovered" => op.rec \in recs
      BY DEF TokensInv, Pending
    <3>2. QED BY <1>2, <3>1 DEF Fencing, Phases, AtRewriting, Rewriting
  <2>3. AtCapture'
    BY <1>2 DEF Fencing, Phases, AtCapture, Recovering, Consumed
  <2>4. AtRefresh'
    BY <1>2 DEF Fencing, Phases, AtRefresh, Recovering
  <2>5. AtSave'
    BY <1>2 DEF Fencing, Phases, AtSave
  <2>6. QED BY <2>1, <2>2, <2>3, <2>4, <2>5 DEF Phases
<1>6. Dead(D)'
  <2>1. D \subseteq Issued /\ (live' = live \/ live' = NoToken \/ live' \in Issued' \ D)
    BY <1>1 DEF Dead, DeadRecords
  <2>2. DeadRecords(D)' /\ Covered(D)'
    BY <1>1 DEF Dead, DeadRecords, Closed, Covered, Consumed
  <2>3. StoresAlive(D)'
    BY <1>1, <2>1 DEF Dead, StoresAlive, Alive
  <2>4. OpAlive(D)'
    BY <1>1 DEF Dead, OpAlive, Alive, Rewriting, GoalKept
  <2>5. QED BY <2>2, <2>3, <2>4 DEF Dead
<1>7. QED BY <1>3, <1>4, <1>5, <1>6 DEF Fencing

-----------------------------------------------------------------------------
(* NoToken is in no record. *)
LEMMA NoTokenFree == ASSUME TokensInv PROVE ~Consumed(NoToken) /\ ~Known(NoToken)
<1>1. \A r \in recs : r.old \subseteq Token
  BY DEF TokensInv, Types, StoreType, Record
<1>2. QED BY <1>1, Constants DEF Consumed, Known

(* The operations begin. *)

LEMMA StartKeepAliveStep ==
  ASSUME TokensInv, Fencing, NEW a \in Accounts, StartKeepAlive(a)
  PROVE  Fencing'
<1>1. UNCHANGED <<vault, live, recs, issued, sent>>
  BY DEF StartKeepAlive, Step, Stores
<1>2. /\ op'.pc = "recover" /\ op'.next = "refresh" /\ op'.todo = recs /\ op'.kind = "keepalive"
      /\ op'.tok = vault[a] /\ op'.id = a /\ op'.goal = NoToken
  BY DEF StartKeepAlive, Recover, Idle
<1>3. Known(vault[a]) /\ vault[a].acct = a
  BY DEF StartKeepAlive, Fencing, OneAccount
<1>4. AtSwitch'
  BY <1>1, <1>2, <1>3, NoTokenFree DEF AtSwitch, Known, Consumed
<1>5. Phases'
  BY <1>1, <1>2, <1>4 DEF Phases, AtExchange, AtStore, AtRewriting, AtCapture, AtRefresh, AtSave,
                          Recovering, Rewriting
<1>6. ASSUME NEW D \in SUBSET Token, Dead(D) PROVE OpAlive(D)'
  BY <1>1, <1>2, <1>6, IssuedSame DEF Dead, StoresAlive, OpAlive, Alive, Rewriting
<1>7. QED BY <1>1, <1>5, <1>6, OpStep

LEMMA StartCaptureStep ==
  ASSUME TokensInv, Fencing, StartCapture
  PROVE  Fencing'
<1>1. UNCHANGED <<vault, live, recs, issued, sent>>
  BY DEF StartCapture, Step, Stores
<1>2. /\ op'.pc = "recover" /\ op'.next = "capture" /\ op'.todo = recs /\ op'.kind = "capture"
      /\ op'.tok = NoToken /\ op'.id = None /\ op'.goal = NoToken
  BY DEF StartCapture, Recover, Idle
<1>3. AtSwitch'
  BY <1>1, <1>2, NoTokenFree DEF AtSwitch, Known, Consumed
<1>4. Phases'
  BY <1>1, <1>2, <1>3 DEF Phases, AtExchange, AtStore, AtRewriting, AtCapture, AtRefresh, AtSave,
                          Recovering, Rewriting
<1>5. \A D \in SUBSET Token : OpAlive(D)'
  BY <1>2 DEF OpAlive, Alive, Rewriting
<1>6. QED BY <1>1, <1>4, <1>5, OpStep

LEMMA StartSwitchStep ==
  ASSUME TokensInv, Fencing, ~UndoesFencing, NEW a \in Accounts, StartSwitch(a)
  PROVE  Fencing'
<1>1. UNCHANGED <<vault, live, recs, issued, sent>>
  BY DEF StartSwitch, Stores, Provider
<1>2. /\ op'.pc = "recover" /\ op'.next = "capture" /\ op'.todo = recs /\ op'.kind = "switch"
      /\ op'.tok = NoToken /\ op'.id = None /\ op'.goal = vault[a]
  BY DEF StartSwitch, Recover, Idle
<1>3. Known(vault[a]) /\ vault[a].acct = a /\ ~Consumed(vault[a])
  BY DEF StartSwitch, Fencing, OneAccount, UndoesFencing
<1>4. AtSwitch'
  BY <1>1, <1>2, <1>3 DEF AtSwitch, Known, Consumed
<1>5. Phases'
  BY <1>1, <1>2, <1>4 DEF Phases, AtExchange, AtStore, AtRewriting, AtCapture, AtRefresh, AtSave,
                          Recovering, Rewriting
<1>6. ASSUME NEW D \in SUBSET Token, Dead(D) PROVE OpAlive(D)'
  BY <1>1, <1>2, <1>6, IssuedSame DEF Dead, StoresAlive, OpAlive, Alive, Rewriting
<1>7. QED BY <1>1, <1>5, <1>6, OpStep

LEMMA StartEnrollStep ==
  ASSUME TokensInv, Fencing, ~UndoesFencing, NEW a \in Accounts, StartEnroll(a)
  PROVE  Fencing'
<1>1. UNCHANGED <<vault, live, recs, sent>> /\ Issue(a, NoToken)
  BY DEF StartEnroll, Stores
<1>2. /\ op'.pc = "save" /\ op'.next = "idle" /\ op'.todo = recs /\ op'.kind = "enroll"
      /\ op'.tok = Fresh(a) /\ op'.id = a /\ op'.goal = NoToken
  BY DEF StartEnroll, Idle
<1>3. Issued \subseteq Issued' /\ Fresh(a) \in Issued' /\ Fresh(a) \notin Issued
  BY <1>1, IssueGrows
<1>4. Fresh(a) \in Token /\ Fresh(a) # NoToken /\ Fresh(a).acct = a
  BY <1>3, Constants DEF Issued, Fresh, Token
<1>5. PICK D \in SUBSET Token : Dead(D)
  BY DEF Fencing
<1>6. \A r \in recs : Fresh(a) \notin r.old /\ r.new # Fresh(a) /\ r.acct # a
  BY <1>3, <1>4, <1>5 DEF Dead, DeadRecords, UndoesFencing
<1>7. AtSwitch'
  BY <1>1, <1>2, <1>4, NoTokenFree DEF AtSwitch, Known, Consumed
<1>8. Phases'
  BY <1>1, <1>2, <1>4, <1>6, <1>7
     DEF Phases, AtExchange, AtStore, AtRewriting, AtCapture, AtRefresh, AtSave, Consumed,
         Recovering, Rewriting
<1>9. Dead(D)'
  <2>1. Fresh(a) \notin D
    BY <1>3, <1>5 DEF Dead, DeadRecords
  <2>2. DeadRecords(D)' /\ Covered(D)' /\ StoresAlive(D)'
    BY <1>1, <1>3, <1>5 DEF Dead, DeadRecords, Closed, Covered, Consumed, StoresAlive, Alive
  <2>3. OpAlive(D)'
    BY <1>2, <1>3, <2>1 DEF OpAlive, Alive, Rewriting
  <2>4. QED BY <2>2, <2>3 DEF Dead
<1>10. QED BY <1>1, <1>5, <1>8, <1>9 DEF Fencing, OneAccount, LiveRecords, NoCycle, Closed, Pairs

-----------------------------------------------------------------------------
(* The steps of a recovery *)

LEMMA RecoverSkipStep ==
  ASSUME TokensInv, Fencing, NEW r \in op.todo, RecoverSkip(r)
  PROVE  Fencing'
<1>1. op.pc = "recover" /\ UNCHANGED <<vault, live, recs, issued, sent>>
  BY DEF RecoverSkip, Step, Stores
<1>2. /\ op'.pc = "recover" /\ op'.todo = op.todo \ {r}
      /\ op'.next = op.next /\ op'.kind = op.kind /\ op'.goal = op.goal
      /\ op'.tok = op.tok /\ op'.id = op.id
  BY DEF RecoverSkip, Step, TokensInv, Types, OpType, Operation
<1>3. r \in recs /\ r.old \subseteq Token /\ NoToken \notin Token /\ ~Selects(r)
  BY <1>1, Constants DEF RecoverSkip, TokensInv, Types, StoreType, Pending, Record
<1>4. op.next = "capture" => live \notin r.old
  BY <1>3 DEF Selects, Fencing, LiveRecords, Known
<1>5. op.next = "refresh" => r.new # op.tok
  BY <1>3 DEF Selects, TokensInv, Types, OpType, Known
<1>6. AtCapture'
  BY <1>1, <1>2, <1>4 DEF Fencing, Phases, AtCapture, Recovering, Consumed
<1>7. AtRefresh'
  BY <1>1, <1>2, <1>5 DEF Fencing, Phases, AtRefresh, Recovering
<1>8. AtSwitch'
  BY <1>1, <1>2 DEF Fencing, Phases, AtSwitch, GoalKept, Consumed
<1>9. Phases'
  BY <1>2, <1>6, <1>7, <1>8 DEF Phases, AtExchange, AtStore, AtRewriting, AtSave, Rewriting
<1>10. ASSUME NEW D \in SUBSET Token, Dead(D) PROVE OpAlive(D)'
  BY <1>1, <1>2, <1>10, IssuedSame DEF Dead, OpAlive, Alive, Rewriting, GoalKept
<1>11. QED BY <1>1, <1>9, <1>10, OpStep

(* What is selected is not dead, so neither is the successor. *)
LEMMA RecoverSaveStep ==
  ASSUME TokensInv, Fencing, NEW r \in op.todo, RecoverSave(r)
  PROVE  Fencing'
<1>1. /\ op.pc = "recover" /\ UNCHANGED <<live, recs, issued, sent>>
      /\ vault' = [a \in Accounts |-> IF a = r.acct THEN r.new ELSE vault[a]]
  BY DEF RecoverSave, Step
<1>2. /\ op'.pc = "writeback" /\ op'.rec = r /\ op'.todo = op.todo
      /\ op'.next = op.next /\ op'.kind = op.kind /\ op'.goal = op.goal
      /\ op'.tok = op.tok /\ op'.id = op.id
  BY DEF RecoverSave, TokensInv, Types, OpType, Operation
<1>3. /\ r \in recs /\ r.old \subseteq Token /\ NoToken \notin Token
      /\ r.acct \in Accounts \cup {None} /\ Known(r.new)
      /\ r.acct # None => vault[r.acct] \in r.old \cup {r.new, NoToken}
  BY <1>1, Constants DEF RecoverSave, Recoverable, TokensInv, Types, StoreType, Pending, Record
<1> DEFINE s == IF op.next = "capture" THEN live ELSE op.tok
<1>4. s \in Pairs(r) /\ r.new \in Pairs(r) /\ (s \in r.old \/ s = r.new) /\ Known(s)
  BY <1>3 DEF RecoverSave, Selects, Pairs, Known
<1>5. r.new.acct = s.acct /\ (r.acct # None => r.new.acct = r.acct)
  BY <1>3, <1>4 DEF Fencing, OneAccount
<1>6. OneAccount'
  BY <1>1, <1>3, <1>5, TokensAssumption DEF Fencing, OneAccount, Pairs
<1>7. AtRewriting'
  <2>1. r.acct # None => vault'[r.acct] = r.new
    BY <1>1, <1>3
  <2>2. op.next # "capture" => r.new.acct = op.tok.acct
    BY <1>5
  <2>3. op.next = "profile" => op.tok = r.new
    BY <1>1, <1>3, <1>4 DEF Fencing, Phases, AtCapture, Recovering, Consumed
  <2>4. QED BY <1>2, <2>1, <2>2, <2>3 DEF AtRewriting, Rewriting
<1>8. AtCapture' /\ AtRefresh'
  BY <1>1, <1>2 DEF Fencing, Phases, AtCapture, AtRefresh, Recovering, Consumed
<1>9. AtSwitch'
  <2>1. ASSUME op.tok = NoToken, Known(op.goal) PROVE vault'[op.goal.acct] = op.goal
    <3>1. vault[op.goal.acct] = op.goal /\ op.goal \in Token /\ op.goal.acct \in Accounts
      BY <2>1, Constants DEF Fencing, Phases, AtSwitch, TokensInv, Types, OpType, Operation, Token
    <3>2. op.goal.acct # op.tok.acct
      BY <2>1, <3>1, TokensAssumption DEF NoToken
    <3>3. ~Consumed(op.goal)
      BY <3>2 DEF Fencing, Phases, AtSwitch, GoalKept
    <3>4. op.goal.acct = r.acct => op.goal = r.new
      BY <2>1, <3>1, <3>3, <1>3, TokensAssumption DEF Consumed, Known
    <3>5. QED BY <3>1, <3>4, <1>1
  <2>2. QED BY <1>1, <1>2, <2>1 DEF Fencing, Phases, AtSwitch, GoalKept, Consumed
<1>10. Phases'
  BY <1>2, <1>7, <1>8, <1>9 DEF Phases, AtExchange, AtStore, AtSave
<1>11. PICK D \in SUBSET Token : Dead(D)
  BY DEF Fencing
<1>12. r.new \in Alive(D)
  <2>1. s \in Alive(D) /\ s \notin D /\ r.new \in Issued \cup {NoToken}
    BY <1>3, <1>4, <1>11 DEF Dead, DeadRecords, StoresAlive, OpAlive, Alive, Known
  <2>2. r.new \notin D
    BY <1>3, <1>4, <1>11, <2>1 DEF Dead, DeadRecords, Closed
  <2>3. QED BY <2>1, <2>2 DEF Alive
<1>13. Dead(D)'
  <2>1. DeadRecords(D)' /\ Covered(D)' /\ Issued' = Issued
    BY <1>1, <1>11, IssuedSame DEF Dead, DeadRecords, Closed, Covered, Consumed
  <2>2. StoresAlive(D)'
    BY <1>1, <1>11, <1>12, <2>1 DEF Dead, StoresAlive, Alive
  <2>3. OpAlive(D)'
    BY <1>2, <1>1, <1>11, <1>12, <2>1 DEF Dead, OpAlive, Alive, GoalKept
  <2>4. QED BY <2>1, <2>2, <2>3 DEF Dead
<1>14. QED BY <1>1, <1>6, <1>10, <1>11, <1>13 DEF Fencing, LiveRecords, NoCycle, Closed

LEMMA WritebackStep ==
  ASSUME TokensInv, Fencing, Writeback
  PROVE  Fencing'
<1>1. op.pc = "writeback" /\ op.rec \in recs /\ UNCHANGED <<vault, live, recs, issued, sent>>
  BY DEF Writeback, Step, Stores, TokensInv, Pending
<1>2. CASE op' = Idle
  BY <1>1, <1>2, ReturnStep DEF Return
<1>3. CASE op' # Idle
  <2>1. /\ \/ op'.pc = "rewrite"
           \/ op'.pc = "recovered" /\ ~(op.rec.path /\ live \in op.rec.old)
        /\ op'.todo = op.todo /\ op'.rec = op.rec
        /\ op'.next = op.next /\ op'.kind = op.kind /\ op'.goal = op.goal
        /\ op'.tok = op.tok /\ op'.id = op.id
    BY <1>3 DEF Writeback, Goto, TokensInv, Types, OpType, Operation
  <2>2. op'.pc = "recovered" => live \notin op.rec.old
    BY <1>1, <2>1 DEF Fencing, LiveRecords
  <2>3. AtRewriting'
    BY <1>1, <2>1, <2>2 DEF Fencing, Phases, AtRewriting, Rewriting
  <2>4. AtCapture' /\ AtRefresh'
    BY <1>1, <2>1 DEF Fencing, Phases, AtCapture, AtRefresh, Recovering, Consumed
  <2>5. AtSwitch'
    BY <1>1, <2>1 DEF Fencing, Phases, AtSwitch, GoalKept, Consumed
  <2>6. Phases'
    BY <2>1, <2>3, <2>4, <2>5 DEF Phases, AtExchange, AtStore, AtSave
  <2>7. ASSUME NEW D \in SUBSET Token, Dead(D) PROVE OpAlive(D)'
    BY <1>1, <2>1, <2>7, IssuedSame DEF Dead, OpAlive, Alive, Rewriting, GoalKept
  <2>8. QED BY <1>1, <2>6, <2>7, OpStep
<1>4. QED BY <1>2, <1>3

(* The successor takes the place of the live pair: no record knows it as a
   pair it replaced. *)
LEMMA RewriteStep ==
  ASSUME TokensInv, Fencing, Rewrite
  PROVE  Fencing'
<1>1. op.pc = "rewrite" /\ UNCHANGED <<vault, recs, issued, sent>>
  BY DEF Rewrite, Step
<1>2. CASE Return /\ UNCHANGED live
  BY <1>1, <1>2, ReturnStep
<1>3. CASE ~(Return /\ UNCHANGED live)
  <2>1. live = op.seen /\ live' = op.rec.new /\ Goto("recovered")
    BY <1>3 DEF Rewrite
  <2>2. op.rec \in recs /\ Known(op.rec.new) /\ live \in op.rec.old
    BY <1>1, <2>1 DEF TokensInv, Pending
  <2>3. \A q \in recs : live' \notin q.old
    BY <2>1, <2>2 DEF Fencing, LiveRecords
  <2>4. /\ op'.pc = "recovered" /\ op'.todo = op.todo /\ op'.rec = op.rec
        /\ op'.next = op.next /\ op'.kind = op.kind /\ op'.goal = op.goal
        /\ op'.tok = op.tok /\ op'.id = op.id
    BY <2>1 DEF Goto, TokensInv, Types, OpType, Operation
  <2>5. AtRewriting'
    BY <1>1, <2>2, <2>3, <2>4 DEF Fencing, Phases, AtRewriting, Rewriting
  <2>6. AtCapture' /\ AtRefresh'
    BY <1>1, <2>3, <2>4 DEF Fencing, Phases, AtCapture, AtRefresh, Recovering, Consumed
  <2>7. AtSwitch'
    BY <1>1, <2>4 DEF Fencing, Phases, AtSwitch, GoalKept, Consumed
  <2>8. Phases'
    BY <2>4, <2>5, <2>6, <2>7 DEF Phases, AtExchange, AtStore, AtSave
  <2>9. PICK D \in SUBSET Token : Dead(D)
    BY DEF Fencing
  <2>10. Dead(D)'
    <3>1. DeadRecords(D)' /\ Covered(D)' /\ Issued' = Issued
      BY <1>1, <2>9, IssuedSame DEF Dead, DeadRecords, Closed, Covered, Consumed
    <3>2. StoresAlive(D)' /\ OpAlive(D)'
      BY <1>1, <2>1, <2>4, <2>9, <3>1
         DEF Dead, StoresAlive, OpAlive, Alive, Rewriting, GoalKept
    <3>3. QED BY <3>1, <3>2 DEF Dead
  <2>11. QED
    BY <1>1, <2>3, <2>8, <2>9, <2>10
       DEF Fencing, OneAccount, Pairs, LiveRecords, NoCycle, Closed
<1>4. QED BY <1>2, <1>3

(* A record is deleted: what it fenced off is dead from now on, and so is
   what older records replaced by it. *)
LEMMA RecoveredDead ==
  ASSUME TokensInv, Fencing, Recovered, op.rec.acct # None, NEW D \in SUBSET Token, Dead(D)
  PROVE  \E X \in SUBSET Token :
           /\ DeadRecords(X)' /\ Covered(X)' /\ StoresAlive(X)
           /\ op.rec.new \in Alive(X) /\ (GoalKept => op.goal \in Alive(X))
<1> DEFINE m == op.rec
           a == op.rec.acct
<1>1. /\ op.pc = "recovered" /\ UNCHANGED <<vault, live, issued, sent>>
      /\ recs' = recs \ {m}
  BY DEF Recovered, Step
<1>2. /\ m \in recs /\ Known(m.new) /\ m.new \in Token /\ live \notin m.old
      /\ vault[a] = m.new /\ a \in Accounts /\ recs \subseteq Record
  BY <1>1, Constants
     DEF TokensInv, Types, StoreType, Pending, Fencing, Phases, AtRewriting, Rewriting, Record
<1>3. /\ m.new.acct = a /\ \A t \in m.old : t.acct = a
      /\ \A q \in recs : \A t \in q.old : t \in Token /\ Known(t)
  <2>1. \A q \in recs : \A t \in q.old : t \in Token /\ Known(t)
    BY <1>2, Constants DEF Record, Known
  <2>2. QED BY <1>2, <2>1 DEF Fencing, OneAccount, Pairs
<1>4. PICK E \in SUBSET Token : m.old \subseteq E /\ m.new \notin E /\ Closed(E)
  BY <1>2 DEF Fencing, NoCycle
<1>5. PICK X \in SUBSET Token :
        X = D \cup {t \in E : /\ t.acct = a /\ t \in Issued /\ t # live
                             /\ \A q \in recs : live \in q.old => q.new # t}
  OBVIOUS
<1>6. m.old \subseteq X
  <2>1. \A q \in recs : live \in q.old => q.new \notin m.old
    BY <1>2, <1>3 DEF Fencing, LiveRecords, Known
  <2>2. m.old \subseteq Issued
    BY <1>2 DEF Dead, DeadRecords
  <2>3. QED BY <1>5, <1>2, <1>3, <1>4, <2>1, <2>2
<1>7. Closed(X)
  <2> SUFFICES ASSUME NEW q \in recs, q.new \in X, q.new \notin D, NEW t \in q.old PROVE t \in X
    BY <1>5 DEF Dead, DeadRecords, Closed
  <2>1. q.new \in E /\ q.new.acct = a /\ q.new \in Token /\ live \notin q.old
    BY <1>5, <1>4
  <2>2. t \in E /\ t \in Issued /\ t \in Token
    BY <2>1, <1>3, <1>4 DEF Closed, Dead, DeadRecords
  <2>3. t.acct = a
    <3>1. t \in Pairs(q) /\ q.new \in Pairs(q)
      BY <2>1, <1>3, Constants DEF Pairs, Known
    <3>2. QED BY <2>1, <3>1 DEF Fencing, OneAccount
  <2>4. \A p \in recs : live \in p.old => p.new # t
    BY <2>2, <1>3 DEF Fencing, LiveRecords
  <2>5. QED BY <1>5, <2>1, <2>2, <2>3, <2>4
<1>8. X \subseteq Issued /\ live \notin X \ D /\ m.new \notin X \ D
      /\ \A t \in X \ D : t.acct = a
  BY <1>5, <1>4 DEF Dead, DeadRecords
<1> WITNESS X \in SUBSET Token
<1>9. DeadRecords(X)'
  BY <1>1, <1>7, <1>8, IssuedSame DEF Dead, DeadRecords, Closed
<1>10. Covered(X)'
  <2>1. \A t \in sent : t \in X \/ \E q \in recs \ {m} : t \in q.old
    BY <1>5, <1>6 DEF Dead, Covered, Consumed
  <2>2. QED BY <1>1, <2>1 DEF Covered, Consumed
<1>11. m.new \in Alive(X)
  BY <1>1, <1>2, <1>8 DEF Dead, OpAlive, Rewriting, Alive
<1>12. StoresAlive(X)
  <2>1. live \in Alive(X)
    BY <1>8 DEF Dead, StoresAlive, Alive
  <2>2. ASSUME NEW b \in Accounts PROVE vault[b] \in Alive(X)
    <3>1. CASE b = a
      BY <3>1, <1>2, <1>11
    <3>2. CASE b # a
      BY <3>2, <1>8 DEF Dead, StoresAlive, Alive, Fencing, OneAccount, Known
    <3>3. QED BY <3>1, <3>2
  <2>3. QED BY <2>1, <2>2 DEF StoresAlive
<1>13. ASSUME GoalKept PROVE op.goal \in Alive(X)
  <2>1. op.goal \in Alive(D) /\ op.goal \in Slot
    BY <1>13 DEF Dead, OpAlive, TokensInv, Types, OpType, Operation
  <2>2. CASE op.next # "capture"
    <3>1. op.goal.acct # a
      BY <1>1, <1>3, <1>13, <2>2 DEF GoalKept, Fencing, Phases, AtRewriting, Rewriting
    <3>2. QED BY <2>1, <3>1, <1>8 DEF Alive
  <2>3. CASE op.next = "capture" /\ Known(op.goal)
    <3>1. vault[op.goal.acct] = op.goal /\ op.goal.acct \in Accounts
      BY <1>1, <2>1, <2>3, Constants
         DEF Fencing, Phases, AtCapture, AtSwitch, Recovering, Token
    <3>2. QED BY <3>1, <1>12 DEF StoresAlive
  <2>4. QED BY <2>2, <2>3 DEF Known, Alive
<1>14. QED BY <1>9, <1>10, <1>11, <1>12, <1>13

LEMMA RecoveredStep ==
  ASSUME TokensInv, Fencing, Recovered
  PROVE  Fencing'
<1>1. /\ op.pc = "recovered" /\ UNCHANGED <<vault, live, issued, sent>>
      /\ recs' = IF op.rec.acct = None THEN recs ELSE recs \ {op.rec}
      /\ op.rec \in recs /\ Known(op.rec.new) /\ op.rec.new \in Token
  BY Constants DEF Recovered, Step, TokensInv, Types, StoreType, Pending, Record
<1>2. /\ op'.pc = "recover" /\ op'.todo = op.todo \ {op.rec}
      /\ op'.next = op.next /\ op'.kind = op.kind /\ op'.goal = op.goal /\ op'.id = op.id
      /\ op'.tok = IF op.next = "capture" THEN op.tok ELSE op.rec.new
  BY DEF Recovered, TokensInv, Types, OpType, Operation
<1>3. /\ live \notin op.rec.old
      /\ op.next # "capture" => op.rec.new.acct = op.tok.acct
      /\ op.next = "capture" => op.tok = NoToken /\ op.id = None
      /\ op.next = "profile" => op.rec.new = op.tok /\ ~Consumed(op.tok)
  BY <1>1 DEF Fencing, Phases, AtRewriting, Rewriting, AtCapture, Recovering
<1>4. OneAccount' /\ LiveRecords' /\ NoCycle'
  BY <1>1, NoCycleFewer DEF Fencing, OneAccount, Pairs, LiveRecords
<1>5. AtCapture'
  <2>1. op.next = "capture" => \A r \in recs' \ op'.todo : live \notin r.old
    BY <1>1, <1>2, <1>3 DEF Fencing, Phases, AtCapture, Recovering
  <2>2. QED BY <1>1, <1>2, <1>3, <2>1 DEF AtCapture, Recovering, Consumed
<1>6. AtRefresh'
  <2>1. ASSUME op.next = "refresh", NEW r \in recs' \ op'.todo, r.new = op'.tok
        PROVE  live \notin r.old
    <3>1. r.new = op.rec.new /\ r \in recs
      BY <1>1, <1>2, <2>1
    <3>2. CASE r = op.rec
      BY <3>2, <1>3
    <3>3. CASE r # op.rec
      BY <3>1, <3>3, <1>1 DEF Fencing, LiveRecords
    <3>4. QED BY <3>2, <3>3
  <2>2. QED BY <1>1, <1>2, <2>1 DEF Fencing, Phases, AtRefresh, Recovering
<1>7. AtSwitch'
  <2>1. op.next # "capture" => Known(op.tok) /\ Known(op'.tok) /\ op'.tok.acct = op.tok.acct
    BY <1>1, <1>2, <1>3, TokensAssumption DEF Known, Token, NoToken
  <2>2. \A t : Consumed(t)' => Consumed(t)
    BY <1>1 DEF Consumed
  <2>3. op'.tok.acct = op.tok.acct
    BY <2>1, <1>2
  <2>4. (op'.id # None /\ Known(op'.tok) => op'.tok.acct = op'.id)
    BY <1>2, <1>3, <2>1 DEF Fencing, Phases, AtSwitch
  <2>5. GoalKept' => ~Consumed(op.goal)'
    BY <1>1, <1>2, <2>2, <2>3 DEF Fencing, Phases, AtSwitch, GoalKept
  <2>6. op'.tok = NoToken /\ Known(op'.goal) => vault'[op'.goal.acct] = op'.goal
    BY <1>1, <1>2, <2>1 DEF Fencing, Phases, AtSwitch, Known
  <2>7. QED BY <1>2, <2>4, <2>5, <2>6 DEF AtSwitch, Consumed
<1>8. Phases'
  BY <1>2, <1>5, <1>6, <1>7 DEF Phases, AtExchange, AtStore, AtRewriting, AtSave, Rewriting
<1>9. PICK D \in SUBSET Token : Dead(D)
  BY DEF Fencing
<1>10. \E X \in SUBSET Token :
         /\ DeadRecords(X)' /\ Covered(X)' /\ StoresAlive(X)
         /\ op.rec.new \in Alive(X) /\ (GoalKept => op.goal \in Alive(X))
  <2>1. CASE op.rec.acct # None
    BY <2>1, <1>9, RecoveredDead
  <2>2. CASE op.rec.acct = None
    BY <1>1, <1>9, <2>2, IssuedSame
       DEF Dead, DeadRecords, Closed, Covered, Consumed, OpAlive, Rewriting
  <2>3. QED BY <2>1, <2>2
<1>11. PICK X \in SUBSET Token :
         /\ DeadRecords(X)' /\ Covered(X)' /\ StoresAlive(X)
         /\ op.rec.new \in Alive(X) /\ (GoalKept => op.goal \in Alive(X))
  BY <1>10
<1>12. Dead(X)'
  <2>1. Alive(X)' = Alive(X)
    BY <1>1, IssuedSame DEF Alive
  <2>2. StoresAlive(X)'
    BY <1>1, <1>11, <2>1 DEF StoresAlive
  <2>3. op'.tok \in Alive(X)
    BY <1>2, <1>3, <1>11 DEF Alive
  <2>4. GoalKept' => GoalKept
    BY <1>1, <1>2, <1>3 DEF GoalKept
  <2>5. OpAlive(X)'
    BY <1>2, <1>11, <2>1, <2>3, <2>4 DEF OpAlive, Rewriting
  <2>6. QED BY <1>11, <2>2, <2>5 DEF Dead
<1>13. QED BY <1>4, <1>8, <1>12 DEF Fencing

LEMMA RecoverDoneStep ==
  ASSUME TokensInv, Fencing, RecoverDone
  PROVE  Fencing'
<1>1. op.pc = "recover" /\ op.todo = {} /\ UNCHANGED <<vault, live, recs, issued, sent>>
  BY DEF RecoverDone, Step, Stores
<1>2. CASE op' = Idle
  BY <1>1, <1>2, ReturnStep DEF Return
<1>3. CASE op' # Idle
  <2>1. /\ op.next \in {"refresh", "capture", "profile"} /\ op'.pc = op.next
        /\ op'.next = op.next /\ op'.kind = op.kind /\ op'.goal = op.goal
        /\ op'.tok = op.tok /\ op'.id = op.id
    BY <1>3 DEF RecoverDone, TokensInv, Types, OpType, Operation
  <2>2. AtCapture'
    BY <1>1, <2>1 DEF Fencing, Phases, AtCapture, Recovering, Consumed
  <2>3. AtRefresh'
    BY <1>1, <2>1 DEF Fencing, Phases, AtRefresh, Recovering
  <2>4. AtSwitch'
    BY <1>1, <2>1 DEF Fencing, Phases, AtSwitch, GoalKept, Consumed
  <2>5. Phases'
    BY <2>1, <2>2, <2>3, <2>4 DEF Phases, AtExchange, AtStore, AtRewriting, AtSave, Rewriting
  <2>6. ASSUME NEW D \in SUBSET Token, Dead(D) PROVE OpAlive(D)'
    BY <1>1, <2>1, <2>6, IssuedSame DEF Dead, OpAlive, Alive, Rewriting, GoalKept
  <2>7. QED BY <1>1, <2>5, <2>6, OpStep
<1>4. QED BY <1>2, <1>3

-----------------------------------------------------------------------------
(* The steps of a refresh *)

LEMMA LookStep ==
  ASSUME TokensInv, Fencing, Look
  PROVE  Fencing'
<1>1. op.pc = "refresh" /\ UNCHANGED <<vault, live, recs, issued, sent>>
  BY DEF Look, Step, Stores
<1>2. /\ op'.pc = "intent" /\ op'.seen = live /\ op'.path = (live = op.tok)
      /\ op'.next = op.next /\ op'.kind = op.kind /\ op'.goal = op.goal
      /\ op'.tok = op.tok /\ op'.id = op.id
  BY DEF Look, TokensInv, Types, OpType, Operation
<1>3. op.kind # "keepalive" => live = op.tok
  BY DEF Look
<1>4. AtRefresh'
  BY <1>1, <1>2, <1>3 DEF Fencing, Phases, AtRefresh, Recovering
<1>5. AtSwitch'
  BY <1>1, <1>2 DEF Fencing, Phases, AtSwitch, GoalKept, Consumed
<1>6. Phases'
  BY <1>2, <1>4, <1>5
     DEF Phases, AtExchange, AtStore, AtRewriting, AtCapture, AtSave, Recovering, Rewriting
<1>7. ASSUME NEW D \in SUBSET Token, Dead(D) PROVE OpAlive(D)'
  BY <1>1, <1>2, <1>7, IssuedSame DEF Dead, OpAlive, Alive, Rewriting, GoalKept
<1>8. QED BY <1>1, <1>6, <1>7, OpStep

(* The intent: the pair, which is neither dead nor fenced off, was never
   sent, and it is fenced off from now on. *)
LEMMA IntentStep ==
  ASSUME TokensInv, TokensInv', Fencing, Intent
  PROVE  Fencing'
<1>1. op.pc = "intent" /\ op.tok \in Token /\ Known(op.tok) /\ UNCHANGED <<issued, sent>>
  BY Constants DEF Intent, Step, TokensInv, Types, OpType, Known
<1>2. CASE Return /\ UNCHANGED Stores
  BY <1>1, <1>2, ReturnStep DEF Stores
<1>3. CASE ~(Return /\ UNCHANGED Stores)
  <2> DEFINE t == op.tok
             known == {r \in recs : r.new = t}
             begun(r) == [old |-> r.old \cup {t}, new |-> NoToken, acct |-> op.id,
                          path |-> op.path]
  <2>1. /\ live = op.seen /\ ~Consumed(t)
        /\ \E r \in IF known = {} THEN {NoRecord} ELSE known :
             /\ recs' = (recs \ {r}) \cup {begun(r)}
             /\ op' = [op EXCEPT !.pc = "exchange", !.rec = begun(r)]
             /\ UNCHANGED <<vault, live>>
    BY <1>3 DEF Intent
  <2>2. PICK r \in IF known = {} THEN {NoRecord} ELSE known :
          /\ recs' = (recs \ {r}) \cup {begun(r)}
          /\ op' = [op EXCEPT !.pc = "exchange", !.rec = begun(r)]
          /\ UNCHANGED <<vault, live>>
    BY <2>1
  <2> DEFINE n == begun(r)
  <2>3. /\ recs' = (recs \ {r}) \cup {n}
        /\ n.old = r.old \cup {t} /\ n.new = NoToken /\ n.acct = op.id /\ n.path = op.path
    BY <2>2
  <2>4. \/ r \in recs /\ r.new = t
        \/ r.old = {} /\ \A q \in recs : q.new # t
    BY DEF NoRecord
  <2>5. /\ op'.pc = "exchange" /\ op'.rec = n
        /\ op'.next = op.next /\ op'.kind = op.kind /\ op'.goal = op.goal
        /\ op'.tok = t /\ op'.id = op.id
    BY <2>2 DEF TokensInv, Types, OpType, Operation
  <2> HIDE DEF n, known, begun
  <2>6. OneAccount'
    <3>1. \A u \in Pairs(n) : u.acct = t.acct
      <4>1. ASSUME NEW u \in Pairs(n) PROVE u.acct = t.acct
        <5>1. u = t \/ (u \in r.old /\ Known(u))
          BY <2>3 DEF Pairs, Known
        <5>2. u \in r.old /\ Known(u) => u \in Pairs(r) /\ t \in Pairs(r) /\ r \in recs
          BY <1>1, <2>4 DEF Pairs
        <5>3. QED BY <5>1, <5>2 DEF Fencing, OneAccount
      <4>2. QED BY <4>1
    <3>2. n.acct # None => n.acct = t.acct
      BY <1>1, <2>3 DEF Fencing, Phases, AtSwitch
    <3>3. \A q \in recs' : q = n \/ q \in recs
      BY <2>3
    <3>4. \A q \in recs' : \A u, v \in Pairs(q) : u.acct = v.acct
      BY <3>1, <3>3 DEF Fencing, OneAccount
    <3>5. \A q \in recs' : q.acct # None => \A u \in Pairs(q) : u.acct = q.acct
      BY <3>1, <3>2, <3>3 DEF Fencing, OneAccount
    <3>6. \A a \in Accounts : Known(vault'[a]) => vault'[a].acct = a
      BY <2>2 DEF Fencing, OneAccount
    <3>7. QED BY <3>4, <3>5, <3>6 DEF OneAccount, Pairs, Known
  <2>7. LiveRecords'
    <3> SUFFICES ASSUME NEW q \in recs', live \in q.old
                 PROVE  /\ q.path
                        /\ Known(q.new) => \A p \in recs' : /\ q.new \notin p.old
                                                            /\ p.new = q.new => p = q
      BY <2>2 DEF LiveRecords
    <3>1. CASE q = n
      <4>1. live = t \/ (live \in r.old /\ r \in recs /\ r.new = t)
        BY <2>3, <2>4, <3>1
      <4>2. op.path
        BY <1>1, <2>1, <4>1 DEF Fencing, Phases, AtRefresh
      <4>3. QED BY <2>3, <3>1, <4>2 DEF Known
    <3>2. CASE q # n
      <4>1. q \in recs /\ q # r
        BY <2>3, <3>2
      <4>2. q.path /\ (Known(q.new) => \A p \in recs : /\ q.new \notin p.old
                                                       /\ p.new = q.new => p = q)
        BY <4>1 DEF Fencing, LiveRecords
      <4>3. Known(q.new) => q.new # t
        BY <2>4, <4>1, <4>2
      <4>4. Known(q.new) => q.new \notin n.old /\ n.new # q.new
        BY <2>3, <2>4, <4>2, <4>3 DEF Known
      <4>5. QED BY <2>3, <4>2, <4>4
    <3>3. QED BY <3>1, <3>2
  <2>8. NoCycle'
    <3>1. recs' \subseteq Record /\ \A q \in recs' : NoToken \notin q.old
      BY Constants DEF TokensInv, Types, StoreType, Record
    <3>2. QED BY <2>3, <3>1, NoCycleChange DEF Fencing
  <2>9. PICK D \in SUBSET Token : Dead(D)
    BY DEF Fencing
  <2>10. t \in Issued /\ t \notin D /\ t \notin sent
    BY <1>1, <2>1, <2>9 DEF Dead, OpAlive, Alive, Covered, Known
  <2>11. \A u : Consumed(u)' <=> Consumed(u) \/ u = t
    <3>1. ASSUME NEW u, Consumed(u) PROVE \E q \in recs' : u \in q.old
      <4>1. PICK q \in recs : u \in q.old
        BY <3>1 DEF Consumed
      <4>2. CASE q = r
        BY <2>3, <4>1, <4>2
      <4>3. CASE q # r
        BY <2>3, <4>1, <4>3
      <4>4. QED BY <4>2, <4>3
    <3>2. \E q \in recs' : t \in q.old
      BY <2>3
    <3>3. ASSUME NEW u, NEW q \in recs', u \in q.old PROVE Consumed(u) \/ u = t
      BY <2>3, <2>4, <3>3 DEF Consumed
    <3>4. QED BY <3>1, <3>2, <3>3 DEF Consumed
  <2>12. Phases'
    <3>1. AtExchange'
      BY <1>1, <2>3, <2>5, <2>10 DEF AtExchange, Fencing, Phases, AtSwitch
    <3>2. AtSwitch'
      BY <1>1, <2>2, <2>5, <2>11 DEF Fencing, Phases, AtSwitch, GoalKept, Known
    <3>3. AtRefresh'
      BY <1>1, <2>5 DEF Fencing, Phases, AtRefresh, Recovering
    <3>4. QED BY <2>5, <3>1, <3>2, <3>3
             DEF Phases, AtStore, AtRewriting, AtCapture, AtSave, Recovering, Rewriting
  <2>13. Dead(D)'
    <3>1. Issued' = Issued /\ NoToken \notin D
      BY <1>1, Constants, IssuedSame
    <3>2. \A q \in recs' : q = n \/ q \in recs
      BY <2>3
    <3>3. n.old \subseteq Issued
      BY <2>3, <2>4, <2>9, <2>10 DEF Dead, DeadRecords
    <3>4. DeadRecords(D)'
      BY <2>3, <2>9, <3>1, <3>2, <3>3 DEF Dead, DeadRecords, Closed
    <3>5. Covered(D)'
      BY <1>1, <2>9, <2>11 DEF Dead, Covered
    <3>6. StoresAlive(D)' /\ OpAlive(D)'
      BY <1>1, <2>2, <2>5, <2>9, <3>1 DEF Dead, StoresAlive, OpAlive, Alive, Rewriting, GoalKept
    <3>7. QED BY <3>4, <3>5, <3>6 DEF Dead
  <2>14. QED BY <2>6, <2>7, <2>8, <2>9, <2>12, <2>13 DEF Fencing
<1>4. QED BY <1>2, <1>3

(* What is sent is fenced off. *)
LEMMA ExchangeStep ==
  ASSUME TokensInv, Fencing, Exchange
  PROVE  Fencing'
<1>1. /\ op.pc = "exchange" /\ op.tok \in Token /\ op.tok.acct \in Accounts
      /\ UNCHANGED <<vault, live, recs>> /\ sent' = sent \cup {op.tok}
  BY DEF Exchange, Stores, TokensInv, Types, OpType, Token
<1>2. /\ op.rec \in recs /\ op.rec.new = NoToken /\ op.tok \in op.rec.old
      /\ op.rec.acct \in {None, op.tok.acct}
  BY <1>1 DEF Fencing, Phases, AtExchange
<1>3. PICK D \in SUBSET Token : Dead(D)
  BY DEF Fencing
<1>4. OneAccount' /\ LiveRecords' /\ NoCycle'
  BY <1>1 DEF Fencing, OneAccount, LiveRecords, NoCycle, Closed, Pairs
<1>5. Covered(D)'
  BY <1>1, <1>2, <1>3 DEF Dead, Covered, Consumed
<1>6. CASE Return /\ UNCHANGED Provider
  <2>1. Phases' /\ OpAlive(D)'
    BY <1>6, ReturnPhases
  <2>2. DeadRecords(D)' /\ StoresAlive(D)'
    BY <1>1, <1>3, <1>6, IssuedSame DEF Dead, DeadRecords, Closed, StoresAlive, Alive, Provider
  <2>3. QED BY <1>3, <1>4, <1>5, <2>1, <2>2 DEF Fencing, Dead
<1>7. CASE ~(Return /\ UNCHANGED Provider)
  <2> DEFINE f == Fresh(op.tok.acct)
  <2>1. Issue(op.tok.acct, op.tok) /\ op' = [op EXCEPT !.pc = "store", !.tok = f]
    BY <1>7 DEF Exchange
  <2>2. /\ op'.pc = "store" /\ op'.tok = f /\ op'.rec = op.rec
        /\ op'.next = op.next /\ op'.kind = op.kind /\ op'.goal = op.goal /\ op'.id = op.id
    BY <2>1 DEF TokensInv, Types, OpType, Operation
  <2>3. Issued \subseteq Issued' /\ f \in Issued' /\ f \notin Issued
    BY <1>1, <2>1, IssueGrows
  <2>4. f.acct = op.tok.acct /\ Known(f) /\ Known(op.tok)
    BY <1>1, <2>3, Constants DEF Fresh, Issued, Known
  <2> HIDE DEF f
  <2>5. AtStore'
    <3>1. \A r \in recs : f \notin r.old /\ r.new # f
      BY <1>3, <2>3, <2>4 DEF Dead, DeadRecords, Known
    <3>2. \A t \in op.rec.old : t.acct = op.tok.acct
      <4>1. \A t \in op.rec.old : t \in Pairs(op.rec)
        BY <1>2, Constants DEF Pairs, Known, TokensInv, Types, StoreType, Record
      <4>2. QED BY <1>2, <4>1 DEF Fencing, OneAccount
    <3>3. QED BY <1>1, <1>2, <2>2, <2>4, <3>1, <3>2 DEF AtStore
  <2>6. AtSwitch'
    BY <1>1, <2>2, <2>4 DEF Fencing, Phases, AtSwitch, GoalKept, Consumed, Known
  <2>7. AtRefresh'
    BY <1>1, <2>2 DEF Fencing, Phases, AtRefresh, Recovering
  <2>8. Phases'
    BY <2>2, <2>5, <2>6, <2>7
       DEF Phases, AtExchange, AtRewriting, AtCapture, AtSave, Recovering, Rewriting
  <2>9. Dead(D)'
    <3>1. f \notin D
      BY <1>3, <2>3 DEF Dead, DeadRecords
    <3>2. DeadRecords(D)' /\ StoresAlive(D)'
      BY <1>1, <1>3, <2>3 DEF Dead, DeadRecords, Closed, StoresAlive, Alive
    <3>3. OpAlive(D)'
      BY <1>1, <1>3, <2>2, <2>3, <2>4, <3>1 DEF Dead, OpAlive, Alive, Rewriting, GoalKept
    <3>4. QED BY <1>5, <3>2, <3>3 DEF Dead
  <2>10. QED BY <1>3, <1>4, <2>8, <2>9 DEF Fencing
<1>8. QED BY <1>6, <1>7

(* The successor is in no other record when it is stored. *)
LEMMA StoreStep ==
  ASSUME TokensInv, TokensInv', Fencing, Store
  PROVE  Fencing'
<1> DEFINE m == op.rec
           n == [op.rec EXCEPT !.new = op.tok]
<1>1. /\ op.pc = "store" /\ UNCHANGED <<vault, live, issued, sent>>
      /\ recs' = (recs \ {m}) \cup {n}
      /\ op.tok \in Token /\ Known(op.tok) /\ op.rec \in Record
  BY Constants DEF Store, Step, TokensInv, Types, OpType, Operation, Known
<1>2. n.old = m.old /\ n.new = op.tok /\ n.acct = m.acct /\ n.path = m.path
  BY <1>1 DEF Record
<1>3. /\ op'.pc = "recover" /\ op'.next = IF op.kind = "keepalive" THEN "idle" ELSE "profile"
      /\ op'.kind = op.kind /\ op'.goal = op.goal /\ op'.tok = op.tok /\ op'.id = op.id
  BY DEF Store, TokensInv, Types, OpType, Operation
<1>4. /\ m \in recs /\ m.new = NoToken /\ m.acct \in {None, op.tok.acct}
      /\ \A t \in m.old : t.acct = op.tok.acct
      /\ \A r \in recs : op.tok \notin r.old /\ r.new # op.tok
  BY <1>1 DEF Fencing, Phases, AtStore
<1> HIDE DEF n, m
<1>5. \A u : Consumed(u)' <=> Consumed(u)
  BY <1>1, <1>2, <1>4 DEF Consumed
<1>6. OneAccount'
  <2>1. \A q \in recs' : q = n \/ q \in recs
    BY <1>1
  <2>2. \A u \in Pairs(n) : u.acct = op.tok.acct
    BY <1>2, <1>4 DEF Pairs
  <2>3. \A q \in recs' : \A u, v \in Pairs(q) : u.acct = v.acct
    BY <2>1, <2>2 DEF Fencing, OneAccount
  <2>4. \A q \in recs' : q.acct # None => \A u \in Pairs(q) : u.acct = q.acct
    BY <1>2, <1>4, <2>1, <2>2 DEF Fencing, OneAccount
  <2>5. QED BY <1>1, <2>3, <2>4 DEF Fencing, OneAccount, Pairs, Known
<1>7. LiveRecords'
  <2> SUFFICES ASSUME NEW q \in recs', live \in q.old
               PROVE  /\ q.path
                      /\ Known(q.new) => \A p \in recs' : /\ q.new \notin p.old
                                                          /\ p.new = q.new => p = q
    BY <1>1 DEF LiveRecords
  <2>1. CASE q = n
    BY <1>1, <1>2, <1>4, <2>1 DEF Fencing, LiveRecords
  <2>2. CASE q # n
    BY <1>1, <1>2, <1>4, <2>2 DEF Fencing, LiveRecords
  <2>3. QED BY <2>1, <2>2
<1>8. NoCycle'
  <2>1. recs' \subseteq Record /\ \A q \in recs' : n.new \notin q.old
    BY <1>1, <1>2, <1>4 DEF TokensInv, Types, StoreType
  <2>2. QED BY <1>1, <2>1, NoCycleChange DEF Fencing
<1>9. Phases'
  <2>1. AtCapture'
    BY <1>3, <1>4, <1>5 DEF AtCapture, Recovering, Consumed
  <2>2. AtRefresh'
    BY <1>1, <1>3 DEF Fencing, Phases, AtRefresh, Recovering
  <2>3. AtSwitch'
    BY <1>1, <1>3, <1>5 DEF Fencing, Phases, AtSwitch, GoalKept, Known
  <2>4. QED BY <1>3, <2>1, <2>2, <2>3
           DEF Phases, AtExchange, AtStore, AtRewriting, AtSave, Rewriting
<1>10. PICK D \in SUBSET Token : Dead(D)
  BY DEF Fencing
<1>11. Dead(D)'
  <2>1. Issued' = Issued /\ op.tok \in Issued /\ op.tok \notin D
    BY <1>1, <1>10, IssuedSame DEF Dead, OpAlive, Alive, Known
  <2>2. \A q \in recs' : q = n \/ q \in recs
    BY <1>1
  <2>3. DeadRecords(D)'
    BY <1>2, <1>4, <1>10, <2>1, <2>2 DEF Dead, DeadRecords, Closed
  <2>4. Covered(D)'
    BY <1>1, <1>5, <1>10 DEF Dead, Covered
  <2>5. StoresAlive(D)' /\ OpAlive(D)'
    BY <1>1, <1>3, <1>10, <2>1 DEF Dead, StoresAlive, OpAlive, Alive, Rewriting, GoalKept
  <2>6. QED BY <2>3, <2>4, <2>5 DEF Dead
<1>12. QED BY <1>6, <1>7, <1>8, <1>9, <1>10, <1>11 DEF Fencing

-----------------------------------------------------------------------------
(* The steps of a capture, a save and a restore *)

LEMMA CaptureReadStep ==
  ASSUME TokensInv, Fencing, CaptureRead
  PROVE  Fencing'
<1>1. op.pc = "capture" /\ UNCHANGED <<vault, live, recs, issued, sent>>
  BY DEF CaptureRead, Step, Stores
<1>2. ~Consumed(live) /\ op.tok = NoToken /\ op.id = None /\ op.kind # "keepalive"
  BY <1>1 DEF Fencing, Phases, AtCapture, AtRefresh
<1>3. ~Consumed(op.goal) /\ \A D \in SUBSET Token : Dead(D) => op.goal \in Alive(D)
  <2>1. op.goal = NoToken \/ GoalKept
    BY <1>2, TokensAssumption
       DEF GoalKept, NoToken, TokensInv, Types, OpType, Operation, Slot, Token
  <2>2. QED BY <2>1, NoTokenFree DEF Fencing, Phases, AtSwitch, Dead, OpAlive, Alive
<1>4. CASE op' = Idle
  BY <1>1, <1>4, ReturnStep DEF Return
<1>5. CASE op' # Idle
  <2>1. /\ \/ op'.pc = "profile" /\ op'.tok = live /\ Known(live)
           \/ op'.pc = "restore" /\ op'.tok = NoToken
        /\ op'.next = op.next /\ op'.kind = op.kind /\ op'.goal = op.goal /\ op'.id = op.id
        /\ op' = [op EXCEPT !.pc = "restore"] \/ op'.pc = "profile"
    BY <1>2, <1>5 DEF CaptureRead, TokensInv, Types, OpType, Operation
  <2>2. AtSwitch'
    BY <1>1, <1>2, <1>3, <2>1 DEF Fencing, Phases, AtSwitch, Consumed, Known
  <2>3. AtRefresh'
    BY <1>2, <2>1 DEF AtRefresh, Recovering
  <2>4. AtCapture'
    BY <1>1, <1>2, <2>1 DEF AtCapture, Recovering, Consumed
  <2>5. Phases'
    BY <2>1, <2>2, <2>3, <2>4 DEF Phases, AtExchange, AtStore, AtRewriting, AtSave, Rewriting
  <2>6. ASSUME NEW D \in SUBSET Token, Dead(D) PROVE OpAlive(D)'
    BY <1>1, <1>3, <2>1, <2>6, IssuedSame DEF Dead, StoresAlive, OpAlive, Alive, Rewriting
  <2>7. QED BY <1>1, <2>5, <2>6, OpStep
<1>6. QED BY <1>4, <1>5

LEMMA ProfileStep ==
  ASSUME TokensInv, Fencing, Profile
  PROVE  Fencing'
<1>1. op.pc = "profile" /\ UNCHANGED <<vault, live, recs, issued, sent>>
  BY DEF Profile, Step, Stores
<1>2. ~Consumed(op.tok) /\ op.kind # "keepalive"
  BY <1>1 DEF Fencing, Phases, AtCapture, AtRefresh
<1>3. CASE Return
  BY <1>1, <1>3, ReturnStep
<1>4. CASE ~Return
  <2>1. /\ \/ /\ op'.pc = "save" /\ op'.id = op.tok.acct /\ op'.todo = recs /\ live = op.tok
           \/ op'.pc = "refresh" /\ op'.id = op.id
        /\ op'.next = op.next /\ op'.kind = op.kind /\ op'.goal = op.goal /\ op'.tok = op.tok
    BY <1>4 DEF Profile, Goto, TokensInv, Types, OpType, Operation
  <2>2. AtSwitch'
    BY <1>1, <2>1 DEF Fencing, Phases, AtSwitch, GoalKept, Consumed
  <2>3. AtCapture' /\ AtRefresh'
    BY <1>1, <1>2, <2>1 DEF AtCapture, AtRefresh, Recovering, Consumed
  <2>4. AtSave'
    BY <1>1, <1>2, <2>1 DEF AtSave, Consumed
  <2>5. Phases'
    BY <2>1, <2>2, <2>3, <2>4 DEF Phases, AtExchange, AtStore, AtRewriting, Rewriting
  <2>6. ASSUME NEW D \in SUBSET Token, Dead(D) PROVE OpAlive(D)'
    BY <1>1, <2>1, <2>6, IssuedSame DEF Dead, OpAlive, Alive, Rewriting, GoalKept
  <2>7. QED BY <1>1, <2>5, <2>6, OpStep
<1>5. QED BY <1>3, <1>4

(* A record takes the captured pair, which no record fences off. *)
LEMMA SaveRecordStep ==
  ASSUME TokensInv, TokensInv', Fencing, NEW r \in op.todo, SaveRecord(r)
  PROVE  Fencing'
<1>1. /\ op.pc = "save" /\ UNCHANGED <<vault, live, issued, sent>>
      /\ op.tok \in Token /\ Known(op.tok) /\ op.id \in Accounts
  BY Constants DEF SaveRecord, Step, TokensInv, Types, OpType, Known
<1>2. /\ r \in recs /\ op.todo \subseteq recs /\ op.tok.acct = op.id /\ ~Consumed(op.tok)
      /\ \/ \A q \in recs : live \notin q.old /\ (Known(live) /\ live = q.new => live = op.tok)
         \/ \A q \in recs : q.new # op.tok /\ q.acct # op.id
  BY <1>1 DEF Fencing, Phases, AtSave, AtCapture
<1>3. op.tok \notin r.old
  BY <1>2 DEF Consumed
<1> DEFINE n == Supersede(r)
<1>4. recs' = (recs \ {r}) \cup {n} /\ op' = [op EXCEPT !.todo = @ \ {r}]
  BY <1>3 DEF SaveRecord
<1>5. /\ op'.pc = "save" /\ op'.todo = op.todo \ {r}
      /\ op'.next = op.next /\ op'.kind = op.kind /\ op'.goal = op.goal
      /\ op'.tok = op.tok /\ op'.id = op.id
  BY <1>1, <1>4 DEF TokensInv, Types, OpType, Operation
<1>6. CASE n = r
  <2>1. recs' = recs
    BY <1>2, <1>4, <1>6
  <2>2. AtSave' /\ AtCapture' /\ AtRefresh' /\ AtSwitch'
    BY <1>1, <1>2, <1>5, <2>1
       DEF Fencing, Phases, AtSave, AtCapture, AtRefresh, AtSwitch, Recovering, GoalKept, Consumed
  <2>3. Phases'
    BY <1>5, <2>2 DEF Phases, AtExchange, AtStore, AtRewriting, Rewriting
  <2>4. ASSUME NEW D \in SUBSET Token, Dead(D) PROVE OpAlive(D)'
    BY <1>1, <1>5, <2>4, IssuedSame DEF Dead, OpAlive, Alive, Rewriting, GoalKept
  <2>5. QED BY <1>1, <2>1, <2>3, <2>4, OpStep
<1>7. CASE n # r
  <2>1. /\ r.new = op.tok \/ r.acct = op.id
        /\ r.old \subseteq Token /\ r.new \in Slot /\ r \in Record
    BY <1>2, <1>7 DEF Supersede, TokensInv, Types, StoreType, Record
  <2>2. /\ n.old = IF r.new \in {op.tok, NoToken} THEN r.old ELSE r.old \cup {r.new}
        /\ n.new = op.tok /\ n.acct = op.id
    BY <2>1 DEF Supersede, Record
  <2>3. \A q \in recs : live \notin q.old /\ (Known(live) /\ live = q.new => live = op.tok)
    BY <1>2, <2>1
  <2> HIDE DEF n
  <2>4. \A u \in Pairs(r) : u.acct = op.id
    <3>1. r.new = op.tok => op.tok \in Pairs(r)
      BY <1>1 DEF Pairs
    <3>2. op.id # None
      BY <1>1, TokensAssumption
    <3>3. QED BY <1>2, <2>1, <3>1, <3>2 DEF Fencing, OneAccount
  <2>5. \A u \in n.old : u \in r.old \/ (u = r.new /\ Known(u) /\ u # op.tok)
    BY <2>2 DEF Known
  <2>6. \A q \in recs' : q = n \/ q \in recs
    BY <1>4
  <2>7. \A q \in recs' : op.tok \notin q.old /\ live \notin q.old
    <3>1. op.tok \notin n.old
      BY <1>3, <2>5
    <3>2. live \notin n.old
      BY <1>2, <2>3, <2>5
    <3>3. QED BY <1>2, <2>3, <2>6, <3>1, <3>2 DEF Consumed
  <2>8. \A u : Consumed(u)' => Consumed(u) \/ (u = r.new /\ Known(u))
    BY <1>2, <2>5, <2>6 DEF Consumed
  <2>9. \A u : Consumed(u) => Consumed(u)'
    <3>1. r.old \subseteq n.old
      BY <2>2
    <3>2. QED BY <1>4, <3>1 DEF Consumed
  <2>10. OneAccount'
    <3>1. \A u \in Pairs(n) : u.acct = op.id
      BY <1>2, <2>2, <2>4, <2>5 DEF Pairs
    <3>2. \A q \in recs' : \A u, v \in Pairs(q) : u.acct = v.acct
      BY <2>6, <3>1 DEF Fencing, OneAccount
    <3>3. \A q \in recs' : q.acct # None => \A u \in Pairs(q) : u.acct = q.acct
      BY <2>2, <2>6, <3>1 DEF Fencing, OneAccount
    <3>4. QED BY <1>1, <3>2, <3>3 DEF Fencing, OneAccount, Pairs, Known
  <2>11. LiveRecords'
    BY <1>1, <2>7 DEF LiveRecords
  <2>12. NoCycle'
    <3>1. recs' \subseteq Record
      BY DEF TokensInv, Types, StoreType
    <3>2. QED BY <1>4, <2>2, <2>7, <3>1, NoCycleChange DEF Fencing
  <2>13. Phases'
    <3>1. AtSave'
      <4>1. \A q \in recs' : Known(live) /\ live = q.new => live = op.tok
        BY <2>2, <2>3, <2>6
      <4>2. op'.todo \subseteq recs'
        BY <1>2, <1>4, <1>5
      <4>3. QED BY <1>1, <1>2, <1>5, <2>7, <4>1, <4>2 DEF AtSave
    <3>2. AtCapture'
      BY <1>5, <2>7 DEF AtCapture, Recovering, Consumed
    <3>3. AtRefresh'
      BY <1>1, <1>5 DEF Fencing, Phases, AtRefresh, Recovering
    <3>4. AtSwitch'
      <4>1. GoalKept' => GoalKept /\ op.goal.acct # op.tok.acct
        BY <1>5 DEF GoalKept
      <4>2. Known(r.new) => r.new.acct = op.tok.acct
        BY <1>2, <2>4 DEF Pairs
      <4>3. GoalKept' => ~Consumed(op.goal)
        BY <4>1 DEF Fencing, Phases, AtSwitch
      <4>4. GoalKept' => ~Consumed(op.goal)'
        BY <1>5, <2>8, <4>1, <4>2, <4>3 DEF Consumed
      <4>5. QED BY <1>1, <1>5, <4>4 DEF Fencing, Phases, AtSwitch, Consumed, Known
    <3>5. QED BY <1>5, <3>1, <3>2, <3>3, <3>4
             DEF Phases, AtExchange, AtStore, AtRewriting, Rewriting
  <2>14. PICK D \in SUBSET Token : Dead(D)
    BY DEF Fencing
  <2>15. Dead(D)'
    <3>1. Issued' = Issued /\ op.tok \in Issued /\ op.tok \notin D
      BY <1>1, <2>14, IssuedSame DEF Dead, OpAlive, Alive, Known
    <3>2. n.old \subseteq Issued
      BY <1>2, <2>5, <2>14 DEF Dead, DeadRecords, Known
    <3>3. DeadRecords(D)'
      BY <2>2, <2>6, <2>14, <3>1, <3>2 DEF Dead, DeadRecords, Closed
    <3>4. Covered(D)'
      BY <1>1, <2>9, <2>14 DEF Dead, Covered
    <3>5. StoresAlive(D)' /\ OpAlive(D)'
      BY <1>1, <1>5, <2>14, <3>1 DEF Dead, StoresAlive, OpAlive, Alive, Rewriting, GoalKept
    <3>6. QED BY <3>3, <3>4, <3>5 DEF Dead
  <2>16. QED BY <2>10, <2>11, <2>12, <2>13, <2>14, <2>15 DEF Fencing
<1>8. QED BY <1>6, <1>7

LEMMA SaveStep ==
  ASSUME TokensInv, Fencing, Save
  PROVE  Fencing'
<1>1. /\ op.pc = "save" /\ UNCHANGED <<live, recs, issued, sent>>
      /\ vault' = [vault EXCEPT ![op.id] = op.tok]
      /\ op.tok \in Token /\ Known(op.tok) /\ op.id \in Accounts
      /\ vault \in [Accounts -> Slot]
  BY Constants DEF Save, Step, TokensInv, Types, StoreType, OpType, Known
<1>2. op.tok.acct = op.id /\ ~Consumed(op.tok)
  BY <1>1 DEF Fencing, Phases, AtSave, AtCapture
<1>3. OneAccount' /\ LiveRecords' /\ NoCycle'
  BY <1>1, <1>2 DEF Fencing, OneAccount, LiveRecords, NoCycle, Closed, Pairs
<1>4. PICK D \in SUBSET Token : Dead(D)
  BY DEF Fencing
<1>5. DeadRecords(D)' /\ Covered(D)' /\ StoresAlive(D)'
  BY <1>1, <1>4, IssuedSame
     DEF Dead, DeadRecords, Closed, Covered, Consumed, StoresAlive, OpAlive, Alive
<1>6. CASE op' = Idle
  BY <1>3, <1>4, <1>5, <1>6, ReturnPhases DEF Return, Fencing, Dead
<1>7. CASE op' # Idle
  <2>1. /\ op'.pc = "restore" /\ op.kind = "switch"
        /\ op'.goal = IF op.goal.acct = op.id THEN op.tok ELSE op.goal
        /\ op'.next = op.next /\ op'.kind = op.kind /\ op'.tok = op.tok /\ op'.id = op.id
    BY <1>7 DEF Save, TokensInv, Types, OpType, Operation
  <2>2. ~Consumed(op'.goal) /\ op'.goal \in Alive(D)
    BY <1>2, <1>4, <2>1 DEF Fencing, Phases, AtSwitch, GoalKept, Dead, OpAlive
  <2>3. AtSwitch'
    BY <1>1, <1>2, <2>1, <2>2 DEF AtSwitch, Consumed, Known
  <2>4. Phases'
    BY <2>1, <2>3 DEF Phases, AtExchange, AtStore, AtRewriting, AtCapture, AtRefresh, AtSave,
                      Recovering, Rewriting
  <2>5. OpAlive(D)'
    BY <1>1, <1>4, <2>1, <2>2, IssuedSame DEF Dead, OpAlive, Alive, Rewriting
  <2>6. QED BY <1>3, <1>4, <1>5, <2>4, <2>5 DEF Fencing, Dead
<1>8. QED BY <1>6, <1>7

LEMMA RestoreStep ==
  ASSUME TokensInv, Fencing, Restore
  PROVE  Fencing'
<1>1. /\ op.pc = "restore" /\ UNCHANGED <<vault, recs, issued, sent>>
      /\ live' = op.goal /\ Return
  BY DEF Restore, Step
<1>2. ~Consumed(op.goal)
  BY <1>1 DEF Fencing, Phases, AtSwitch, GoalKept
<1>3. OneAccount' /\ NoCycle'
  BY <1>1 DEF Fencing, OneAccount, NoCycle, Closed, Pairs
<1>4. LiveRecords'
  BY <1>1, <1>2 DEF LiveRecords, Consumed
<1>5. PICK D \in SUBSET Token : Dead(D)
  BY DEF Fencing
<1>6. DeadRecords(D)' /\ Covered(D)' /\ StoresAlive(D)'
  BY <1>1, <1>5, IssuedSame
     DEF Dead, DeadRecords, Closed, Covered, Consumed, StoresAlive, OpAlive, Alive, GoalKept
<1>7. QED BY <1>1, <1>3, <1>4, <1>5, <1>6, ReturnPhases DEF Fencing, Dead

-----------------------------------------------------------------------------
LEMMA FencingInit == Init => Fencing
<1> SUFFICES ASSUME Init PROVE Fencing
  OBVIOUS
<1>1. /\ recs = {} /\ sent = {} /\ op = Idle
      /\ \A a \in Accounts : vault[a] = First(a)
      /\ live \in {First(a) : a \in Accounts}
  BY DEF Init
<1>2. /\ op.pc = "idle" /\ op.next = "idle" /\ op.kind = "none" /\ op.goal = NoToken
      /\ op.tok = NoToken /\ op.id = None
  BY <1>1 DEF Idle
<1>3. OneAccount /\ LiveRecords /\ NoCycle
  <2>1. ASSUME NEW a \in Accounts PROVE vault[a].acct = a
    <3>1. First(a).acct = a
      BY DEF First
    <3>2. QED BY <1>1, <3>1
  <2>2. QED BY <1>1, <2>1 DEF OneAccount, LiveRecords, NoCycle
<1>4. Phases
  BY <1>2 DEF Phases, AtExchange, AtStore, AtRewriting, AtCapture, AtRefresh, AtSave, AtSwitch,
              Recovering, Rewriting, GoalKept, Known
<1>5. ASSUME NEW a \in Accounts PROVE First(a) \in Issued
  <2>1. First(a) \in Token /\ First(a).acct = a /\ First(a).n = 1
    BY FirstType DEF First
  <2>2. issued[a] = 1
    BY DEF Init
  <2>3. QED BY <2>1, <2>2 DEF Issued
<1>6. Dead({})
  BY <1>1, <1>2, <1>5 DEF Dead, DeadRecords, Closed, Covered, StoresAlive, OpAlive, Alive,
                          Rewriting
<1>7. QED BY <1>3, <1>4, <1>6 DEF Fencing

LEMMA OutsideStep ==
  ASSUME TokensInv, Fencing, CliStart \/ CliExit \/ CliRotate \/ CliLogout
                             \/ \E a \in Accounts : CliLogin(a)
  PROVE  Fencing'
<1>1. op' = op /\ UNCHANGED <<vault, recs, sent>>
  BY DEF CliStart, CliExit, CliRotate, CliLogin, CliLogout, Outside
<1>2. CASE CliStart \/ CliExit \/ CliLogout
  <2>1. issued' = issued /\ live' \in {live, NoToken}
    BY <1>2 DEF CliStart, CliExit, CliLogout, Provider
  <2>2. QED BY <1>1, <2>1, CliStep, IssuedSame
<1>3. CASE CliRotate
  <2>1. live.acct \in Accounts /\ Issue(live.acct, live) /\ live' = Fresh(live.acct)
    BY <1>3 DEF CliRotate, TokensInv, Types, ProviderType, Token
  <2>2. QED BY <1>1, <2>1, CliStep, IssueGrows
<1>4. ASSUME NEW a \in Accounts, CliLogin(a) PROVE Fencing'
  <2>1. Issue(a, NoToken) /\ live' = Fresh(a)
    BY <1>4 DEF CliLogin
  <2>2. QED BY <1>1, <2>1, CliStep, IssueGrows
<1>5. QED BY <1>2, <1>3, <1>4

LEMMA FencingStep == TokensInv /\ TokensInv' /\ Fencing /\ [Next /\ ~UndoesFencing]_vars => Fencing'
<1> SUFFICES ASSUME TokensInv, TokensInv', Fencing, [Next /\ ~UndoesFencing]_vars PROVE Fencing'
  OBVIOUS
<1>1. CASE UNCHANGED vars
  <2>1. UNCHANGED <<vault, live, recs, issued, sent>> /\ op' = op
    BY <1>1 DEF vars
  <2>2. Phases'
    BY <2>1 DEF Fencing, Phases, AtExchange, AtStore, AtRewriting, AtCapture, AtRefresh, AtSave,
                AtSwitch, Recovering, Rewriting, GoalKept, Consumed
  <2>3. ASSUME NEW D \in SUBSET Token, Dead(D) PROVE OpAlive(D)'
    BY <2>1, <2>3, IssuedSame DEF Dead, OpAlive, Alive, Rewriting, GoalKept
  <2>4. QED BY <2>1, <2>2, <2>3, OpStep
<1>2. ASSUME NEW r \in op.todo, RecoverSkip(r) \/ RecoverRefused(r) \/ RecoverSave(r) \/ SaveRecord(r)
      PROVE  Fencing'
  <2>1. CASE RecoverRefused(r)
    BY <2>1, ReturnStep DEF RecoverRefused, Step, Stores
  <2>2. QED BY <1>2, <2>1, RecoverSkipStep, RecoverSaveStep, SaveRecordStep
<1>3. CASE Writeback \/ Rewrite \/ Recovered \/ RecoverDone
  BY <1>3, WritebackStep, RewriteStep, RecoveredStep, RecoverDoneStep
<1>4. CASE NotDue \/ Fails
  BY <1>4, ReturnStep DEF NotDue, Fails, Step, Stores, Provider
<1>5. CASE Look \/ Intent \/ Exchange \/ Store
  BY <1>5, LookStep, IntentStep, ExchangeStep, StoreStep
<1>6. CASE CaptureRead \/ Profile \/ Save \/ Restore
  BY <1>6, CaptureReadStep, ProfileStep, SaveStep, RestoreStep
<1>7. CASE ~UndoesFencing /\ \/ StartCapture
                             \/ \E a \in Accounts : \/ StartKeepAlive(a) \/ StartSwitch(a)
                                                    \/ StartEnroll(a)
  BY <1>7, StartCaptureStep, StartKeepAliveStep, StartSwitchStep, StartEnrollStep
<1>8. CASE CliStart \/ CliExit \/ CliRotate \/ CliLogout \/ \E a \in Accounts : CliLogin(a)
  BY <1>8, OutsideStep
<1>9. QED BY <1>1, <1>2, <1>3, <1>4, <1>5, <1>6, <1>7, <1>8 DEF Next, Work, RecoveryStep

LEMMA FencingInvariant == Spec /\ [][~UndoesFencing]_vars => [](TokensInv /\ Fencing)
<1>1. TokensInv /\ Fencing /\ [Next]_vars /\ [~UndoesFencing]_vars => (TokensInv /\ Fencing)'
  BY StepInv, FencingStep
<1>2. QED BY <1>1, InitInv, FencingInit, PTL DEF Spec

(* beginClaudeRecovery and ClaudeRefresh: as long as no account is signed in
   in isolation while a recovery of it is pending and no switch takes a saved
   pair that is fenced off, a refresh token is presented once, whatever
   crashes, is lost, is captured, rotated or signed in. *)
THEOREM TokensSpentOnce == Spec /\ [][~UndoesFencing]_vars => []SpentOnce
<1>1. Fencing => SpentOnce
  BY DEF Fencing, Phases, AtExchange, SpentOnce
<1>2. QED BY <1>1, FencingInvariant, PTL

(* Under the same condition a pair that was sent and is still in the vault or
   in the live file stays fenced off by a recovery record. *)
THEOREM OldPairsStayFenced == Spec /\ [][~UndoesFencing]_vars => []OldPairsFenced
<1>1. Fencing => OldPairsFenced
  <2> SUFFICES ASSUME Fencing, NEW t \in {live} \cup {vault[a] : a \in Accounts}, t \in sent
               PROVE  Consumed(t)
    BY DEF OldPairsFenced
  <2>1. PICK D \in SUBSET Token : Dead(D)
    BY DEF Fencing
  <2>2. t \in Alive(D) /\ D \subseteq Issued
    BY <2>1 DEF Dead, DeadRecords, StoresAlive
  <2>3. t \in D => t = NoToken
    BY <2>2 DEF Alive
  <2>4. NoToken \notin D
    BY <2>1, Constants
  <2>5. QED BY <2>1, <2>3, <2>4 DEF Dead, Covered
<1>2. QED BY <1>1, FencingInvariant, PTL

-----------------------------------------------------------------------------
(* The steps that write the vault, the live file or a record keep a usable
   pair: what they overwrite is fenced off, or its successor is usable. *)

LEMMA KeptByRecovery ==
  ASSUME TokensInv, Fencing, valid' = valid, NEW a \in Accounts, Usable(a),
         Rewrite \/ Recovered \/ \E r \in op.todo : RecoverSave(r)
  PROVE  Usable(a)'
<1>1. PICK t \in valid : /\ t.acct = a /\ ~Consumed(t)
                         /\ t = live \/ t = vault[a] \/ (\E q \in recs : q.new = t)
  BY DEF Usable
<1>2. t \in Token /\ Known(t)
  BY Constants DEF TokensInv, Types, ProviderType, Known
<1>3. ASSUME NEW r \in op.todo, RecoverSave(r) PROVE Usable(a)'
  <2>1. /\ op.pc = "recover" /\ UNCHANGED <<live, recs>>
        /\ vault' = [b \in Accounts |-> IF b = r.acct THEN r.new ELSE vault[b]]
    BY <1>3 DEF RecoverSave, Step
  <2>2. r \in recs
    BY <2>1 DEF TokensInv, Pending
  <2>3. a = r.acct => vault[a] \in r.old \cup {r.new, NoToken}
    BY <1>3, TokensAssumption DEF RecoverSave, Recoverable
  <2>4. t = vault[a] => t = vault'[a]
    BY <1>1, <1>2, <2>1, <2>2, <2>3 DEF Consumed, Known
  <2>5. QED BY <1>1, <2>1, <2>4 DEF Usable, Consumed
<1>4. CASE Rewrite
  <2>1. /\ op.pc = "rewrite" /\ UNCHANGED <<vault, recs>>
        /\ live' = live \/ live = op.seen
    BY <1>4 DEF Rewrite, Step
  <2>2. op.seen \in op.rec.old /\ op.rec \in recs
    BY <2>1 DEF TokensInv, Pending
  <2>3. t = live => live' = live
    BY <1>1, <2>1, <2>2 DEF Consumed
  <2>4. QED BY <1>1, <2>1, <2>3 DEF Usable, Consumed
<1>5. CASE Recovered
  <2>1. /\ op.pc = "recovered" /\ UNCHANGED <<vault, live>>
        /\ recs' = IF op.rec.acct = None THEN recs ELSE recs \ {op.rec}
    BY <1>5 DEF Recovered, Step
  <2>2. op.rec \in recs /\ (op.rec.acct # None => vault[op.rec.acct] = op.rec.new)
    BY <2>1 DEF TokensInv, Pending, Fencing, Phases, AtRewriting, Rewriting
  <2>3. op.rec.new = t /\ op.rec.acct # None => op.rec.acct = a
    BY <1>1, <1>2, <2>2 DEF Fencing, OneAccount, Pairs
  <2>4. t = live \/ t = vault[a] \/ (\E q \in recs' : q.new = t)
    BY <1>1, <2>1, <2>2, <2>3
  <2>5. ~Consumed(t)'
    BY <1>1, <2>1 DEF Consumed
  <2>6. QED BY <1>1, <2>1, <2>4, <2>5 DEF Usable
<1>6. QED BY <1>3, <1>4, <1>5

LEMMA KeptBySave ==
  ASSUME TokensInv, Fencing, valid' = valid, NEW a \in Accounts, Usable(a),
         op.pc = "save" => op.tok \in valid,
         Store \/ Save \/ \E r \in op.todo : SaveRecord(r)
  PROVE  Usable(a)'
<1>1. PICK t \in valid : /\ t.acct = a /\ ~Consumed(t)
                         /\ t = live \/ t = vault[a] \/ (\E q \in recs : q.new = t)
  BY DEF Usable
<1>2. t \in Token /\ Known(t)
  BY Constants DEF TokensInv, Types, ProviderType, Known
<1>3. CASE Store
  <2>1. /\ op.pc = "store" /\ UNCHANGED <<vault, live>>
        /\ recs' = (recs \ {op.rec}) \cup {[op.rec EXCEPT !.new = op.tok]}
        /\ op.rec \in Record
    BY <1>3 DEF Store, Step, TokensInv, Types, OpType, Operation
  <2>2. op.rec \in recs /\ op.rec.new = NoToken
    BY <2>1 DEF Fencing, Phases, AtStore
  <2>3. [op.rec EXCEPT !.new = op.tok].old = op.rec.old
    BY <2>1 DEF Record
  <2>4. ~Consumed(t)'
    BY <1>1, <2>1, <2>2, <2>3 DEF Consumed
  <2>5. QED BY <1>1, <1>2, <2>1, <2>2, <2>4 DEF Usable, Known
<1>4. CASE Save
  <2>1. /\ op.pc = "save" /\ UNCHANGED <<live, recs>> /\ op.id \in Accounts
        /\ vault' = [vault EXCEPT ![op.id] = op.tok] /\ vault \in [Accounts -> Slot]
    BY <1>4 DEF Save, Step, TokensInv, Types, StoreType, OpType
  <2>2. op.tok \in valid /\ op.tok.acct = op.id /\ ~Consumed(op.tok)
    BY <2>1 DEF Fencing, Phases, AtSave, AtCapture
  <2>3. CASE a = op.id
    BY <2>1, <2>2, <2>3 DEF Usable, Consumed
  <2>4. CASE a # op.id
    BY <1>1, <2>1, <2>4 DEF Usable, Consumed
  <2>5. QED BY <2>3, <2>4
<1>5. ASSUME NEW r \in op.todo, SaveRecord(r) PROVE Usable(a)'
  <2> DEFINE n == Supersede(r)
  <2>1. /\ op.pc = "save" /\ UNCHANGED <<vault, live>>
        /\ recs' = recs \/ recs' = (recs \ {r}) \cup {n}
        /\ op.id \in Accounts
    BY <1>5 DEF SaveRecord, Step, TokensInv, Types, OpType
  <2>2. /\ op.tok \in valid /\ op.tok.acct = op.id /\ ~Consumed(op.tok)
        /\ r \in recs /\ r \in Record
    BY <2>1 DEF Fencing, Phases, AtSave, AtCapture, TokensInv, Types, OpType, Operation
  <2>3. CASE recs' = recs
    BY <1>1, <2>1, <2>3 DEF Usable, Consumed
  <2>4. CASE recs' = (recs \ {r}) \cup {n} /\ n # r
    <3>1. /\ r.new = op.tok \/ r.acct = op.id
          /\ n.old \subseteq r.old \cup ({r.new} \ {op.tok}) /\ n.new = op.tok
      BY <2>2, <2>4 DEF Supersede, Record
    <3> HIDE DEF n
    <3>2. CASE a = op.id
      <4>1. \A q \in recs' : op.tok \notin q.old
        BY <2>2, <2>4, <3>1 DEF Consumed
      <4>2. QED BY <2>2, <2>4, <3>1, <3>2, <4>1 DEF Usable, Consumed
    <3>3. CASE a # op.id
      <4>1. t # r.new /\ t # op.tok
        BY <1>1, <1>2, <2>1, <2>2, <3>1, <3>3, TokensAssumption DEF Fencing, OneAccount, Pairs
      <4>2. ~Consumed(t)'
        BY <1>1, <2>2, <2>4, <3>1, <4>1 DEF Consumed
      <4>3. t = live \/ t = vault[a] \/ (\E q \in recs' : q.new = t)
        BY <1>1, <2>4, <4>1
      <4>4. QED BY <1>1, <2>1, <4>2, <4>3 DEF Usable
    <3>4. QED BY <3>2, <3>3
  <2>5. QED BY <2>1, <2>2, <2>3, <2>4
<1>6. QED BY <1>3, <1>4, <1>5

LEMMA KeptByRestore ==
  ASSUME TokensInv, Fencing, valid' = valid, NEW a \in Accounts, Usable(a), Restore, live = op.tok
  PROVE  Usable(a)'
<1>1. PICK t \in valid : /\ t.acct = a /\ ~Consumed(t)
                         /\ t = live \/ t = vault[a] \/ (\E q \in recs : q.new = t)
  BY DEF Usable
<1>2. t \in Token /\ Known(t)
  BY Constants DEF TokensInv, Types, ProviderType, Known
<1>3. op.pc = "restore" /\ UNCHANGED <<vault, recs>>
  BY DEF Restore, Step
<1>4. t = live => t = vault[a]
  BY <1>1, <1>2, <1>3 DEF Fencing, Phases, AtSwitch
<1>5. QED BY <1>1, <1>3, <1>4 DEF Usable, Consumed

(* saveClaudeBlob, recoverClaudeLocked and the restore of a switch: under the
   same condition no step drops the last usable pair of an account. *)
THEOREM LastUsablePairKept == Spec /\ [][~UndoesFencing]_vars => KeepsLast
<1>1. TokensInv /\ Fencing /\ [Next]_vars =>
        [ /\ op' # op /\ op.pc # "intent" /\ valid' = valid
          /\ op.pc = "save" => op.tok \in valid
          /\ op.pc = "restore" => live = op.tok
          => \A a \in Accounts : Usable(a) => Usable(a)' ]_vars
  <2> SUFFICES ASSUME TokensInv, Fencing, Next, op' # op, op.pc # "intent", valid' = valid,
                      op.pc = "save" => op.tok \in valid, op.pc = "restore" => live = op.tok,
                      NEW a \in Accounts, Usable(a)
               PROVE  Usable(a)'
    OBVIOUS
  <2>1. CASE UNCHANGED Stores
    BY <2>1 DEF Stores, Usable, Consumed
  <2>2. CASE ~UNCHANGED Stores
    <3>1. \/ Rewrite \/ Recovered \/ Store \/ Save \/ Restore
          \/ \E r \in op.todo : RecoverSave(r) \/ SaveRecord(r)
      BY <2>2 DEF Next, Work, RecoveryStep, Step, Outside, RecoverSkip, RecoverRefused,
                  Writeback, RecoverDone, NotDue, Look, Intent, Exchange, CaptureRead, Profile,
                  Fails, StartCapture, StartKeepAlive, StartSwitch, StartEnroll, CliStart,
                  CliExit, CliRotate, CliLogin, CliLogout
    <3>2. Restore => op.pc = "restore"
      BY DEF Restore, Step
    <3>3. QED BY <3>1, <3>2, KeptByRecovery, KeptBySave, KeptByRestore
  <2>3. QED BY <2>1, <2>2
<1>2. QED BY <1>1, FencingInvariant, PTL DEF Spec, KeepsLast
=============================================================================
