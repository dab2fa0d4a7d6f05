-------------------------------- MODULE JobProofs -------------------------------
(***************************************************************************)
(* Proofs about the jobs that act on a target: the tokens of AuthTokens,   *)
(* the sends of ScanJobs, and the plans of Generation that SecurityRun     *)
(* runs (PlannedTests).                                                    *)
(***************************************************************************)
EXTENDS AuthTokens, ScanJobs, PlannedTests, Descent, FiniteSetTheorems, TLAPS

-------------------------------------------------------------------------------
(* AuthTokens                                                                *)

Places == {"free", "flow", "copy", "steps", "answered", "failed"}

CallerRecords == [at : Places, flow : 0..MaxFlows, login : 0..MaxLogins, step : 0..LoginSteps, got : SUBSET Tokens]

CallersTyped == caller \in [Callers -> CallerRecords]

\* No login is known that was not begun, and no two callers run the same one.
LoginsApart ==
  /\ \A c \in Callers : caller[c].login <= logins
  /\ \A t \in current_tokens : t.login <= logins
  /\ \A c, d \in Callers : c # d /\ caller[c].login = caller[d].login => caller[c].login = 0

\* A login under way gathers the tokens of its own flow and login.
OwnTokens ==
  \A c \in Callers : caller[c].at = "steps" =>
    /\ caller[c].login >= 1 /\ caller[c].flow >= 1
    /\ \A t \in caller[c].got : t.login = caller[c].login /\ t.flow = caller[c].flow

\* Who still has the login of the tokens kept has been answered with them.
KeptIsAnswered ==
  \A t \in current_tokens : \A c \in Callers :
    caller[c].login = t.login => caller[c].at = "answered"

\* Unless a flow was set meanwhile, what runs is the login of the flow that is set.
FlowInStep == ~outdated => \A c \in Callers : caller[c].at = "steps" => caller[c].flow = login_flow

\* Who is about to run the flow holds no token yet.
NothingBefore == \A c \in Callers : caller[c].at = "flow" => caller[c].got = {}

AuthVarsTyped ==
  /\ login_flow \in 0..MaxFlows /\ current_tokens \subseteq Tokens /\ logins \in 0..MaxLogins
  /\ clearing \in BOOLEAN /\ outdated \in BOOLEAN

AuthInv ==
  /\ AuthVarsTyped /\ CallersTyped /\ LoginsApart /\ OwnTokens /\ KeptIsAnswered /\ FlowInStep
  /\ NothingBefore /\ TokensOfOneLogin /\ TokensOfTheFlow

\* What is known of a token.
LEMMA TokenTyped == \A t \in Tokens : t.flow \in 1..MaxFlows /\ t.login \in 1..MaxLogins
BY DEF Tokens

\* The invariant implies what is checked.
LEMMA AuthImplies == AuthInv => TokensMatch
<1> SUFFICES ASSUME AuthInv PROVE TokensMatch
  OBVIOUS
<1>1. AuthTypeOK
  BY DEF AuthInv, AuthVarsTyped, CallersTyped, CallerRecords, AuthTypeOK
<1>2. OnlyFinishedLogins
  BY DEF AuthInv, KeptIsAnswered, OnlyFinishedLogins
<1> QED
  BY <1>1, <1>2 DEF AuthInv, TokensMatch

\* The invariant holds before the first login.
LEMMA AuthInitially == AuthInit => AuthInv
<1> SUFFICES ASSUME AuthInit PROVE AuthInv
  OBVIOUS
<1>1. \A c \in Callers : caller[c] = Free
  BY DEF AuthInit
<1>2. AuthVarsTyped
  <2>1. 0 \in 0..MaxFlows /\ 0 \in 0..MaxLogins
    BY AuthAssumption
  <2> QED
    BY <2>1 DEF AuthInit, AuthVarsTyped
<1>3. Free \in CallerRecords
  BY AuthAssumption DEF Free, Places, CallerRecords
<1>4. CallersTyped
  BY <1>3 DEF AuthInit, CallersTyped
<1>5. LoginsApart /\ OwnTokens /\ KeptIsAnswered /\ FlowInStep /\ NothingBefore
  BY <1>1 DEF AuthInit, Free, NothingBefore, LoginsApart, OwnTokens, KeptIsAnswered, FlowInStep
<1>6. TokensOfOneLogin /\ TokensOfTheFlow
  BY <1>1 DEF AuthInit, Free, TokensOfOneLogin, TokensOfTheFlow
<1> QED
  BY <1>2, <1>4, <1>5, <1>6 DEF AuthInv

\* Setting a flow leaves the callers alone.
LEMMA SetFlowStep == AuthInv /\ SetFlow => AuthInv'
<1> SUFFICES ASSUME AuthInv, SetFlow PROVE AuthInv'
  OBVIOUS
<1>1. UNCHANGED <<current_tokens, caller, logins>> /\ clearing' = TRUE /\ login_flow' \in 0..MaxFlows
  BY AuthAssumption DEF SetFlow, AuthInv, AuthVarsTyped
<1>2. outdated' \in BOOLEAN /\ (~outdated' => \A c \in Callers : caller[c].at # "steps")
  BY DEF SetFlow, AuthInv, AuthVarsTyped
<1>3. AuthVarsTyped' /\ CallersTyped'
  BY <1>1, <1>2 DEF AuthInv, AuthVarsTyped, CallersTyped
<1>4. LoginsApart' /\ OwnTokens' /\ KeptIsAnswered' /\ NothingBefore' /\ TokensOfOneLogin'
  BY <1>1 DEF NothingBefore, AuthInv, LoginsApart, OwnTokens, KeptIsAnswered, TokensOfOneLogin
<1>5. FlowInStep' /\ TokensOfTheFlow'
  BY <1>1, <1>2 DEF FlowInStep, TokensOfTheFlow
<1> QED
  BY <1>3, <1>4, <1>5 DEF AuthInv

\* With the tokens gone, nothing kept can be of a wrong login.
LEMMA ClearTokensStep == AuthInv /\ ClearTokens => AuthInv'
<1> SUFFICES ASSUME AuthInv, ClearTokens PROVE AuthInv'
  OBVIOUS
<1>1. current_tokens' = {} /\ clearing' = FALSE /\ UNCHANGED <<login_flow, caller, logins, outdated>>
  BY DEF ClearTokens
<1>2. AuthVarsTyped' /\ CallersTyped'
  BY <1>1 DEF AuthInv, AuthVarsTyped, CallersTyped
<1>3. LoginsApart' /\ OwnTokens' /\ KeptIsAnswered' /\ FlowInStep' /\ NothingBefore'
  BY <1>1 DEF NothingBefore, AuthInv, LoginsApart, OwnTokens, KeptIsAnswered, FlowInStep
<1>4. TokensOfOneLogin' /\ TokensOfTheFlow'
  BY <1>1 DEF AuthInv, TokensOfOneLogin, TokensOfTheFlow
<1> QED
  BY <1>2, <1>3, <1>4 DEF AuthInv

\* A caller that moves without a login under way, and without a change of anything else, keeps
\* the invariant, when what it holds is nothing or is the tokens kept.
LEMMA CallerMoves ==
  ASSUME AuthInv, NEW c \in Callers, NEW new,
         caller' = [caller EXCEPT ![c] = new],
         new \in CallerRecords,
         new.login = 0 \/ new.login = caller[c].login,
         new.at # "steps",
         caller[c].login # 0 => new.at = "answered" \/ caller[c].at # "answered" \/ new.login = 0,
         new.at # "flow" \/ new.got = {},
         new.got = {} \/ new.got = current_tokens \/ new.got = caller[c].got,
         UNCHANGED <<login_flow, current_tokens, clearing, logins, outdated>>
  PROVE  AuthInv'
<1>1. caller'[c] = new /\ \A d \in Callers : d # c => caller'[d] = caller[d]
  BY DEF AuthInv, CallersTyped
<1>2. AuthVarsTyped'
  BY DEF AuthInv, AuthVarsTyped
<1>3. CallersTyped'
  BY DEF AuthInv, CallersTyped
<1>4. LoginsApart'
  BY <1>1, AuthAssumption DEF AuthInv, LoginsApart, AuthVarsTyped, CallersTyped
<1>5. OwnTokens' /\ FlowInStep' /\ NothingBefore'
  BY <1>1 DEF NothingBefore, AuthInv, OwnTokens, FlowInStep
<1>6. KeptIsAnswered'
  <2> SUFFICES ASSUME NEW t \in current_tokens, NEW d \in Callers, caller'[d].login = t.login
               PROVE  caller'[d].at = "answered"
    BY DEF KeptIsAnswered
  <2>1. t.login # 0
    BY TokenTyped DEF AuthInv, AuthVarsTyped
  <2>2. CASE d = c
    BY <1>1, <2>1, <2>2 DEF AuthInv, KeptIsAnswered
  <2>3. CASE d # c
    BY <1>1, <2>3 DEF AuthInv, KeptIsAnswered
  <2> QED
    BY <2>2, <2>3
<1>7. TokensOfOneLogin' /\ TokensOfTheFlow'
  BY <1>1 DEF AuthInv, TokensOfOneLogin, TokensOfTheFlow
<1> QED
  BY <1>2, <1>3, <1>4, <1>5, <1>6, <1>7 DEF AuthInv

\* A login that begins has a number of its own and no token.
LEMMA TakeFlowStep == ASSUME AuthInv, NEW c \in Callers, TakeFlow(c) PROVE AuthInv'
<1> DEFINE new == [caller[c] EXCEPT !.at = "steps", !.flow = login_flow, !.login = logins']
<1>0. caller[c] \in CallerRecords
  BY DEF AuthInv, CallersTyped
<1>1. CASE login_flow = 0
  <2>1. caller' = [caller EXCEPT ![c] = [caller[c] EXCEPT !.at = "failed"]]
    BY <1>1 DEF TakeFlow
  <2>2. UNCHANGED <<login_flow, current_tokens, clearing, logins, outdated>> /\ caller[c].at = "flow"
    BY <1>1 DEF TakeFlow
  <2> DEFINE failed == [caller[c] EXCEPT !.at = "failed"]
  <2>3. /\ failed \in CallerRecords
        /\ failed.login = caller[c].login /\ failed.at = "failed" /\ failed.got = caller[c].got
    BY <1>0 DEF Places, CallerRecords
  <2> QED
    BY <2>1, <2>2, <2>3, CallerMoves
<1>2. CASE login_flow # 0
  <2>1. /\ logins' = logins + 1 /\ logins < MaxLogins /\ caller[c].at = "flow"
        /\ caller' = [caller EXCEPT ![c] = new] /\ UNCHANGED <<login_flow, current_tokens, clearing, outdated>>
    BY <1>2 DEF TakeFlow
  <2>2. logins \in Nat /\ logins' \in 1..MaxLogins /\ login_flow \in 1..MaxFlows
    BY <1>2, <2>1, AuthAssumption DEF AuthInv, AuthVarsTyped
  <2>3. /\ new \in CallerRecords
        /\ new.login = logins + 1 /\ new.at = "steps" /\ new.flow = login_flow /\ new.got = caller[c].got
    <3>1. logins' \in 0..MaxLogins /\ login_flow \in 0..MaxFlows /\ "steps" \in Places
      BY <2>2, AuthAssumption DEF Places
    <3>2. new \in CallerRecords
      BY <1>0, <3>1 DEF CallerRecords
    <3> QED
      BY <1>0, <2>1, <3>2 DEF CallerRecords
  <2> HIDE DEF new
  <2>4. caller'[c] = new /\ \A d \in Callers : d # c => caller'[d] = caller[d]
    BY <2>1 DEF AuthInv, CallersTyped
  <2>5. AuthVarsTyped' /\ CallersTyped'
    BY <2>1, <2>2, <2>3 DEF AuthInv, AuthVarsTyped, CallersTyped
  <2>6. LoginsApart'
    <3>1. \A d \in Callers : caller[d].login \in Nat /\ caller[d].login <= logins
      BY DEF AuthInv, LoginsApart, CallersTyped, CallerRecords
    <3>2. \A t \in current_tokens : t.login \in Nat /\ t.login <= logins
      BY TokenTyped DEF AuthInv, LoginsApart, AuthVarsTyped
    <3>3. \A d, e \in Callers : d # e /\ caller[d].login = caller[e].login => caller[d].login = 0
      BY DEF AuthInv, LoginsApart
    <3> QED
      BY <2>1, <2>2, <2>3, <2>4, <3>1, <3>2, <3>3 DEF LoginsApart
  <2>7. caller[c].got = {}
    BY <2>1 DEF AuthInv, NothingBefore
  <2>8. OwnTokens' /\ FlowInStep'
    BY <2>1, <2>2, <2>3, <2>4, <2>7 DEF AuthInv, OwnTokens, FlowInStep
  <2>9. KeptIsAnswered'
    <3>1. \A t \in current_tokens : t.login \in Nat /\ t.login <= logins
      BY TokenTyped DEF AuthInv, LoginsApart, AuthVarsTyped
    <3> QED
      BY <2>1, <2>2, <2>3, <2>4, <3>1 DEF AuthInv, KeptIsAnswered
  <2>10. TokensOfOneLogin' /\ TokensOfTheFlow'
    BY <2>1, <2>3, <2>4 DEF AuthInv, TokensOfOneLogin, TokensOfTheFlow
  <2>11. NothingBefore'
    BY <2>3, <2>4 DEF AuthInv, NothingBefore
  <2> QED
    BY <2>5, <2>6, <2>8, <2>9, <2>10, <2>11 DEF AuthInv
<1> QED
  BY <1>1, <1>2

\* A step adds a token of its own login, or ends the login.
LEMMA LoginStepKeeps == ASSUME AuthInv, NEW c \in Callers, LoginStep(c) PROVE AuthInv'
<1>0. caller[c] \in CallerRecords
  BY DEF AuthInv, CallersTyped
<1>1. UNCHANGED <<login_flow, current_tokens, clearing, logins, outdated>> /\ caller[c].at = "steps" /\ caller[c].step < LoginSteps
  BY DEF LoginStep
<1>2. CASE caller' = [caller EXCEPT ![c].at = "failed"]
  <2> DEFINE failed == [caller[c] EXCEPT !.at = "failed"]
  <2>1. caller' = [caller EXCEPT ![c] = failed]
    BY <1>2
  <2>2. /\ failed \in CallerRecords
        /\ failed.login = caller[c].login /\ failed.at = "failed" /\ failed.got = caller[c].got
    BY <1>0 DEF Places, CallerRecords
  <2> QED
    BY <1>1, <2>1, <2>2, CallerMoves
<1>3. ASSUME NEW more \in SUBSET {[flow |-> caller[c].flow, login |-> caller[c].login, step |-> caller[c].step + 1]},
             caller' = [caller EXCEPT ![c] = [@ EXCEPT !.step = caller[c].step + 1, !.got = caller[c].got \cup more]]
      PROVE  AuthInv'
  <2> DEFINE new == [caller[c] EXCEPT !.step = caller[c].step + 1, !.got = caller[c].got \cup more]
  <2>1. caller' = [caller EXCEPT ![c] = new]
    BY <1>3
  <2>2. caller[c].login >= 1 /\ caller[c].flow >= 1
    BY <1>1 DEF AuthInv, OwnTokens
  <2> DEFINE fresh == [flow |-> caller[c].flow, login |-> caller[c].login, step |-> caller[c].step + 1]
  <2>31. caller[c].flow \in 1..MaxFlows /\ caller[c].login \in 1..MaxLogins /\ caller[c].step + 1 \in 1..LoginSteps
    BY <1>0, <1>1, <2>2, AuthAssumption DEF CallerRecords
  <2>32. fresh \in Tokens /\ fresh.login = caller[c].login /\ fresh.flow = caller[c].flow
    BY <2>31 DEF Tokens
  <2>33. \A t \in more : t = fresh
    OBVIOUS
  <2> HIDE DEF fresh
  <2>3. more \subseteq Tokens /\ \A t \in more : t.login = caller[c].login /\ t.flow = caller[c].flow
    BY <2>32, <2>33
  <2>4. /\ new \in CallerRecords
        /\ new.login = caller[c].login /\ new.at = "steps" /\ new.flow = caller[c].flow /\ new.got = caller[c].got \cup more
    <3>1. /\ caller[c] \in [at : Places, flow : 0..MaxFlows, login : 0..MaxLogins, step : 0..LoginSteps, got : SUBSET Tokens]
          /\ caller[c].step + 1 \in 0..LoginSteps /\ caller[c].got \cup more \subseteq Tokens
      BY <1>0, <2>3, <2>31, AuthAssumption DEF CallerRecords
    <3>2. /\ new.login = caller[c].login /\ new.at = caller[c].at /\ new.flow = caller[c].flow
          /\ new.got = caller[c].got \cup more /\ new.step = caller[c].step + 1
      BY <3>1
    <3>3. new \in CallerRecords
      BY <3>1 DEF CallerRecords
    <3> QED
      BY <1>1, <3>2, <3>3
  <2> HIDE DEF new
  <2>5. caller'[c] = new /\ \A d \in Callers : d # c => caller'[d] = caller[d]
    BY <2>1 DEF AuthInv, CallersTyped
  <2>6. AuthVarsTyped' /\ CallersTyped'
    BY <1>1, <2>1, <2>4 DEF AuthInv, AuthVarsTyped, CallersTyped
  <2>7. LoginsApart'
    BY <1>1, <2>4, <2>5 DEF AuthInv, LoginsApart
  <2>8. OwnTokens' /\ FlowInStep'
    BY <1>1, <2>2, <2>3, <2>4, <2>5 DEF AuthInv, OwnTokens, FlowInStep
  <2>9. KeptIsAnswered' /\ NothingBefore'
    BY <1>1, <2>4, <2>5 DEF AuthInv, KeptIsAnswered, NothingBefore
  <2>10. TokensOfOneLogin' /\ TokensOfTheFlow'
    <3>1. \A s, t \in new.got : s.login = t.login
      BY <1>1, <2>3, <2>4 DEF AuthInv, OwnTokens
    <3> QED
      BY <1>1, <2>5, <3>1 DEF AuthInv, TokensOfOneLogin, TokensOfTheFlow
  <2> QED
    BY <2>6, <2>7, <2>8, <2>9, <2>10 DEF AuthInv
<1> QED
  BY <1>2, <1>3 DEF LoginStep

\* The tokens that are kept are those of the login that stores them.
LEMMA StoreTokensStep == ASSUME AuthInv, NEW c \in Callers, StoreTokens(c) PROVE AuthInv'
<1> DEFINE new == [caller[c] EXCEPT !.at = "answered"]
<1>0. caller[c] \in CallerRecords
  BY DEF AuthInv, CallersTyped
<1>1. /\ caller[c].at = "steps" /\ current_tokens' = caller[c].got /\ caller' = [caller EXCEPT ![c] = new]
      /\ UNCHANGED <<login_flow, clearing, logins, outdated>>
  BY DEF StoreTokens
<1>2. /\ new \in CallerRecords
      /\ new.login = caller[c].login /\ new.at = "answered" /\ new.got = caller[c].got
  BY <1>0 DEF Places, CallerRecords
<1> HIDE DEF new
<1>3. caller'[c] = new /\ \A d \in Callers : d # c => caller'[d] = caller[d]
  BY <1>1 DEF AuthInv, CallersTyped
<1>4. /\ caller[c].login >= 1 /\ caller[c].login <= logins
      /\ \A t \in current_tokens' : t.login = caller[c].login /\ t.flow = caller[c].flow
  BY <1>1 DEF AuthInv, OwnTokens, LoginsApart
<1>5. AuthVarsTyped' /\ CallersTyped'
  BY <1>0, <1>1, <1>2 DEF AuthInv, AuthVarsTyped, CallersTyped, CallerRecords
<1>6. LoginsApart'
  BY <1>1, <1>2, <1>3, <1>4 DEF AuthInv, LoginsApart
<1>7. OwnTokens' /\ FlowInStep' /\ NothingBefore'
  BY <1>1, <1>2, <1>3 DEF AuthInv, OwnTokens, FlowInStep, NothingBefore
<1>8. KeptIsAnswered'
  <2> SUFFICES ASSUME NEW t \in current_tokens', NEW d \in Callers, caller'[d].login = t.login
               PROVE  caller'[d].at = "answered"
    BY DEF KeptIsAnswered
  <2>1. caller[c].login # 0 /\ t.login = caller[c].login
    BY <1>0, <1>4
  <2>2. d = c
    BY <1>2, <1>3, <2>1 DEF AuthInv, LoginsApart
  <2> QED
    BY <1>2, <1>3, <2>2
<1>9. TokensOfOneLogin'
  BY <1>2, <1>3, <1>4, <1>1 DEF AuthInv, TokensOfOneLogin
<1>10. TokensOfTheFlow'
  BY <1>1, <1>4 DEF AuthInv, FlowInStep, TokensOfTheFlow
<1> QED
  BY <1>5, <1>6, <1>7, <1>8, <1>9, <1>10 DEF AuthInv

\* No step of a caller or of set_login_flow breaks the invariant.
LEMMA AuthStep == AuthInv /\ [AuthNext]_authVars => AuthInv'
<1> SUFFICES ASSUME AuthInv, [AuthNext]_authVars PROVE AuthInv'
  OBVIOUS
<1>1. CASE SetFlow
  BY <1>1, SetFlowStep
<1>2. CASE ClearTokens
  BY <1>2, ClearTokensStep
<1>3. ASSUME NEW c \in Callers, EnsureAuth(c) \/ CallerStep(c) PROVE AuthInv'
  <2>0. caller[c] \in CallerRecords
    BY DEF AuthInv, CallersTyped
  <2>1. CASE EnsureAuth(c)
    <3> DEFINE new == [Free EXCEPT !.at = IF current_tokens = {} THEN "flow" ELSE "copy"]
    <3>1. caller' = [caller EXCEPT ![c] = new] /\ UNCHANGED <<login_flow, current_tokens, clearing, logins, outdated>>
      BY <2>1 DEF EnsureAuth
    <3>2. new \in CallerRecords /\ new.login = 0 /\ new.got = {} /\ new.at # "steps"
      BY AuthAssumption DEF Free, Places, CallerRecords
    <3> QED
      BY <3>1, <3>2, CallerMoves
  <2>2. CASE CopyTokens(c)
    <3> DEFINE new == [caller[c] EXCEPT !.at = "answered", !.got = current_tokens]
    <3>1. caller' = [caller EXCEPT ![c] = new] /\ UNCHANGED <<login_flow, current_tokens, clearing, logins, outdated>>
      BY <2>2 DEF CopyTokens
    <3>2. new \in CallerRecords /\ new.login = caller[c].login /\ new.got = current_tokens /\ new.at = "answered"
      BY <2>0 DEF Places, CallerRecords, AuthInv, AuthVarsTyped
    <3> QED
      BY <3>1, <3>2, CallerMoves
  <2>3. CASE TakeFlow(c)
    BY <2>3, TakeFlowStep
  <2>4. CASE LoginStep(c)
    BY <2>4, LoginStepKeeps
  <2>5. CASE StoreTokens(c)
    BY <2>5, StoreTokensStep
  <2>6. CASE Replayed(c)
    <3>1. caller' = [caller EXCEPT ![c] = Free] /\ UNCHANGED <<login_flow, current_tokens, clearing, logins, outdated>>
      BY <2>6 DEF Replayed
    <3>2. Free \in CallerRecords /\ Free.login = 0 /\ Free.got = {} /\ Free.at = "free"
      BY AuthAssumption DEF Free, Places, CallerRecords
    <3> QED
      BY <3>1, <3>2, CallerMoves
  <2> QED
    BY <1>3, <2>1, <2>2, <2>3, <2>4, <2>5, <2>6 DEF CallerStep
<1>4. CASE UNCHANGED authVars
  BY <1>4 DEF authVars, AuthInv, AuthVarsTyped, CallersTyped, LoginsApart, OwnTokens, KeptIsAnswered, FlowInStep,
              NothingBefore, TokensOfOneLogin, TokensOfTheFlow
<1> QED
  BY <1>1, <1>2, <1>3, <1>4 DEF AuthNext

\* However many callers log in at once and whenever the flow is changed, the tokens of two
\* logins are never mixed, and no login that failed leaves a token (AuthManager).
THEOREM TokensNeverMixed == AuthSpec => []TokensMatch
BY AuthInitially, AuthStep, AuthImplies, PTL DEF AuthSpec

-------------------------------------------------------------------------------
(* ScanJobs                                                                  *)

\* Where a worker, and where a job, can be.
WorkerPlaces == {"off", "check", "fetch", "budget", "dedup", "pace", "send", "exit"}
Phases == {"new", "submitted", "running", "finished", "published", "done", "failed"}

ScanTyped ==
  /\ phase \in [ScanIds -> Phases] /\ plan \in [ScanIds -> Seq(Requests)]
  /\ cursor \in [ScanIds -> Nat] /\ remaining \in [ScanIds -> Nat]
  /\ worker \in [ScanIds -> [ScanWorkers -> WorkerPlaces]]
  /\ hand \in [ScanIds -> [ScanWorkers -> Nat]] /\ lateSends \in [ScanIds -> [ScanWorkers -> Nat]]
  /\ admitted \in [ScanIds -> Seq(Nat)]

\* Job j gives out each mutation once: no two workers have the same, and what a worker is about
\* to send is in the plan, in the scope and not sent.
GivenOnce(j) ==
  /\ \A w \in ScanWorkers : hand[j][w] <= cursor[j]
  /\ \A v, w \in ScanWorkers : v # w /\ hand[j][v] = hand[j][w] => hand[j][v] = 0
  /\ \A w \in ScanWorkers : worker[j][w] \in {"budget", "dedup"} =>
       /\ hand[j][w] \in 1..Len(plan[j]) /\ plan[j][hand[j][w]] \notin OffScope
       /\ \A i \in 1..Len(admitted[j]) : admitted[j][i] # hand[j][w]

\* What was sent was given out, is in the plan and in the scope, and is not repeated.
SentFromPlan(j) ==
  /\ \A i \in 1..Len(admitted[j]) :
       /\ admitted[j][i] <= cursor[j] /\ admitted[j][i] \in 1..Len(plan[j])
       /\ plan[j][admitted[j][i]] \notin OffScope
  /\ \A i, k \in 1..Len(admitted[j]) : i # k => admitted[j][i] # admitted[j][k]

\* What is left of the budget, what was sent and what is about to be sent make up at most all of it.
Deduping(j) == {w \in ScanWorkers : worker[j][w] = "dedup"}
BudgetShared(j) == remaining[j] + Len(admitted[j]) + Cardinality(Deduping(j)) <= ScanBudget

\* Whoever has sent after a cancel cannot come to another send.
LateOnce(j) ==
  \A w \in ScanWorkers : lateSends[j][w] > 0 =>
    lateSends[j][w] = 1 /\ j \in cancelled /\ worker[j][w] \in {"send", "check", "exit"}

ScanInv ==
  /\ ScanTyped /\ TokensLive
  /\ \A j \in ScanIds : GivenOnce(j) /\ SentFromPlan(j) /\ BudgetShared(j) /\ LateOnce(j)

\* The set of workers about to look at the fingerprints is finite.
LEMMA DedupingFinite == \A j \in ScanIds : IsFiniteSet(Deduping(j)) /\ Cardinality(Deduping(j)) \in Nat
<1>1. \A j \in ScanIds : Deduping(j) \subseteq ScanWorkers
  BY DEF Deduping
<1> QED
  BY <1>1, ScanAssumption, FS_Subset, FS_CardinalityType

\* The invariant implies what is to be shown.
LEMMA ScanImplies == ScanInv => TokensLive /\ SentOnce /\ WithinBudget /\ CancelIsPrompt
<1> SUFFICES ASSUME ScanInv PROVE TokensLive /\ SentOnce /\ WithinBudget /\ CancelIsPrompt
  OBVIOUS
<1>1. SentOnce
  <2> SUFFICES ASSUME NEW j \in ScanIds, NEW i \in DOMAIN admitted[j]
               PROVE  /\ plan[j][admitted[j][i]] \notin OffScope
                      /\ \A k \in 1..(i - 1) : admitted[j][k] # admitted[j][i]
    BY DEF SentOnce
  <2>1. admitted[j] \in Seq(Nat) /\ SentFromPlan(j)
    BY DEF ScanInv, ScanTyped
  <2>2. i \in 1..Len(admitted[j]) /\ \A k \in 1..(i - 1) : k \in 1..Len(admitted[j]) /\ k # i
    BY <2>1
  <2> QED
    BY <2>1, <2>2 DEF SentFromPlan
<1>2. WithinBudget
  <2> SUFFICES ASSUME NEW j \in ScanIds
               PROVE  Len(admitted[j]) + Cardinality(Deduping(j)) <= ScanBudget
    BY DEF WithinBudget, Deduping
  <2>1. remaining[j] \in Nat /\ admitted[j] \in Seq(Nat) /\ BudgetShared(j)
    BY DEF ScanInv, ScanTyped
  <2>2. Len(admitted[j]) \in Nat /\ Cardinality(Deduping(j)) \in Nat /\ ScanBudget \in Nat
    BY <2>1, DedupingFinite, ScanAssumption
  <2> QED
    BY <2>1, <2>2 DEF BudgetShared
<1>3. CancelIsPrompt
  <2> SUFFICES ASSUME NEW j \in ScanIds, NEW w \in ScanWorkers PROVE lateSends[j][w] <= 1
    BY DEF CancelIsPrompt
  <2>1. lateSends[j][w] \in Nat /\ (lateSends[j][w] > 0 => lateSends[j][w] = 1)
    BY DEF ScanInv, ScanTyped, LateOnce
  <2> QED
    BY <2>1
<1> QED
  BY <1>1, <1>2, <1>3 DEF ScanInv

\* The invariant holds before the first job is submitted.
LEMMA ScanInitially == ScanInit => ScanInv
<1> SUFFICES ASSUME ScanInit PROVE ScanInv
  OBVIOUS
<1>1. ScanTyped
  <2>1. ScanBudget \in Nat /\ \A p \in Plans : p \in Seq(Requests)
    BY ScanAssumption
  <2>2. plan \in [ScanIds -> Seq(Requests)]
    BY <2>1 DEF ScanInit
  <2>3. phase \in [ScanIds -> Phases] /\ cursor \in [ScanIds -> Nat] /\ remaining \in [ScanIds -> Nat]
    BY <2>1 DEF ScanInit, Phases
  <2>4. /\ worker \in [ScanIds -> [ScanWorkers -> WorkerPlaces]]
        /\ hand \in [ScanIds -> [ScanWorkers -> Nat]] /\ lateSends \in [ScanIds -> [ScanWorkers -> Nat]]
    BY DEF ScanInit, WorkerPlaces
  <2>5. admitted \in [ScanIds -> Seq(Nat)]
    BY DEF ScanInit
  <2> QED
    BY <2>2, <2>3, <2>4, <2>5 DEF ScanTyped
<1>2. TokensLive
  BY DEF ScanInit, TokensLive
<1>3. ASSUME NEW j \in ScanIds PROVE GivenOnce(j) /\ SentFromPlan(j) /\ LateOnce(j)
  BY DEF ScanInit, GivenOnce, SentFromPlan, LateOnce
<1>4. ASSUME NEW j \in ScanIds PROVE BudgetShared(j)
  <2>1. Deduping(j) = {}
    BY DEF ScanInit, Deduping
  <2>2. Cardinality(Deduping(j)) = 0
    BY <2>1, FS_EmptySet
  <2>3. remaining[j] = ScanBudget /\ Len(admitted[j]) = 0
    BY DEF ScanInit
  <2> QED
    BY <2>2, <2>3, ScanAssumption DEF BudgetShared
<1> QED
  BY <1>1, <1>2, <1>3, <1>4 DEF ScanInv

\* The shape of a worker's step: which places of the variables it may write.
LEMMA WorkerShape ==
  ASSUME NEW j \in ScanIds, NEW w \in ScanWorkers, WorkerStep(j, w)
  PROVE  /\ UNCHANGED <<phase, plan, tokens, cancelled>>
         /\ worker' = worker \/ \E e \in WorkerPlaces : worker' = [worker EXCEPT ![j][w] = e]
         /\ \/ UNCHANGED <<cursor, hand>>
            \/ hand' = [hand EXCEPT ![j][w] = cursor[j] + 1] /\ cursor' = [cursor EXCEPT ![j] = cursor[j] + 1]
         /\ remaining' = remaining \/ (remaining[j] > 0 /\ remaining' = [remaining EXCEPT ![j] = remaining[j] - 1])
         /\ admitted' = admitted \/ admitted' = [admitted EXCEPT ![j] = Append(admitted[j], hand[j][w])]
         /\ \/ lateSends' = lateSends
            \/ lateSends' = [lateSends EXCEPT ![j][w] = IF j \in cancelled THEN lateSends[j][w] + 1 ELSE lateSends[j][w]]
<1>1. \A e \in {"check", "fetch", "budget", "dedup", "pace", "send", "exit"} : e \in WorkerPlaces
  BY DEF WorkerPlaces
<1>2. CASE CheckCancel(j, w)
  <2>1. UNCHANGED <<phase, plan, tokens, cancelled, cursor, hand, remaining, admitted, lateSends>>
    BY <1>2 DEF CheckCancel, workFrame, jobVars
  <2>2. worker' = [worker EXCEPT ![j][w] = "exit"] \/ worker' = [worker EXCEPT ![j][w] = "fetch"]
    BY <1>2 DEF CheckCancel, Exits, Works
  <2> QED
    BY <1>1, <2>1, <2>2
<1>3. CASE Fetch(j, w)
  <2>1. UNCHANGED <<phase, plan, tokens, cancelled, remaining, admitted, lateSends>>
    BY <1>3 DEF Fetch, workFrame, jobVars
  <2>2. hand' = [hand EXCEPT ![j][w] = cursor[j] + 1] /\ cursor' = [cursor EXCEPT ![j] = cursor[j] + 1]
    BY <1>3 DEF Fetch
  <2>3. worker' = [worker EXCEPT ![j][w] = "exit"] \/ worker' = [worker EXCEPT ![j][w] = "budget"]
    BY <1>3 DEF Fetch, Exits, Works
  <2> QED
    BY <1>1, <2>1, <2>2, <2>3
<1>4. CASE TakeBudget(j, w)
  <2>1. UNCHANGED <<phase, plan, tokens, cancelled, cursor, hand, admitted, lateSends>>
    BY <1>4 DEF TakeBudget, workFrame, jobVars
  <2>2. remaining' = remaining \/ (remaining[j] > 0 /\ remaining' = [remaining EXCEPT ![j] = remaining[j] - 1])
    BY <1>4 DEF TakeBudget
  <2>3. worker' = [worker EXCEPT ![j][w] = "exit"] \/ worker' = [worker EXCEPT ![j][w] = "dedup"]
    BY <1>4 DEF TakeBudget, Exits, Works
  <2> QED
    BY <1>1, <2>1, <2>2, <2>3
<1>5. CASE FirstSeen(j, w)
  <2>1. UNCHANGED <<phase, plan, tokens, cancelled, cursor, hand, remaining, lateSends>>
    BY <1>5 DEF FirstSeen, workFrame, jobVars
  <2>2. admitted' = admitted \/ admitted' = [admitted EXCEPT ![j] = Append(admitted[j], hand[j][w])]
    BY <1>5 DEF FirstSeen
  <2>3. worker' = [worker EXCEPT ![j][w] = "check"] \/ worker' = [worker EXCEPT ![j][w] = "pace"]
    BY <1>5 DEF FirstSeen, Works
  <2> QED
    BY <1>1, <2>1, <2>2, <2>3
<1>6. CASE Pace(j, w)
  <2>1. UNCHANGED <<phase, plan, tokens, cancelled, cursor, hand, remaining, admitted>>
    BY <1>6 DEF Pace, workFrame, jobVars, sharedVars
  <2>2. lateSends' = [lateSends EXCEPT ![j][w] = IF j \in cancelled THEN lateSends[j][w] + 1 ELSE lateSends[j][w]]
    BY <1>6 DEF Pace
  <2>3. worker' = [worker EXCEPT ![j][w] = "send"]
    BY <1>6 DEF Pace, Works
  <2> QED
    BY <1>1, <2>1, <2>2, <2>3
<1>7. CASE Execute(j, w)
  <2>1. UNCHANGED <<phase, plan, tokens, cancelled, cursor, hand, remaining, admitted, lateSends>>
    BY <1>7 DEF Execute, workFrame, jobVars, sharedVars
  <2>2. worker' = worker \/ worker' = [worker EXCEPT ![j][w] = "check"]
    BY <1>7 DEF Execute, Works
  <2> QED
    BY <1>1, <2>1, <2>2
<1> QED
  BY <1>2, <1>3, <1>4, <1>5, <1>6, <1>7 DEF WorkerStep

\* What a step of a worker leaves alone: the other jobs, and the other workers of its job.
LEMMA WorkerLocal ==
  ASSUME ScanTyped, NEW j \in ScanIds, NEW w \in ScanWorkers, WorkerStep(j, w)
  PROVE  /\ UNCHANGED <<phase, plan, tokens, cancelled>>
         /\ \A a \in ScanIds : a # j =>
              /\ worker'[a] = worker[a] /\ hand'[a] = hand[a] /\ lateSends'[a] = lateSends[a]
              /\ cursor'[a] = cursor[a] /\ remaining'[a] = remaining[a] /\ admitted'[a] = admitted[a]
         /\ \A v \in ScanWorkers : v # w =>
              worker'[j][v] = worker[j][v] /\ hand'[j][v] = hand[j][v] /\ lateSends'[j][v] = lateSends[j][v]
<1>1. UNCHANGED <<phase, plan, tokens, cancelled>>
  BY WorkerShape
<1>2. /\ \A a \in ScanIds : a # j => worker'[a] = worker[a]
      /\ \A v \in ScanWorkers : v # w => worker'[j][v] = worker[j][v]
  <2>1. worker' = worker \/ \E e : worker' = [worker EXCEPT ![j][w] = e]
    BY WorkerShape
  <2> QED
    BY <2>1 DEF ScanTyped
<1>3. /\ \A a \in ScanIds : a # j => hand'[a] = hand[a] /\ cursor'[a] = cursor[a]
      /\ \A v \in ScanWorkers : v # w => hand'[j][v] = hand[j][v]
  <2>1. \/ UNCHANGED <<cursor, hand>>
        \/ hand' = [hand EXCEPT ![j][w] = cursor[j] + 1] /\ cursor' = [cursor EXCEPT ![j] = cursor[j] + 1]
    BY WorkerShape
  <2>2. CASE UNCHANGED <<cursor, hand>>
    BY <2>2
  <2>3. CASE hand' = [hand EXCEPT ![j][w] = cursor[j] + 1] /\ cursor' = [cursor EXCEPT ![j] = cursor[j] + 1]
    <3>1. \A a \in ScanIds : a # j => hand'[a] = hand[a]
      BY <2>3 DEF ScanTyped
    <3>2. \A a \in ScanIds : a # j => cursor'[a] = cursor[a]
      BY <2>3 DEF ScanTyped
    <3>3. \A v \in ScanWorkers : v # w => hand'[j][v] = hand[j][v]
      BY <2>3 DEF ScanTyped
    <3> QED
      BY <3>1, <3>2, <3>3
  <2> QED
    BY <2>1, <2>2, <2>3
<1>4. \A a \in ScanIds : a # j => remaining'[a] = remaining[a] /\ admitted'[a] = admitted[a]
  <2>1. /\ remaining' = remaining \/ remaining' = [remaining EXCEPT ![j] = remaining[j] - 1]
        /\ admitted' = admitted \/ admitted' = [admitted EXCEPT ![j] = Append(admitted[j], hand[j][w])]
    BY WorkerShape
  <2> QED
    BY <2>1 DEF ScanTyped
<1>5. /\ \A a \in ScanIds : a # j => lateSends'[a] = lateSends[a]
      /\ \A v \in ScanWorkers : v # w => lateSends'[j][v] = lateSends[j][v]
  <2> DEFINE late == IF j \in cancelled THEN lateSends[j][w] + 1 ELSE lateSends[j][w]
  <2>1. lateSends' = lateSends \/ lateSends' = [lateSends EXCEPT ![j][w] = late]
    BY WorkerShape
  <2> HIDE DEF late
  <2> QED
    BY <2>1 DEF ScanTyped
<1> QED
  BY <1>1, <1>2, <1>3, <1>4, <1>5

\* What a step of worker w of job j does to that job.
LEMMA WorkerOwn ==
  ASSUME ScanTyped, NEW j \in ScanIds, NEW w \in ScanWorkers, WorkerStep(j, w)
  PROVE  \/ /\ worker[j][w] = "fetch" /\ worker'[j][w] \in {"exit", "budget"}
            /\ cursor'[j] = cursor[j] + 1 /\ hand'[j][w] = cursor[j] + 1
            /\ worker'[j][w] = "budget" => hand'[j][w] \in 1..Len(plan[j]) /\ plan[j][hand'[j][w]] \notin OffScope
            /\ remaining'[j] = remaining[j] /\ admitted'[j] = admitted[j] /\ lateSends'[j][w] = lateSends[j][w]
         \/ /\ worker[j][w] = "budget" /\ worker'[j][w] = "dedup"
            /\ remaining[j] > 0 /\ remaining'[j] = remaining[j] - 1
            /\ cursor'[j] = cursor[j] /\ hand'[j] = hand[j] /\ admitted'[j] = admitted[j] /\ lateSends'[j] = lateSends[j]
         \/ /\ worker[j][w] = "dedup" /\ worker'[j][w] = "pace" /\ admitted'[j] = Append(admitted[j], hand[j][w])
            /\ cursor'[j] = cursor[j] /\ hand'[j] = hand[j] /\ remaining'[j] = remaining[j] /\ lateSends'[j] = lateSends[j]
         \/ /\ worker[j][w] = "pace" /\ worker'[j][w] = "send"
            /\ lateSends'[j][w] = (IF j \in cancelled THEN lateSends[j][w] + 1 ELSE lateSends[j][w])
            /\ cursor'[j] = cursor[j] /\ hand'[j] = hand[j] /\ remaining'[j] = remaining[j] /\ admitted'[j] = admitted[j]
         \/ /\ \/ worker[j][w] = "check" /\ worker'[j][w] = (IF j \in cancelled THEN "exit" ELSE "fetch")
               \/ worker[j][w] \in {"budget", "dedup"} /\ worker'[j][w] \in {"exit", "check"}
               \/ worker[j][w] = "send" /\ worker'[j][w] \in {"check", "send"}
            /\ cursor'[j] = cursor[j] /\ hand'[j] = hand[j] /\ remaining'[j] = remaining[j]
            /\ admitted'[j] = admitted[j] /\ lateSends'[j] = lateSends[j]
<1> USE DEF ScanTyped, Works, Exits, SetStop, sharedVars
<1>1. CASE CheckCancel(j, w)
  BY <1>1 DEF CheckCancel
<1>2. CASE Fetch(j, w)
  <2>1. /\ worker[j][w] = "fetch" /\ cursor'[j] = cursor[j] + 1 /\ hand'[j][w] = cursor[j] + 1
        /\ remaining'[j] = remaining[j] /\ admitted'[j] = admitted[j] /\ lateSends'[j][w] = lateSends[j][w]
    BY <1>2 DEF Fetch
  <2>2. /\ worker'[j][w] \in {"exit", "budget"}
        /\ worker'[j][w] = "budget" => ~(cursor[j] + 1 > Len(plan[j])) /\ ~(cursor[j] + 1 \in DOMAIN plan[j] /\ plan[j][cursor[j] + 1] \in OffScope)
    BY <1>2 DEF Fetch
  <2>3. DOMAIN plan[j] = 1..Len(plan[j]) /\ Len(plan[j]) \in Nat /\ cursor[j] \in Nat
    OBVIOUS
  <2>4. worker'[j][w] = "budget" => hand'[j][w] \in 1..Len(plan[j]) /\ plan[j][hand'[j][w]] \notin OffScope
    BY <2>1, <2>2, <2>3
  <2> QED
    BY <2>1, <2>2, <2>4
<1>3. CASE TakeBudget(j, w)
  BY <1>3 DEF TakeBudget
<1>4. CASE FirstSeen(j, w)
  BY <1>4 DEF FirstSeen
<1>5. CASE Pace(j, w)
  BY <1>5 DEF Pace
<1>6. CASE Execute(j, w)
  BY <1>6 DEF Execute
<1> QED
  BY <1>1, <1>2, <1>3, <1>4, <1>5, <1>6 DEF WorkerStep

\* A step of a worker keeps the types.
LEMMA WorkerTyped ==
  ASSUME ScanTyped, NEW j \in ScanIds, NEW w \in ScanWorkers, WorkerStep(j, w) PROVE ScanTyped'
<1>1. /\ phase \in [ScanIds -> Phases] /\ plan \in [ScanIds -> Seq(Requests)]
      /\ UNCHANGED <<phase, plan>>
  BY WorkerLocal DEF ScanTyped
<1>2. \A e \in WorkerPlaces : [worker EXCEPT ![j][w] = e] \in [ScanIds -> [ScanWorkers -> WorkerPlaces]]
  BY DEF ScanTyped
<1>3. \A n \in Nat : /\ [hand EXCEPT ![j][w] = n] \in [ScanIds -> [ScanWorkers -> Nat]]
                     /\ [lateSends EXCEPT ![j][w] = n] \in [ScanIds -> [ScanWorkers -> Nat]]
  BY DEF ScanTyped
<1>4. \A n \in Nat : [cursor EXCEPT ![j] = n] \in [ScanIds -> Nat] /\ [remaining EXCEPT ![j] = n] \in [ScanIds -> Nat]
  BY DEF ScanTyped
<1>5. hand[j][w] \in Nat /\ lateSends[j][w] \in Nat /\ cursor[j] \in Nat /\ remaining[j] \in Nat /\ admitted[j] \in Seq(Nat)
  BY DEF ScanTyped
<1>6. worker' \in [ScanIds -> [ScanWorkers -> WorkerPlaces]]
  <2>1. worker' = worker \/ \E e \in WorkerPlaces : worker' = [worker EXCEPT ![j][w] = e]
    BY WorkerShape
  <2> QED
    BY <1>2, <2>1 DEF ScanTyped
<1>7. hand' \in [ScanIds -> [ScanWorkers -> Nat]] /\ cursor' \in [ScanIds -> Nat]
  <2>1. \/ UNCHANGED <<hand, cursor>>
        \/ hand' = [hand EXCEPT ![j][w] = cursor[j] + 1] /\ cursor' = [cursor EXCEPT ![j] = cursor[j] + 1]
    BY WorkerShape
  <2>2. cursor[j] + 1 \in Nat
    BY <1>5
  <2> QED
    BY <1>3, <1>4, <2>1, <2>2 DEF ScanTyped
<1>8. remaining' \in [ScanIds -> Nat]
  <2>1. remaining' = remaining \/ (remaining[j] > 0 /\ remaining' = [remaining EXCEPT ![j] = remaining[j] - 1])
    BY WorkerShape
  <2>2. remaining[j] > 0 => remaining[j] - 1 \in Nat
    BY <1>5
  <2> QED
    BY <1>4, <2>1, <2>2 DEF ScanTyped
<1>9. lateSends' \in [ScanIds -> [ScanWorkers -> Nat]]
  <2>1. (IF j \in cancelled THEN lateSends[j][w] + 1 ELSE lateSends[j][w]) \in Nat
    BY <1>5
  <2> DEFINE late == IF j \in cancelled THEN lateSends[j][w] + 1 ELSE lateSends[j][w]
  <2>2. lateSends' = lateSends \/ lateSends' = [lateSends EXCEPT ![j][w] = late]
    BY WorkerShape
  <2> HIDE DEF late
  <2>3. late \in Nat
    BY <2>1 DEF late
  <2> QED
    BY <1>3, <2>2, <2>3 DEF ScanTyped
<1>10. admitted' \in [ScanIds -> Seq(Nat)]
  <2>1. admitted' = admitted \/ admitted' = [admitted EXCEPT ![j] = Append(admitted[j], hand[j][w])]
    BY WorkerShape
  <2>2. Append(admitted[j], hand[j][w]) \in Seq(Nat)
    BY <1>5
  <2> QED
    BY <2>1, <2>2 DEF ScanTyped
<1> QED
  BY <1>1, <1>6, <1>7, <1>8, <1>9, <1>10 DEF ScanTyped

\* A step of a worker keeps the invariant.
LEMMA WorkerKeeps ==
  ASSUME ScanInv, NEW j \in ScanIds, NEW w \in ScanWorkers, WorkerStep(j, w) PROVE ScanInv'
<1>1. ScanTyped /\ ScanTyped'
  BY WorkerTyped DEF ScanInv
<1>2. TokensLive'
  BY <1>1, WorkerLocal DEF ScanInv, TokensLive
<1>3. ASSUME NEW a \in ScanIds, a # j PROVE GivenOnce(a)' /\ SentFromPlan(a)' /\ BudgetShared(a)' /\ LateOnce(a)'
  <2>1. /\ worker'[a] = worker[a] /\ hand'[a] = hand[a] /\ lateSends'[a] = lateSends[a] /\ cursor'[a] = cursor[a]
        /\ remaining'[a] = remaining[a] /\ admitted'[a] = admitted[a] /\ plan' = plan /\ cancelled' = cancelled
    BY <1>1, <1>3, WorkerLocal
  <2>2. Deduping(a)' = Deduping(a)
    BY <2>1 DEF Deduping
  <2>3. GivenOnce(a)' /\ SentFromPlan(a)'
    BY <2>1 DEF ScanInv, GivenOnce, SentFromPlan
  <2>4. BudgetShared(a)' /\ LateOnce(a)'
    BY <2>1, <2>2 DEF ScanInv, BudgetShared, LateOnce
  <2> QED
    BY <2>3, <2>4
<1>4. plan' = plan /\ cancelled' = cancelled
  BY <1>1, WorkerLocal
<1>5. \A v \in ScanWorkers : v # w =>
        worker'[j][v] = worker[j][v] /\ hand'[j][v] = hand[j][v] /\ lateSends'[j][v] = lateSends[j][v]
  BY <1>1, WorkerLocal
<1>6. /\ admitted[j] \in Seq(Nat) /\ Len(admitted[j]) \in Nat /\ cursor[j] \in Nat /\ remaining[j] \in Nat
      /\ \A v \in ScanWorkers : hand[j][v] \in Nat /\ lateSends[j][v] \in Nat
      /\ \A i \in 1..Len(admitted[j]) : admitted[j][i] \in Nat
  <2>1. admitted[j] \in Seq(Nat) /\ cursor[j] \in Nat /\ remaining[j] \in Nat
    BY <1>1 DEF ScanTyped
  <2>2. \A v \in ScanWorkers : hand[j][v] \in Nat /\ lateSends[j][v] \in Nat
    BY <1>1 DEF ScanTyped
  <2> QED
    BY <2>1, <2>2
<1>7. GivenOnce(j) /\ SentFromPlan(j) /\ BudgetShared(j) /\ LateOnce(j)
  BY DEF ScanInv
<1>8. LateOnce(j)'
  <2>1. LateOnce(j) /\ lateSends[j][w] \in Nat
    BY <1>6, <1>7
  <2>2. ASSUME NEW v \in ScanWorkers, v # w, lateSends'[j][v] > 0
        PROVE  lateSends'[j][v] = 1 /\ j \in cancelled' /\ worker'[j][v] \in {"send", "check", "exit"}
    BY <1>4, <1>5, <2>1, <2>2 DEF LateOnce
  <2>3. ASSUME lateSends'[j][w] > 0
        PROVE  lateSends'[j][w] = 1 /\ j \in cancelled' /\ worker'[j][w] \in {"send", "check", "exit"}
    <3>1. CASE worker[j][w] = "pace"
      <4>1. lateSends[j][w] = 0
        BY <2>1, <3>1 DEF LateOnce
      <4>2. /\ worker'[j][w] = "send"
            /\ lateSends'[j][w] = (IF j \in cancelled THEN lateSends[j][w] + 1 ELSE lateSends[j][w])
        BY <1>1, <3>1, WorkerOwn
      <4> QED
        BY <1>4, <2>3, <4>1, <4>2
    <3>2. CASE worker[j][w] # "pace"
      <4>1. lateSends'[j][w] = lateSends[j][w]
        BY <1>1, <3>2, WorkerOwn
      <4>2. /\ lateSends[j][w] = 1 /\ j \in cancelled /\ worker[j][w] \in {"send", "check", "exit"}
        BY <2>1, <2>3, <4>1 DEF LateOnce
      <4>3. worker'[j][w] \in {"send", "check", "exit"}
        BY <1>1, <4>2, WorkerOwn
      <4> QED
        BY <1>4, <4>1, <4>2, <4>3
    <3> QED
      BY <3>1, <3>2
  <2> QED
    BY <2>2, <2>3 DEF LateOnce
<1>9. CASE admitted'[j] = Append(admitted[j], hand[j][w])
  <2>1. /\ worker[j][w] = "dedup" /\ worker'[j][w] = "pace" /\ cursor'[j] = cursor[j] /\ hand'[j] = hand[j]
        /\ remaining'[j] = remaining[j]
    <3>1. admitted'[j] # admitted[j]
      BY <1>6, <1>9
    <3> QED
      BY <1>1, <3>1, WorkerOwn
  <2>2. /\ Len(admitted'[j]) = Len(admitted[j]) + 1 /\ admitted'[j][Len(admitted[j]) + 1] = hand[j][w]
        /\ \A i \in 1..Len(admitted[j]) : admitted'[j][i] = admitted[j][i]
    BY <1>6, <1>9
  <2>3. \A i \in 1..Len(admitted'[j]) : i \in 1..Len(admitted[j]) \/ i = Len(admitted[j]) + 1
    BY <1>6, <2>2
  <2>4. /\ hand[j][w] \in 1..Len(plan[j]) /\ plan[j][hand[j][w]] \notin OffScope /\ hand[j][w] <= cursor[j]
        /\ \A i \in 1..Len(admitted[j]) : admitted[j][i] # hand[j][w]
    BY <1>7, <2>1 DEF GivenOnce
  <2>5. SentFromPlan(j)'
    BY <1>4, <1>7, <2>1, <2>2, <2>3, <2>4 DEF SentFromPlan
  <2>6. \A v \in ScanWorkers : v # w => hand[j][v] # hand[j][w]
    BY <1>6, <1>7, <2>4 DEF GivenOnce
  <2>7. GivenOnce(j)'
    BY <1>4, <1>5, <1>7, <2>1, <2>2, <2>3, <2>6 DEF GivenOnce
  <2>8. Deduping(j)' = Deduping(j) \ {w} /\ w \in Deduping(j)
    BY <1>5, <2>1 DEF Deduping
  <2>9. Cardinality(Deduping(j)') = Cardinality(Deduping(j)) - 1
    BY <2>8, DedupingFinite, FS_RemoveElement
  <2>10. BudgetShared(j)'
    BY <1>6, <1>7, <2>1, <2>2, <2>9, DedupingFinite, ScanAssumption DEF BudgetShared
  <2> QED
    BY <1>1, <1>2, <1>3, <1>8, <2>5, <2>7, <2>10 DEF ScanInv
<1>10. CASE admitted'[j] = admitted[j]
  <2>1. cursor[j] <= cursor'[j] /\ cursor'[j] \in Nat
    <3>1. cursor'[j] = cursor[j] \/ cursor'[j] = cursor[j] + 1
      BY <1>1, WorkerOwn
    <3> QED
      BY <1>6, <3>1
  <2>2. SentFromPlan(j)'
    <3>1. ASSUME NEW i \in 1..Len(admitted[j]) PROVE admitted[j][i] <= cursor'[j]
      <4>1. admitted[j][i] <= cursor[j] /\ admitted[j][i] \in Nat
        BY <1>6, <1>7 DEF SentFromPlan
      <4> QED
        BY <1>6, <2>1, <4>1
    <3>2. SentFromPlan(j)
      BY <1>7
    <3> QED
      BY <1>4, <1>10, <3>1, <3>2 DEF SentFromPlan
  <2>3. GivenOnce(j)'
    <3>1. CASE worker[j][w] = "fetch"
      <4>1. /\ cursor'[j] = cursor[j] + 1 /\ hand'[j][w] = cursor[j] + 1
            /\ worker'[j][w] = "budget" => hand'[j][w] \in 1..Len(plan[j]) /\ plan[j][hand'[j][w]] \notin OffScope
            /\ worker'[j][w] \in {"exit", "budget"}
        BY <1>1, <3>1, WorkerOwn
      <4>2. \A i \in 1..Len(admitted[j]) : admitted[j][i] # cursor[j] + 1
        BY <1>6, <1>7 DEF SentFromPlan
      <4>3. \A v \in ScanWorkers : hand[j][v] # cursor[j] + 1
        BY <1>6, <1>7 DEF GivenOnce
      <4>4. \A v \in ScanWorkers : hand'[j][v] <= cursor'[j]
        <5>1. \A v \in ScanWorkers : v # w => hand[j][v] <= cursor[j] /\ hand[j][v] \in Nat /\ hand'[j][v] = hand[j][v]
          BY <1>5, <1>6, <1>7 DEF GivenOnce
        <5>2. cursor[j] \in Nat /\ cursor'[j] = cursor[j] + 1 /\ hand'[j][w] = cursor[j] + 1
          BY <1>6, <4>1
        <5> QED
          BY <5>1, <5>2
      <4>5. \A v, x \in ScanWorkers : v # x /\ hand'[j][v] = hand'[j][x] => hand'[j][v] = 0
        BY <1>5, <1>7, <4>1, <4>3 DEF GivenOnce
      <4>6. \A v \in ScanWorkers : worker'[j][v] \in {"budget", "dedup"} =>
              /\ hand'[j][v] \in 1..Len(plan[j]) /\ plan[j][hand'[j][v]] \notin OffScope
              /\ \A i \in 1..Len(admitted[j]) : admitted[j][i] # hand'[j][v]
        <5>1. \A v \in ScanWorkers : v # w => worker'[j][v] = worker[j][v] /\ hand'[j][v] = hand[j][v]
          BY <1>5
        <5>2. GivenOnce(j)
          BY <1>7
        <5> QED
          BY <4>1, <4>2, <5>1, <5>2 DEF GivenOnce
      <4> QED
        BY <1>4, <1>10, <4>4, <4>5, <4>6 DEF GivenOnce
    <3>2. CASE worker[j][w] # "fetch"
      <4>1. /\ cursor'[j] = cursor[j] /\ hand'[j] = hand[j]
            /\ worker'[j][w] \in {"budget", "dedup"} => worker[j][w] \in {"budget", "dedup"}
        BY <1>1, <1>6, <1>10, <3>2, WorkerOwn
      <4> QED
        BY <1>4, <1>5, <1>7, <1>10, <4>1 DEF GivenOnce
    <3> QED
      BY <3>1, <3>2
  <2>4. BudgetShared(j)'
    <3>1. CASE worker'[j][w] = "dedup"
      <4>1. worker[j][w] = "budget" /\ remaining[j] > 0 /\ remaining'[j] = remaining[j] - 1
        BY <1>1, <3>1, WorkerOwn
      <4>2. Deduping(j)' = Deduping(j) \cup {w} /\ w \notin Deduping(j)
        BY <1>5, <3>1, <4>1 DEF Deduping
      <4>3. Cardinality(Deduping(j)') = Cardinality(Deduping(j)) + 1
        BY <4>2, DedupingFinite, FS_AddElement
      <4> QED
        BY <1>6, <1>7, <1>10, <4>1, <4>3, DedupingFinite, ScanAssumption DEF BudgetShared
    <3>2. CASE worker'[j][w] # "dedup"
      <4>1. remaining'[j] = remaining[j]
        BY <1>1, <3>2, WorkerOwn
      <4>2. Deduping(j)' \subseteq Deduping(j)
        BY <1>5, <3>2 DEF Deduping
      <4>3. Cardinality(Deduping(j)') <= Cardinality(Deduping(j)) /\ Cardinality(Deduping(j)') \in Nat
        BY <4>2, DedupingFinite, FS_Subset, FS_CardinalityType
      <4> QED
        BY <1>6, <1>7, <1>10, <4>1, <4>3, DedupingFinite, ScanAssumption DEF BudgetShared
    <3> QED
      BY <3>1, <3>2
  <2> QED
    BY <1>1, <1>2, <1>3, <1>8, <2>2, <2>3, <2>4 DEF ScanInv
<1>11. admitted'[j] = admitted[j] \/ admitted'[j] = Append(admitted[j], hand[j][w])
  BY <1>1, WorkerOwn
<1> QED
  BY <1>9, <1>10, <1>11

\* A step of the job itself, of the user or of the clock keeps the invariant.
LEMMA JobKeeps ==
  ASSUME ScanInv, NEW j \in ScanIds, Submit(j) \/ JobStep(j) \/ CancelScan(j) \/ DeadlinePasses(j) PROVE ScanInv'
<1>1. /\ UNCHANGED <<plan, cursor, remaining, hand, admitted, lateSends>> /\ cancelled \subseteq cancelled'
  BY DEF Submit, JobStep, Run, Join, PublishCompleted, Deregister, CancelScan, DeadlinePasses, jobVars, sharedVars, workerVars
<1>2. worker' = worker \/ worker' = [worker EXCEPT ![j] = [w \in ScanWorkers |-> "check"]]
  BY DEF Submit, JobStep, Run, Join, PublishCompleted, Deregister, CancelScan, DeadlinePasses, workerVars
<1>3. phase' \in [ScanIds -> Phases]
  <2>1. phase' = phase \/ \E p \in Phases : phase' = [phase EXCEPT ![j] = p]
    BY DEF Phases, Submit, JobStep, Run, Join, PublishCompleted, Deregister, CancelScan, DeadlinePasses, jobVars
  <2> QED
    BY <2>1 DEF ScanInv, ScanTyped
<1>4. ScanTyped'
  <2>1. [w \in ScanWorkers |-> "check"] \in [ScanWorkers -> WorkerPlaces]
    BY DEF WorkerPlaces
  <2>2. worker' \in [ScanIds -> [ScanWorkers -> WorkerPlaces]]
    BY <1>2, <2>1 DEF ScanInv, ScanTyped
  <2> QED
    BY <1>1, <1>3, <2>2 DEF ScanInv, ScanTyped
<1>5. TokensLive'
  BY DEF ScanInv, ScanTyped, TokensLive, Submit, JobStep, Run, Join, PublishCompleted, Deregister, CancelScan, DeadlinePasses, jobVars
<1>6. ASSUME NEW a \in ScanIds PROVE GivenOnce(a)' /\ SentFromPlan(a)' /\ BudgetShared(a)' /\ LateOnce(a)'
  <2>1. worker'[a] = worker[a] \/ \A w \in ScanWorkers : worker'[a][w] = "check"
    BY <1>2 DEF ScanInv, ScanTyped
  <2>2. SentFromPlan(a)'
    BY <1>1 DEF ScanInv, SentFromPlan
  <2>3. GivenOnce(a)'
    BY <1>1, <2>1 DEF ScanInv, GivenOnce
  <2>4. LateOnce(a)'
    BY <1>1, <2>1 DEF ScanInv, LateOnce
  <2>5. Deduping(a)' \subseteq Deduping(a)
    BY <2>1 DEF Deduping
  <2>6. Cardinality(Deduping(a)') <= Cardinality(Deduping(a)) /\ Cardinality(Deduping(a)') \in Nat
    BY <2>5, DedupingFinite, FS_Subset, FS_CardinalityType
  <2>7. remaining[a] \in Nat /\ Len(admitted[a]) \in Nat /\ BudgetShared(a)
    BY DEF ScanInv, ScanTyped
  <2>8. BudgetShared(a)'
    BY <1>1, <2>6, <2>7, DedupingFinite, ScanAssumption DEF BudgetShared
  <2> QED
    BY <2>2, <2>3, <2>4, <2>8
<1> QED
  BY <1>4, <1>5, <1>6 DEF ScanInv

\* No step breaks the invariant.
LEMMA ScanStep == ScanInv /\ [ScanNext]_scanVars => ScanInv'
<1> SUFFICES ASSUME ScanInv, [ScanNext]_scanVars PROVE ScanInv'
  OBVIOUS
<1>1. ASSUME NEW j \in ScanIds, Submit(j) \/ JobStep(j) \/ CancelScan(j) \/ DeadlinePasses(j) PROVE ScanInv'
  BY <1>1, JobKeeps
<1>2. ASSUME NEW j \in ScanIds, NEW w \in ScanWorkers, WorkerStep(j, w) PROVE ScanInv'
  BY <1>2, WorkerKeeps
<1>3. CASE UNCHANGED scanVars
  <2>1. UNCHANGED <<phase, plan, tokens, cancelled, cursor, remaining, worker, hand, admitted, lateSends>>
    BY <1>3 DEF scanVars, jobVars, sharedVars, workerVars
  <2>2. ScanTyped' /\ TokensLive'
    BY <2>1 DEF ScanInv, ScanTyped, TokensLive
  <2>3. ASSUME NEW j \in ScanIds PROVE GivenOnce(j)' /\ SentFromPlan(j)' /\ BudgetShared(j)' /\ LateOnce(j)'
    <3>1. Deduping(j)' = Deduping(j)
      BY <2>1 DEF Deduping
    <3>2. GivenOnce(j)' /\ SentFromPlan(j)'
      BY <2>1 DEF ScanInv, GivenOnce, SentFromPlan
    <3>3. BudgetShared(j)' /\ LateOnce(j)'
      BY <2>1, <3>1 DEF ScanInv, BudgetShared, LateOnce
    <3> QED
      BY <3>2, <3>3
  <2> QED
    BY <2>2, <2>3 DEF ScanInv
<1> QED
  BY <1>1, <1>2, <1>3 DEF ScanNext

\* However many workers share the cursor and the budget of a job: no mutation is sent twice or
\* outside the scope, the budget is kept, a worker sends at most one request after a cancel, and a
\* job can be cancelled exactly as long as it is there (crates/scanner).
THEOREM ScansKeepBounds == ScanSpec => [](TokensLive /\ SentOnce /\ WithinBudget /\ CancelIsPrompt)
BY ScanInitially, ScanStep, ScanImplies, PTL DEF ScanSpec

\* What job j sent in the present era of the dedup is in the set of fingerprints, which is as
\* large as the era is long; and everything in the set was sent.
EraKept(j) ==
  /\ IsFiniteSet(seen[j])
  /\ \A r \in seen[j] : \E i \in 1..Len(admitted[j]) : plan[j][admitted[j][i]] = r
  /\ \E e, start \in Nat :
       /\ start = e * SeenLimit
       /\ start + Cardinality(seen[j]) = Len(admitted[j]) /\ Cardinality(seen[j]) <= SeenLimit
       /\ \A i \in 1..Len(admitted[j]) : i > start => plan[j][admitted[j][i]] \in seen[j]

\* Equal requests of job j were sent in different eras.
UniqueInEras(j) ==
  \A i, k \in 1..Len(admitted[j]) : i < k /\ (i - 1) \div SeenLimit = (k - 1) \div SeenLimit =>
    plan[j][admitted[j][i]] # plan[j][admitted[j][k]]

\* A mutation that was given out was sent, or one equal to it, or a worker has it, or the run stops
\* for a reason; who has left, has left for a reason, or because all were given out.
SentEqual(j, i) == \E k \in 1..Len(admitted[j]) : plan[j][admitted[j][k]] = plan[j][i]
InHands(j, i)   == \E w \in ScanWorkers : hand[j][w] = i /\ worker[j][w] \in {"budget", "dedup"}
NoneLost(j) ==
  stop[j] = "Completed" =>
    /\ \A i \in 1..Len(plan[j]) : i <= cursor[j] => SentEqual(j, i) \/ InHands(j, i)
    /\ \A w \in ScanWorkers : worker[j][w] = "exit" => cursor[j] >= Len(plan[j])

\* Types of the rest.
Reasons == {"Completed", "Cancelled", "ScopeViolation", "BudgetExhausted", "DurationExceeded"}
BooksTyped ==
  /\ tokens \subseteq ScanIds /\ cancelled \subseteq ScanIds /\ overdue \subseteq ScanIds
  /\ stop \in [ScanIds -> Reasons] /\ tries \in [ScanIds -> [ScanWorkers -> 0..RetryLimit]]
  /\ seen \in [ScanIds -> SUBSET Requests] /\ \A j \in ScanIds : plan[j] \in Plans

\* Before a job runs it has no workers.
NotStarted(j) == phase[j] \in {"new", "submitted"} => \A w \in ScanWorkers : worker[j][w] = "off"

ScanBooks == BooksTyped /\ \A j \in ScanIds : EraKept(j) /\ UniqueInEras(j) /\ NoneLost(j) /\ NotStarted(j)

\* Facts about the constants.
LEMMA LimitsAreNumbers ==
  SeenLimit \in Nat \ {0} /\ RetryLimit \in Nat /\ ScanBudget \in Nat \ {0} /\ ScanWorkers # {}
BY ScanAssumption

\* The number of the era of the request sent after n others, of which start were sent in earlier eras.
LEMMA EraOf ==
  ASSUME NEW e \in Nat, NEW start \in Nat, start = e * SeenLimit, NEW n \in Nat, start <= n, n < start + SeenLimit
  PROVE  n \div SeenLimit = e
BY LimitsAreNumbers

\* A request sent before an era began is of an earlier one.
LEMMA EarlierEra ==
  ASSUME NEW e \in Nat, NEW start \in Nat, start = e * SeenLimit, NEW i \in Nat, i < start
  PROVE  i \div SeenLimit # e
BY LimitsAreNumbers

\* One era more is as many requests more as fingerprints are kept.
LEMMA NextEra == ASSUME NEW e \in Nat PROVE (e + 1) * SeenLimit = e * SeenLimit + SeenLimit
BY LimitsAreNumbers

\* Both invariants together imply what is checked.
LEMMA BooksImply == ScanInv /\ ScanBooks => SentAsPlanned
<1> SUFFICES ASSUME ScanInv, ScanBooks PROVE SentAsPlanned
  OBVIOUS
<1>1. ScanTypeOK
  <2>1. ASSUME NEW j \in ScanIds
        PROVE  /\ seen[j] \subseteq Requests /\ Cardinality(seen[j]) <= SeenLimit /\ plan[j] \in Plans
               /\ admitted[j] \in Seq(DOMAIN plan[j]) /\ remaining[j] \in 0..ScanBudget
    <3>1. seen[j] \subseteq Requests /\ Cardinality(seen[j]) <= SeenLimit /\ plan[j] \in Plans
      BY DEF ScanBooks, BooksTyped, EraKept
    <3>2. admitted[j] \in Seq(Nat) /\ plan[j] \in Seq(Requests) /\ SentFromPlan(j) /\ BudgetShared(j) /\ remaining[j] \in Nat
      BY DEF ScanInv, ScanTyped
    <3>3. DOMAIN plan[j] = 1..Len(plan[j]) /\ \A i \in 1..Len(admitted[j]) : admitted[j][i] \in DOMAIN plan[j]
      BY <3>2 DEF SentFromPlan
    <3>4. admitted[j] \in Seq(DOMAIN plan[j])
      BY <3>2, <3>3
    <3>5. remaining[j] \in 0..ScanBudget
      <4>1. Len(admitted[j]) \in Nat /\ Cardinality(Deduping(j)) \in Nat
        BY <3>2, DedupingFinite
      <4> QED
        BY <3>2, <4>1, LimitsAreNumbers DEF BudgetShared
    <3> QED
      BY <3>1, <3>4, <3>5
  <2>2. remaining \in [ScanIds -> 0..ScanBudget]
    BY <2>1 DEF ScanInv, ScanTyped
  <2> QED
    BY <2>1, <2>2 DEF ScanInv, ScanBooks, ScanTyped, BooksTyped, ScanTypeOK, Phases, Reasons, WorkerPlaces
<1>2. UniquePerEra
  <2>1. \A j \in ScanIds : DOMAIN admitted[j] = 1..Len(admitted[j]) /\ UniqueInEras(j)
    BY DEF ScanInv, ScanTyped, ScanBooks
  <2> QED
    BY <2>1 DEF UniquePerEra, UniqueInEras
<1>3. CompletedMeansAll
  <2> SUFFICES ASSUME NEW j \in ScanIds, stop[j] = "Completed", \A w \in ScanWorkers : worker[j][w] = "exit",
                      NEW i \in DOMAIN plan[j]
               PROVE  \E k \in DOMAIN admitted[j] : plan[j][admitted[j][k]] = plan[j][i]
    BY DEF CompletedMeansAll
  <2>1. admitted[j] \in Seq(Nat) /\ plan[j] \in Seq(Requests) /\ cursor[j] \in Nat /\ NoneLost(j)
    BY DEF ScanInv, ScanTyped, ScanBooks
  <2>2. cursor[j] >= Len(plan[j])
    BY <2>1, LimitsAreNumbers DEF NoneLost
  <2>3. i \in 1..Len(plan[j]) /\ i <= cursor[j]
    BY <2>1, <2>2
  <2>4. SentEqual(j, i)
    BY <2>1, <2>3 DEF NoneLost, InHands
  <2> QED
    BY <2>1, <2>4 DEF SentEqual
<1> QED
  BY <1>1, <1>2, <1>3, ScanImplies DEF SentAsPlanned, ScanInv

\* The books are right before the first job is submitted.
LEMMA BooksInitially == ScanInit => ScanBooks
<1> SUFFICES ASSUME ScanInit PROVE ScanBooks
  OBVIOUS
<1>1. BooksTyped
  <2>1. 0 \in 0..RetryLimit
    BY LimitsAreNumbers
  <2> QED
    BY <2>1 DEF ScanInit, BooksTyped, Reasons
<1>2. ASSUME NEW j \in ScanIds PROVE EraKept(j)
  <2>1. seen[j] = {} /\ Len(admitted[j]) = 0
    BY DEF ScanInit
  <2>2. IsFiniteSet(seen[j]) /\ Cardinality(seen[j]) = 0
    BY <2>1, FS_EmptySet
  <2>3. 0 \in Nat /\ 0 = 0 * SeenLimit /\ 0 + Cardinality(seen[j]) = 0
    BY <2>2, LimitsAreNumbers
  <2> QED
    BY <2>1, <2>2, <2>3, LimitsAreNumbers DEF EraKept
<1>3. ASSUME NEW j \in ScanIds PROVE UniqueInEras(j) /\ NoneLost(j) /\ NotStarted(j)
  <2>1. Len(admitted[j]) = 0 /\ cursor[j] = 0 /\ \A w \in ScanWorkers : worker[j][w] = "off"
    BY DEF ScanInit
  <2> QED
    BY <2>1 DEF UniqueInEras, NoneLost, NotStarted
<1> QED
  BY <1>1, <1>2, <1>3 DEF ScanBooks

\* What no step of a worker touches for the other jobs, and what it does to its own.
LEMMA WorkerBooks ==
  ASSUME ScanInv, BooksTyped, NEW j \in ScanIds, NEW w \in ScanWorkers, WorkerStep(j, w)
  PROVE  /\ BooksTyped' /\ (stop[j] # "Completed" => stop'[j] # "Completed")
         /\ \A a \in ScanIds : a # j => seen'[a] = seen[a] /\ stop'[a] = stop[a]
         /\ worker[j][w] # "dedup" \/ worker'[j][w] # "pace" => seen'[j] = seen[j] /\ admitted'[j] = admitted[j]
<1> USE DEF ScanTyped, BooksTyped
<1>0. ScanTyped /\ (worker[j][w] = "dedup" => plan[j][hand[j][w]] \in Requests)
  <2>1. worker[j][w] = "dedup" => hand[j][w] \in 1..Len(plan[j])
    BY DEF ScanInv, GivenOnce
  <2>2. ScanTyped /\ plan[j] \in Seq(Requests)
    BY DEF ScanInv
  <2> QED
    BY <2>1, <2>2
<1>1. stop' = stop \/ \E r \in Reasons \ {"Completed"} : stop' = [stop EXCEPT ![j] = IF @ = "Completed" THEN r ELSE @]
  BY DEF WorkerStep, CheckCancel, Fetch, TakeBudget, FirstSeen, Pace, Execute, Exits, SetStop, sharedVars, Reasons
<1>2. /\ stop' \in [ScanIds -> Reasons] /\ (stop[j] # "Completed" => stop'[j] # "Completed")
      /\ \A a \in ScanIds : a # j => stop'[a] = stop[a]
  <2>1. CASE stop' = stop
    BY <1>0, <2>1
  <2>2. ASSUME NEW r \in Reasons \ {"Completed"}, stop' = [stop EXCEPT ![j] = IF @ = "Completed" THEN r ELSE @]
        PROVE  /\ stop' \in [ScanIds -> Reasons] /\ (stop[j] # "Completed" => stop'[j] # "Completed")
               /\ \A a \in ScanIds : a # j => stop'[a] = stop[a]
    BY <1>0, <2>2
  <2> QED
    BY <1>1, <2>1, <2>2
<1>3. tries' \in [ScanIds -> [ScanWorkers -> 0..RetryLimit]]
  <2>1. tries' = tries \/ \E n \in 0..RetryLimit : tries' = [tries EXCEPT ![j][w] = n]
    <3>1. CASE Execute(j, w)
      <4>1. tries[j][w] \in 0..RetryLimit /\ 0 \in 0..RetryLimit
        BY LimitsAreNumbers
      <4>2. tries[j][w] < RetryLimit => tries[j][w] + 1 \in 0..RetryLimit
        BY <4>1, LimitsAreNumbers
      <4>3. tries' = [tries EXCEPT ![j][w] = 0] \/ (tries[j][w] < RetryLimit /\ tries' = [tries EXCEPT ![j][w] = tries[j][w] + 1])
        BY <3>1 DEF Execute
      <4> QED
        BY <4>1, <4>2, <4>3
    <3> QED
      BY <3>1 DEF WorkerStep, CheckCancel, Fetch, TakeBudget, FirstSeen, Pace
  <2>2. \A n \in 0..RetryLimit : [tries EXCEPT ![j][w] = n] \in [ScanIds -> [ScanWorkers -> 0..RetryLimit]]
    OBVIOUS
  <2> QED
    BY <2>1, <2>2
<1>4. UNCHANGED <<tokens, cancelled, overdue, plan>>
  BY DEF WorkerStep, CheckCancel, Fetch, TakeBudget, FirstSeen, Pace, Execute, sharedVars, workFrame, jobVars
<1>5. CASE seen' = seen /\ admitted' = admitted
  BY <1>2, <1>3, <1>4, <1>5
<1>6. CASE FirstSeen(j, w)
  <2>1. worker[j][w] = "dedup" /\ plan[j][hand[j][w]] \in Requests
    BY <1>0, <1>6 DEF FirstSeen
  <2>2. \/ seen' = seen /\ admitted' = admitted
        \/ /\ worker'[j][w] = "pace"
           /\ seen' = [seen EXCEPT ![j] = (IF Cardinality(seen[j]) >= SeenLimit THEN {} ELSE seen[j]) \cup {plan[j][hand[j][w]]}]
    BY <1>0, <1>6 DEF FirstSeen, Works
  <2>3. ASSUME worker'[j][w] = "pace",
               seen' = [seen EXCEPT ![j] = (IF Cardinality(seen[j]) >= SeenLimit THEN {} ELSE seen[j]) \cup {plan[j][hand[j][w]]}]
        PROVE  seen' \in [ScanIds -> SUBSET Requests] /\ \A a \in ScanIds : a # j => seen'[a] = seen[a]
    BY <2>1, <2>3
  <2> QED
    BY <1>2, <1>3, <1>4, <1>5, <2>1, <2>2, <2>3
<1> QED
  BY <1>5, <1>6 DEF WorkerStep, CheckCancel, Fetch, TakeBudget, Pace, Execute, sharedVars

\* The dedup keeps its era, and lets no request pass twice in one.
LEMMA DedupKeeps ==
  ASSUME ScanInv, ScanBooks, NEW j \in ScanIds, NEW w \in ScanWorkers, FirstSeen(j, w), worker'[j][w] = "pace"
  PROVE  EraKept(j)' /\ UniqueInEras(j)'
<1> DEFINE request == plan[j][hand[j][w]]
           n       == Len(admitted[j])
           kept    == IF Cardinality(seen[j]) >= SeenLimit THEN {} ELSE seen[j]
<1>1. /\ admitted[j] \in Seq(Nat) /\ n \in Nat /\ hand[j][w] \in Nat /\ EraKept(j) /\ UniqueInEras(j)
      /\ SentFromPlan(j) /\ SeenLimit \in Nat \ {0}
  BY LimitsAreNumbers DEF ScanInv, ScanTyped, ScanBooks
<1>2. request \notin seen[j] /\ seen'[j] = kept \cup {request} /\ admitted'[j] = Append(admitted[j], hand[j][w]) /\ plan' = plan
  <2>1. worker[j][w] = "dedup"
    BY DEF FirstSeen
  <2> QED
    BY <2>1 DEF ScanInv, ScanTyped, ScanBooks, BooksTyped, FirstSeen, Works, workFrame, jobVars
<1>3. /\ Len(admitted'[j]) = n + 1 /\ admitted'[j][n + 1] = hand[j][w]
      /\ \A i \in 1..n : admitted'[j][i] = admitted[j][i]
      /\ \A i \in 1..(n + 1) : i \in 1..n \/ i = n + 1
  BY <1>1, <1>2
<1>4. PICK e \in Nat, start \in Nat :
        /\ start = e * SeenLimit
        /\ start + Cardinality(seen[j]) = n /\ Cardinality(seen[j]) <= SeenLimit
        /\ \A i \in 1..n : i > start => plan[j][admitted[j][i]] \in seen[j]
  BY <1>1 DEF EraKept
<1>5. IsFiniteSet(seen[j]) /\ Cardinality(seen[j]) \in Nat /\ (e + 1) * SeenLimit = start + SeenLimit
  BY <1>1, <1>4, NextEra, FS_CardinalityType DEF EraKept
<1>6. IsFiniteSet(kept) /\ Cardinality(kept) \in Nat /\ request \notin kept /\ kept \subseteq seen[j]
  BY <1>2, <1>5, FS_EmptySet
<1> HIDE DEF kept, n, request
<1>7. IsFiniteSet(seen'[j]) /\ Cardinality(seen'[j]) = Cardinality(kept) + 1
  BY <1>2, <1>6, FS_AddElement
<1>8. PICK d \in Nat, begun \in Nat :
        /\ begun = d * SeenLimit
        /\ begun + Cardinality(kept) = n /\ Cardinality(kept) < SeenLimit
        /\ \A i \in 1..n : i > begun => plan[j][admitted[j][i]] \in kept
  <2>1. CASE Cardinality(seen[j]) >= SeenLimit
    <3>1. Cardinality(kept) = 0
      BY <2>1, FS_EmptySet DEF kept
    <3>2. start + SeenLimit = n /\ e + 1 \in Nat /\ start + SeenLimit \in Nat
      BY <1>1, <1>4, <1>5, <2>1
    <3>3. \A i \in 1..n : ~(i > n)
      BY <1>1
    <3>4. n = (e + 1) * SeenLimit
      BY <1>5, <3>2
    <3>5. n + Cardinality(kept) = n /\ Cardinality(kept) < SeenLimit
      BY <1>1, <3>1
    <3> QED
      BY <1>1, <3>2, <3>3, <3>4, <3>5
  <2>2. CASE ~(Cardinality(seen[j]) >= SeenLimit)
    <3>1. kept = seen[j]
      BY <2>2 DEF kept
    <3>2. Cardinality(kept) < SeenLimit
      BY <1>1, <1>5, <2>2, <3>1
    <3> QED
      BY <1>4, <3>1, <3>2
  <2> QED
    BY <2>1, <2>2
<1>9. \A r \in seen'[j] : \E i \in 1..(n + 1) : plan[j][admitted'[j][i]] = r
  <2>1. \A r \in seen[j] : \E i \in 1..n : plan[j][admitted[j][i]] = r
    BY <1>1 DEF EraKept, n
  <2>2. n + 1 \in 1..(n + 1) /\ \A i \in 1..n : i \in 1..(n + 1)
    BY <1>1
  <2> QED
    BY <1>2, <1>3, <1>6, <2>1, <2>2 DEF request
<1>10. \A i \in 1..(n + 1) : i > begun => plan[j][admitted'[j][i]] \in seen'[j]
  BY <1>2, <1>3, <1>8 DEF request
<1>11. EraKept(j)'
  <2>1. begun + Cardinality(seen'[j]) = n + 1 /\ Cardinality(seen'[j]) <= SeenLimit
    <3>1. /\ n \in Nat /\ SeenLimit \in Nat /\ Cardinality(kept) \in Nat
          /\ Cardinality(seen'[j]) = Cardinality(kept) + 1
      BY <1>1, <1>6, <1>7
    <3>2. begun + Cardinality(kept) = n /\ Cardinality(kept) < SeenLimit
      BY <1>8
    <3> QED
      BY <3>1, <3>2
  <2>2. begun = d * SeenLimit
    BY <1>8
  <2> QED
    BY <1>2, <1>3, <1>7, <1>9, <1>10, <2>1, <2>2 DEF EraKept
<1>12. n \div SeenLimit = d
  <2>1. begun = d * SeenLimit /\ begun <= n /\ n < begun + SeenLimit
    BY <1>1, <1>6, <1>8
  <2> QED
    BY <1>1, <2>1, EraOf
<1>13. ASSUME NEW i \in 1..n, (i - 1) \div SeenLimit = d PROVE plan[j][admitted[j][i]] # request
  <2>1. i - 1 \in Nat /\ begun = d * SeenLimit
    BY <1>1, <1>8
  <2>2. ~(i - 1 < begun)
    BY <1>13, <2>1, EarlierEra
  <2>3. i > begun
    BY <1>1, <2>1, <2>2
  <2> QED
    BY <1>6, <1>8, <2>3
<1>14. UniqueInEras(j)'
  <2> SUFFICES ASSUME NEW i \in 1..(n + 1), NEW k \in 1..(n + 1), i < k, (i - 1) \div SeenLimit = (k - 1) \div SeenLimit
               PROVE  plan[j][admitted'[j][i]] # plan[j][admitted'[j][k]]
    BY <1>2, <1>3 DEF UniqueInEras
  <2>1. CASE k = n + 1
    <3>1. n \in Nat
      BY <1>1
    <3>2. i \in 1..n /\ k - 1 = n
      BY <2>1, <3>1
    <3>3. (i - 1) \div SeenLimit = d
      BY <1>12, <3>2
    <3> QED
      BY <1>3, <1>13, <2>1, <3>2, <3>3 DEF request
  <2>2. CASE k \in 1..n
    <3>1. i \in 1..n
      BY <1>1, <2>2
    <3>2. plan[j][admitted[j][i]] # plan[j][admitted[j][k]]
      BY <1>1, <2>2, <3>1 DEF UniqueInEras, n
    <3> QED
      BY <1>3, <2>2, <3>1, <3>2
  <2> QED
    BY <1>3, <2>1, <2>2
<1> QED
  BY <1>11, <1>14

\* No worker loses a mutation it was given, but for a reason.
LEMMA WorkerLosesNone ==
  ASSUME ScanInv, ScanBooks, NEW j \in ScanIds, NEW w \in ScanWorkers, WorkerStep(j, w)
  PROVE  NoneLost(j)'
<1> SUFFICES ASSUME stop'[j] = "Completed"
             PROVE  /\ \A i \in 1..Len(plan'[j]) : i <= cursor'[j] => SentEqual(j, i)' \/ InHands(j, i)'
                    /\ \A v \in ScanWorkers : worker'[j][v] = "exit" => cursor'[j] >= Len(plan'[j])
  BY DEF NoneLost
<1>1. /\ plan' = plan /\ stop[j] = "Completed" /\ NoneLost(j) /\ ScanTyped
      /\ \A v \in ScanWorkers : v # w => worker'[j][v] = worker[j][v] /\ hand'[j][v] = hand[j][v]
  BY WorkerBooks, WorkerLocal DEF ScanInv, ScanBooks
<1>2. /\ admitted[j] \in Seq(Nat) /\ Len(admitted[j]) \in Nat /\ cursor[j] \in Nat /\ Len(plan[j]) \in Nat /\ plan[j] \in Seq(Requests)
      /\ \A v \in ScanWorkers : hand[j][v] \in Nat
  BY <1>1 DEF ScanTyped
<1>3. \A i \in 1..Len(plan[j]) : SentEqual(j, i) => SentEqual(j, i)'
  <2>1. CASE admitted'[j] = admitted[j]
    BY <1>1, <2>1 DEF SentEqual
  <2>2. CASE admitted'[j] = Append(admitted[j], hand[j][w])
    <3>1. \A k \in 1..Len(admitted[j]) : k \in 1..Len(admitted'[j]) /\ admitted'[j][k] = admitted[j][k]
      BY <1>2, <2>2
    <3> QED
      BY <1>1, <3>1 DEF SentEqual
  <2> QED
    BY <1>1, <2>1, <2>2, WorkerOwn
<1>4. \A i \in 1..Len(plan[j]) : InHands(j, i) =>
        InHands(j, i)' \/ (hand[j][w] = i /\ worker[j][w] \in {"budget", "dedup"})
  BY <1>1 DEF InHands
<1>5. \A i \in 1..Len(plan[j]) : i <= cursor[j] => SentEqual(j, i)' \/ InHands(j, i)' \/ (hand[j][w] = i /\ worker[j][w] \in {"budget", "dedup"})
  BY <1>1, <1>3, <1>4 DEF NoneLost
<1>6. \A v \in ScanWorkers : v # w /\ worker'[j][v] = "exit" => cursor[j] >= Len(plan[j])
  BY <1>1 DEF NoneLost
<1> USE DEF ScanTyped, Works, Exits, SetStop, sharedVars
<1>7. CASE CheckCancel(j, w)
  <2>1. worker[j][w] = "check" /\ worker'[j][w] = "fetch" /\ cursor'[j] = cursor[j]
    BY <1>1, <1>7 DEF CheckCancel, ScanBooks, BooksTyped, Reasons
  <2> QED
    BY <1>1, <1>5, <1>6, <2>1
<1>8. CASE Fetch(j, w)
  <2>1. worker[j][w] = "fetch" /\ cursor'[j] = cursor[j] + 1 /\ hand'[j][w] = cursor[j] + 1
    BY <1>1, <1>8 DEF Fetch
  <2>2. \/ worker'[j][w] = "exit" /\ cursor[j] + 1 > Len(plan[j])
        \/ worker'[j][w] = "budget"
    BY <1>1, <1>8 DEF Fetch, ScanBooks, BooksTyped, Reasons
  <2>3. \A i \in 1..Len(plan[j]) : i <= cursor[j] => SentEqual(j, i)' \/ InHands(j, i)'
    BY <1>5, <2>1
  <2>4. \A i \in 1..Len(plan[j]) : i = cursor[j] + 1 => InHands(j, i)'
    BY <1>2, <2>1, <2>2 DEF InHands
  <2>5. \A i \in 1..Len(plan[j]) : i <= cursor'[j] => i <= cursor[j] \/ i = cursor[j] + 1
    BY <1>2, <2>1
  <2>6. \A v \in ScanWorkers : worker'[j][v] = "exit" => cursor'[j] >= Len(plan[j])
    BY <1>2, <1>6, <2>1, <2>2
  <2> QED
    BY <1>1, <2>3, <2>4, <2>5, <2>6
<1>9. CASE TakeBudget(j, w)
  <2>1. worker[j][w] = "budget" /\ worker'[j][w] = "dedup" /\ cursor'[j] = cursor[j] /\ hand'[j] = hand[j]
    BY <1>1, <1>9 DEF TakeBudget, ScanBooks, BooksTyped, Reasons
  <2>2. \A i \in 1..Len(plan[j]) : hand[j][w] = i => InHands(j, i)'
    BY <2>1 DEF InHands
  <2> QED
    BY <1>1, <1>5, <1>6, <2>1, <2>2
<1>10. CASE FirstSeen(j, w)
  <2>1. worker[j][w] = "dedup" /\ worker'[j][w] \in {"check", "pace"} /\ cursor'[j] = cursor[j] /\ hand'[j] = hand[j]
    BY <1>1, <1>10 DEF FirstSeen
  <2>2. ASSUME NEW i \in 1..Len(plan[j]), hand[j][w] = i PROVE SentEqual(j, i)'
    <3>1. CASE plan[j][hand[j][w]] \in seen[j]
      <4>1. admitted' = admitted /\ EraKept(j)
        BY <1>10, <3>1 DEF FirstSeen, ScanBooks
      <4>2. PICK k \in 1..Len(admitted[j]) : plan[j][admitted[j][k]] = plan[j][i]
        BY <2>2, <3>1, <4>1 DEF EraKept
      <4> QED
        BY <1>1, <4>1, <4>2 DEF SentEqual
    <3>2. CASE plan[j][hand[j][w]] \notin seen[j]
      <4>1. admitted'[j] = Append(admitted[j], hand[j][w])
        BY <1>1, <1>10, <3>2 DEF FirstSeen
      <4>2. Len(admitted[j]) + 1 \in 1..Len(admitted'[j]) /\ admitted'[j][Len(admitted[j]) + 1] = hand[j][w]
        BY <1>2, <4>1
      <4> QED
        BY <1>1, <2>2, <4>2 DEF SentEqual
    <3> QED
      BY <3>1, <3>2
  <2> QED
    BY <1>1, <1>5, <1>6, <2>1, <2>2
<1>11. CASE Pace(j, w)
  <2>1. worker[j][w] = "pace" /\ worker'[j][w] = "send" /\ cursor'[j] = cursor[j]
    BY <1>1, <1>11 DEF Pace
  <2> QED
    BY <1>1, <1>5, <1>6, <2>1
<1>12. CASE Execute(j, w)
  <2>1. worker[j][w] = "send" /\ worker'[j][w] \in {"check", "send"} /\ cursor'[j] = cursor[j]
    BY <1>1, <1>12 DEF Execute
  <2> QED
    BY <1>1, <1>5, <1>6, <2>1
<1> QED
  BY <1>7, <1>8, <1>9, <1>10, <1>11, <1>12 DEF WorkerStep

\* A step of a worker keeps the books right.
LEMMA WorkerKeepsBooks ==
  ASSUME ScanInv, ScanBooks, NEW j \in ScanIds, NEW w \in ScanWorkers, WorkerStep(j, w) PROVE ScanBooks'
<1>1. /\ BooksTyped' /\ plan' = plan /\ ScanTyped
      /\ \A a \in ScanIds : a # j => seen'[a] = seen[a] /\ stop'[a] = stop[a]
      /\ \A a \in ScanIds : a # j => worker'[a] = worker[a] /\ hand'[a] = hand[a] /\ cursor'[a] = cursor[a] /\ admitted'[a] = admitted[a]
  BY WorkerBooks, WorkerLocal DEF ScanInv, ScanBooks
<1>2. ASSUME NEW a \in ScanIds, a # j PROVE EraKept(a)' /\ UniqueInEras(a)' /\ NoneLost(a)' /\ NotStarted(a)'
  <2>1. /\ seen'[a] = seen[a] /\ stop'[a] = stop[a] /\ worker'[a] = worker[a] /\ hand'[a] = hand[a] /\ cursor'[a] = cursor[a]
        /\ admitted'[a] = admitted[a] /\ EraKept(a) /\ UniqueInEras(a) /\ NoneLost(a)
        /\ NotStarted(a) /\ phase' = phase
    BY <1>1, <1>2, WorkerLocal DEF ScanBooks, ScanInv
  <2> QED
    BY <1>1, <2>1 DEF EraKept, UniqueInEras, NoneLost, SentEqual, InHands, NotStarted
<1>3. EraKept(j)' /\ UniqueInEras(j)'
  <2>1. CASE worker[j][w] = "dedup" /\ worker'[j][w] = "pace"
    <3>1. FirstSeen(j, w)
      BY <2>1 DEF WorkerStep, CheckCancel, Fetch, TakeBudget, Pace, Execute
    <3> QED
      BY <2>1, <3>1, DedupKeeps
  <2>2. CASE ~(worker[j][w] = "dedup" /\ worker'[j][w] = "pace")
    <3>1. seen'[j] = seen[j] /\ admitted'[j] = admitted[j] /\ EraKept(j) /\ UniqueInEras(j)
      BY <2>2, WorkerBooks DEF ScanBooks
    <3> QED
      BY <1>1, <3>1 DEF EraKept, UniqueInEras
  <2> QED
    BY <2>1, <2>2
<1>4. NotStarted(j)'
  <2>1. worker[j][w] # "off"
    BY DEF WorkerStep, CheckCancel, Fetch, TakeBudget, FirstSeen, Pace, Execute
  <2>2. phase' = phase /\ NotStarted(j)
    BY WorkerLocal DEF ScanInv, ScanBooks
  <2> QED
    BY <2>1, <2>2 DEF NotStarted
<1> QED
  BY <1>1, <1>2, <1>3, <1>4, WorkerLosesNone DEF ScanBooks

\* So do the steps of the job itself, of the user and of the clock.
LEMMA JobKeepsBooks ==
  ASSUME ScanInv, ScanBooks, NEW j \in ScanIds, Submit(j) \/ JobStep(j) \/ CancelScan(j) \/ DeadlinePasses(j) PROVE ScanBooks'
<1>1. UNCHANGED <<plan, cursor, seen, stop, hand, tries, admitted>>
  BY DEF Submit, JobStep, Run, Join, PublishCompleted, Deregister, CancelScan, DeadlinePasses, jobVars, sharedVars, workerVars
<1>2. worker' = worker \/ (phase[j] = "submitted" /\ worker' = [worker EXCEPT ![j] = [w \in ScanWorkers |-> "check"]])
  BY DEF Submit, JobStep, Run, Join, PublishCompleted, Deregister, CancelScan, DeadlinePasses, workerVars
<1>3. BooksTyped'
  <2>1. tokens' \subseteq ScanIds /\ cancelled' \subseteq ScanIds /\ overdue' \subseteq ScanIds
    BY DEF ScanBooks, BooksTyped, Submit, JobStep, Run, Join, PublishCompleted, Deregister, CancelScan, DeadlinePasses, jobVars
  <2> QED
    BY <1>1, <2>1 DEF ScanBooks, BooksTyped
<1>4. ASSUME NEW a \in ScanIds PROVE EraKept(a)' /\ UniqueInEras(a)'
  <2>1. EraKept(a) /\ UniqueInEras(a)
    BY DEF ScanBooks
  <2>2. EraKept(a)'
    BY <1>1, <2>1 DEF EraKept
  <2> QED
    BY <1>1, <2>1, <2>2 DEF UniqueInEras
<1>5. ASSUME NEW a \in ScanIds PROVE NoneLost(a)'
  <2>1. NoneLost(a) /\ ScanTyped
    BY DEF ScanBooks, ScanInv
  <2>2. CASE worker'[a] = worker[a]
    BY <1>1, <2>1, <2>2 DEF NoneLost, SentEqual, InHands
  <2>3. CASE a = j /\ phase[j] = "submitted" /\ worker' = [worker EXCEPT ![j] = [w \in ScanWorkers |-> "check"]]
    <3>1. \A w \in ScanWorkers : worker[a][w] = "off" /\ worker'[a][w] = "check"
      BY <2>1, <2>3 DEF ScanBooks, NotStarted, ScanTyped
    <3> QED
      BY <1>1, <2>1, <3>1 DEF NoneLost, SentEqual, InHands
  <2> QED
    BY <1>2, <2>1, <2>2, <2>3 DEF ScanTyped
<1>6. ASSUME NEW a \in ScanIds PROVE NotStarted(a)'
  <2>1. NotStarted(a) /\ ScanTyped
    BY DEF ScanBooks, ScanInv
  <2>2. \/ UNCHANGED worker /\ (phase'[a] \in {"new", "submitted"} => phase[a] \in {"new", "submitted"})
        \/ phase' = [phase EXCEPT ![j] = "running"] /\ worker' = [worker EXCEPT ![j] = [w \in ScanWorkers |-> "check"]]
    BY <2>1 DEF ScanTyped, Phases, Submit, JobStep, Run, Join, PublishCompleted, Deregister, CancelScan, DeadlinePasses, jobVars, workerVars
  <2> QED
    BY <2>1, <2>2 DEF NotStarted, ScanTyped
<1> QED
  BY <1>3, <1>4, <1>5, <1>6 DEF ScanBooks

\* No step breaks the books.
LEMMA BooksStep == ScanInv /\ ScanBooks /\ [ScanNext]_scanVars => ScanBooks'
<1> SUFFICES ASSUME ScanInv, ScanBooks, [ScanNext]_scanVars PROVE ScanBooks'
  OBVIOUS
<1>1. ASSUME NEW j \in ScanIds, Submit(j) \/ JobStep(j) \/ CancelScan(j) \/ DeadlinePasses(j) PROVE ScanBooks'
  BY <1>1, JobKeepsBooks
<1>2. ASSUME NEW j \in ScanIds, NEW w \in ScanWorkers, WorkerStep(j, w) PROVE ScanBooks'
  BY <1>2, WorkerKeepsBooks
<1>3. CASE UNCHANGED scanVars
  <2>1. UNCHANGED <<phase, plan, tokens, cancelled, cursor, seen, stop, overdue, worker, hand, tries, admitted>>
    BY <1>3 DEF scanVars, jobVars, sharedVars, workerVars
  <2> QED
    BY <2>1 DEF ScanBooks, BooksTyped, EraKept, UniqueInEras, NoneLost, SentEqual, InHands, NotStarted
<1> QED
  BY <1>1, <1>2, <1>3 DEF ScanNext

\* For every number of jobs and workers, every plan, budget, size of the dedup and number of retries: what a
\* scan sends is what was planned (crates/scanner); beyond the bounds above, equal requests are sent once per
\* era of the dedup, and a run that reports Completed left nothing of its plan out.
THEOREM ScansFollowPlans == ScanSpec => []SentAsPlanned
BY ScanInitially, ScanStep, BooksInitially, BooksStep, BooksImply, PTL DEF ScanSpec

-------------------------------------------------------------------------------
(* How far a scan still is from its end                                      *)

\* The first places of two measures that differ decide between them.
LEMMA BelowThree ==
  ASSUME NEW a, NEW b, NEW c, NEW d, NEW e, NEW f,
         a < d \/ (a = d /\ b < e) \/ (a = d /\ b = e /\ c < f)
  PROVE  Below(<<a, b, c>>, <<d, e, f>>)
<1> DEFINE x == <<a, b, c>>
           y == <<d, e, f>>
<1>1. DOMAIN y = 1..3 /\ x[1] = a /\ x[2] = b /\ x[3] = c /\ y[1] = d /\ y[2] = e /\ y[3] = f
  OBVIOUS
<1> HIDE DEF x, y
<1>2. CASE a < d
  BY <1>1, <1>2 DEF Below
<1>3. CASE a = d /\ b < e
  <2>1. \A k \in DOMAIN y : k < 2 => k = 1
    BY <1>1
  <2> QED
    BY <1>1, <1>3, <2>1 DEF Below
<1>4. CASE a = d /\ b = e /\ c < f
  <2>1. \A k \in DOMAIN y : k < 3 => k = 1 \/ k = 2
    BY <1>1
  <2> QED
    BY <1>1, <1>4, <2>1 DEF Below
<1> QED
  BY <1>2, <1>3, <1>4 DEF x, y

\* What is left of a job's life, and of the way of a worker with one mutation.
PhaseLeft(p) ==
  CASE p = "new" -> 6 [] p = "submitted" -> 5 [] p = "running" -> 4 [] p = "finished" -> 3
    [] p = "published" -> 2 [] OTHER -> 1
PlaceLeft(p) ==
  CASE p = "off" -> 8 [] p = "budget" -> 7 [] p = "dedup" -> 6 [] p = "pace" -> 5 [] p = "send" -> 4
    [] p = "check" -> 3 [] p = "fetch" -> 2 [] OTHER -> 1

\* What a worker has left: mutations nobody has, steps with the one it has, retries of it.
ScanLeft(j, w) ==
  << IF cursor[j] < Len(plan[j]) THEN Len(plan[j]) - cursor[j] ELSE 0,
     PlaceLeft(worker[j][w]), RetryLimit - tries[j][w] >>

\* No step takes a job or a worker back, and those of their own take it on.
ScanDescends ==
  \A j \in ScanIds :
    /\ PhaseLeft(phase'[j]) <= PhaseLeft(phase[j]) /\ (JobStep(j) => PhaseLeft(phase'[j]) < PhaseLeft(phase[j]))
    /\ \A w \in ScanWorkers : /\ NotAbove(ScanLeft(j, w)', ScanLeft(j, w))
                              /\ WorkerStep(j, w) => Below(ScanLeft(j, w)', ScanLeft(j, w))

\* The measures are numbers.
LEMMA ScanLeftTyped ==
  ASSUME ScanTyped, BooksTyped
  PROVE  \A j \in ScanIds : /\ PhaseLeft(phase[j]) \in Nat
                            /\ \A w \in ScanWorkers : ScanLeft(j, w) \in Nat \X Nat \X Nat
<1> SUFFICES ASSUME NEW j \in ScanIds, NEW w \in ScanWorkers
             PROVE  PhaseLeft(phase[j]) \in Nat /\ ScanLeft(j, w) \in Nat \X Nat \X Nat
  BY LimitsAreNumbers
<1>1. plan[j] \in Seq(Requests) /\ cursor[j] \in Nat
  BY DEF ScanTyped
<1>2. (IF cursor[j] < Len(plan[j]) THEN Len(plan[j]) - cursor[j] ELSE 0) \in Nat
  BY <1>1
<1>3. RetryLimit - tries[j][w] \in Nat
  <2>1. tries[j][w] \in 0..RetryLimit
    BY DEF BooksTyped
  <2> QED
    BY <2>1, LimitsAreNumbers
<1> QED
  BY <1>2, <1>3 DEF ScanLeft, PhaseLeft, PlaceLeft

\* What a step of a worker does to the retries: only a failed attempt counts one, and an answer forgets them.
LEMMA WorkerTries ==
  ASSUME ScanTyped, BooksTyped, NEW j \in ScanIds, NEW w \in ScanWorkers, WorkerStep(j, w)
  PROVE  /\ \A v \in ScanWorkers : v # w => tries'[j][v] = tries[j][v]
         /\ \A a \in ScanIds : a # j => tries'[a] = tries[a]
         /\ worker[j][w] = "send" => \/ worker'[j][w] = "check"
                                     \/ worker' = worker /\ tries[j][w] < RetryLimit /\ tries'[j][w] = tries[j][w] + 1
<1>1. CASE Execute(j, w)
  <2>1. \/ worker' = [worker EXCEPT ![j][w] = "check"] /\ tries' = [tries EXCEPT ![j][w] = 0]
        \/ worker' = worker /\ tries[j][w] < RetryLimit /\ tries' = [tries EXCEPT ![j][w] = tries[j][w] + 1]
    BY <1>1 DEF Execute, Works
  <2>2. tries \in [ScanIds -> [ScanWorkers -> 0..RetryLimit]]
    BY DEF BooksTyped
  <2>3. \E n : tries' = [tries EXCEPT ![j][w] = n]
    BY <2>1
  <2>4. /\ \A v \in ScanWorkers : v # w => tries'[j][v] = tries[j][v]
        /\ \A a \in ScanIds : a # j => tries'[a] = tries[a]
    BY <2>2, <2>3
  <2>5. CASE worker' = [worker EXCEPT ![j][w] = "check"]
    <3>1. worker'[j][w] = "check"
      BY <2>5 DEF ScanTyped
    <3> QED
      BY <2>4, <3>1
  <2>6. CASE worker' = worker /\ tries[j][w] < RetryLimit /\ tries' = [tries EXCEPT ![j][w] = tries[j][w] + 1]
    <3>1. tries'[j][w] = tries[j][w] + 1
      BY <2>2, <2>6
    <3> QED
      BY <2>4, <2>6, <3>1
  <2> QED
    BY <2>1, <2>5, <2>6
<1>2. CASE ~Execute(j, w)
  <2>1. tries' = tries /\ worker[j][w] # "send"
    BY <1>2 DEF WorkerStep, CheckCancel, Fetch, TakeBudget, FirstSeen, Pace
  <2> QED
    BY <2>1
<1> QED
  BY <1>1, <1>2

\* What is left of a plan as its cursor moves.
LEMMA TogoFalls ==
  ASSUME NEW n \in Nat, NEW c \in Nat, NEW d \in Nat, c <= d
  PROVE  LET togo(x) == IF x < n THEN n - x ELSE 0 IN
         togo(d) <= togo(c) /\ (c < n /\ c < d => togo(d) < togo(c))
OBVIOUS

\* A worker's own step takes it on.
LEMMA WorkerDescends ==
  ASSUME ScanTyped, BooksTyped, NEW j \in ScanIds, NEW w \in ScanWorkers, WorkerStep(j, w)
  PROVE  Below(ScanLeft(j, w)', ScanLeft(j, w))
<1> DEFINE togo(c) == IF c < Len(plan[j]) THEN Len(plan[j]) - c ELSE 0
<1>1. plan' = plan /\ Len(plan[j]) \in Nat /\ cursor[j] \in Nat
  BY WorkerLocal DEF ScanTyped
<1>2. ScanLeft(j, w) = <<togo(cursor[j]), PlaceLeft(worker[j][w]), RetryLimit - tries[j][w]>>
  BY DEF ScanLeft
<1>3. ScanLeft(j, w)' = <<togo(cursor'[j]), PlaceLeft(worker'[j][w]), RetryLimit - tries'[j][w]>>
  BY <1>1 DEF ScanLeft
<1>4. CASE worker[j][w] = "fetch"
  <2>1. /\ worker'[j][w] \in {"exit", "budget"} /\ cursor'[j] = cursor[j] + 1
        /\ worker'[j][w] = "budget" => cursor[j] + 1 \in 1..Len(plan[j])
    BY <1>4, WorkerOwn
  <2>2. CASE cursor[j] < Len(plan[j])
    <3>1. togo(cursor'[j]) < togo(cursor[j])
      BY <1>1, <2>1, <2>2
    <3> HIDE DEF togo
    <3> QED
      BY <1>2, <1>3, <3>1, BelowThree
  <2>3. CASE ~(cursor[j] < Len(plan[j]))
    <3>1. togo(cursor'[j]) = togo(cursor[j])
      BY <1>1, <2>1, <2>3
    <3>2. worker'[j][w] = "exit"
      BY <1>1, <2>1, <2>3
    <3>3. PlaceLeft(worker'[j][w]) < PlaceLeft(worker[j][w])
      BY <1>4, <3>2 DEF PlaceLeft
    <3> HIDE DEF togo
    <3> QED
      BY <1>2, <1>3, <3>1, <3>3, BelowThree
  <2> QED
    BY <2>2, <2>3
<1>5. CASE worker[j][w] # "fetch" /\ worker'[j][w] # worker[j][w]
  <2>1. /\ cursor'[j] = cursor[j]
        /\ \/ worker[j][w] = "budget" /\ worker'[j][w] \in {"dedup", "exit", "check"}
           \/ worker[j][w] = "dedup" /\ worker'[j][w] \in {"pace", "exit", "check"}
           \/ worker[j][w] = "pace" /\ worker'[j][w] = "send"
           \/ worker[j][w] = "check" /\ worker'[j][w] \in {"exit", "fetch"}
           \/ worker[j][w] = "send" /\ worker'[j][w] = "check"
    BY <1>5, WorkerOwn
  <2>2. PlaceLeft(worker'[j][w]) < PlaceLeft(worker[j][w])
    BY <2>1 DEF PlaceLeft
  <2> HIDE DEF togo
  <2> QED
    BY <1>2, <1>3, <2>1, <2>2, BelowThree
<1>6. CASE worker[j][w] # "fetch" /\ worker'[j][w] = worker[j][w]
  <2>1. cursor'[j] = cursor[j] /\ worker[j][w] = "send"
    BY <1>6, WorkerOwn
  <2>2. tries[j][w] < RetryLimit /\ tries'[j][w] = tries[j][w] + 1
    BY <1>6, <2>1, WorkerTries
  <2>3. RetryLimit - tries'[j][w] < RetryLimit - tries[j][w]
    <3>1. tries[j][w] \in 0..RetryLimit
      BY DEF BooksTyped
    <3> QED
      BY <2>2, <3>1, LimitsAreNumbers
  <2> HIDE DEF togo
  <2> QED
    BY <1>2, <1>3, <1>6, <2>1, <2>3, BelowThree
<1> QED
  BY <1>4, <1>5, <1>6

\* It takes no other worker back.
LEMMA OthersDescend ==
  ASSUME ScanTyped, BooksTyped, NEW j \in ScanIds, NEW w \in ScanWorkers, WorkerStep(j, w),
         NEW a \in ScanIds, NEW v \in ScanWorkers, a # j \/ v # w
  PROVE  NotAbove(ScanLeft(a, v)', ScanLeft(a, v))
<1> DEFINE togo(c) == IF c < Len(plan[a]) THEN Len(plan[a]) - c ELSE 0
<1>1. plan' = plan /\ worker'[a][v] = worker[a][v] /\ tries'[a][v] = tries[a][v]
  BY WorkerLocal, WorkerTries
<1>2. Len(plan[a]) \in Nat /\ cursor[a] \in Nat /\ (cursor'[a] = cursor[a] \/ cursor'[a] = cursor[a] + 1)
  <2>1. cursor'[j] = cursor[j] \/ cursor'[j] = cursor[j] + 1
    BY WorkerOwn
  <2>2. a # j => cursor'[a] = cursor[a]
    BY WorkerLocal
  <2> QED
    BY <2>1, <2>2 DEF ScanTyped
<1>3. togo(cursor'[a]) <= togo(cursor[a]) /\ togo(cursor'[a]) \in Nat /\ togo(cursor[a]) \in Nat
  BY <1>2
<1>4. /\ ScanLeft(a, v) = <<togo(cursor[a]), PlaceLeft(worker[a][v]), RetryLimit - tries[a][v]>>
      /\ ScanLeft(a, v)' = <<togo(cursor'[a]), PlaceLeft(worker[a][v]), RetryLimit - tries[a][v]>>
  BY <1>1 DEF ScanLeft
<1> HIDE DEF togo
<1>5. togo(cursor'[a]) = togo(cursor[a]) \/ togo(cursor'[a]) < togo(cursor[a])
  BY <1>3
<1>6. CASE togo(cursor'[a]) < togo(cursor[a])
  BY <1>4, <1>6, BelowThree DEF NotAbove
<1> QED
  BY <1>4, <1>5, <1>6 DEF NotAbove

\* Nor does a step of the job, of the user or of the clock; a job starts its workers before they are under way.
LEMMA JobDescends ==
  ASSUME ScanTyped, ScanBooks, NEW j \in ScanIds, Submit(j) \/ JobStep(j) \/ CancelScan(j) \/ DeadlinePasses(j)
  PROVE  /\ \A a \in ScanIds : PhaseLeft(phase'[a]) <= PhaseLeft(phase[a])
         /\ \A a \in ScanIds, v \in ScanWorkers : NotAbove(ScanLeft(a, v)', ScanLeft(a, v))
<1>1. UNCHANGED <<plan, cursor, tries>>
  BY DEF Submit, JobStep, Run, Join, PublishCompleted, Deregister, CancelScan, DeadlinePasses, jobVars, sharedVars, workerVars
<1>2. worker' = worker \/ (phase[j] = "submitted" /\ worker' = [worker EXCEPT ![j] = [w \in ScanWorkers |-> "check"]])
  BY DEF Submit, JobStep, Run, Join, PublishCompleted, Deregister, CancelScan, DeadlinePasses, workerVars
<1>3. \/ phase' = phase
      \/ \E p \in Phases : PhaseLeft(p) < PhaseLeft(phase[j]) /\ phase' = [phase EXCEPT ![j] = p]
  BY DEF Phases, PhaseLeft, Submit, JobStep, Run, Join, PublishCompleted, Deregister, CancelScan, DeadlinePasses, jobVars
<1>4. ASSUME NEW a \in ScanIds PROVE PhaseLeft(phase'[a]) <= PhaseLeft(phase[a])
  <2>1. PhaseLeft(phase[a]) \in Nat
    BY DEF PhaseLeft
  <2>2. CASE phase'[a] = phase[a]
    BY <2>1, <2>2
  <2>3. CASE phase'[a] # phase[a]
    <3>1. a = j /\ \E p \in Phases : PhaseLeft(p) < PhaseLeft(phase[j]) /\ phase'[a] = p
      BY <1>3, <2>3 DEF ScanTyped
    <3>2. PhaseLeft(phase'[a]) < PhaseLeft(phase[a])
      BY <3>1
    <3> QED
      BY <2>1, <3>2 DEF PhaseLeft
  <2> QED
    BY <2>2, <2>3
<1>5. ASSUME NEW a \in ScanIds, NEW v \in ScanWorkers PROVE NotAbove(ScanLeft(a, v)', ScanLeft(a, v))
  <2> DEFINE togo == IF cursor[a] < Len(plan[a]) THEN Len(plan[a]) - cursor[a] ELSE 0
  <2>1. /\ ScanLeft(a, v) = <<togo, PlaceLeft(worker[a][v]), RetryLimit - tries[a][v]>>
        /\ ScanLeft(a, v)' = <<togo, PlaceLeft(worker'[a][v]), RetryLimit - tries[a][v]>>
    BY <1>1 DEF ScanLeft
  <2> HIDE DEF togo
  <2>2. CASE worker'[a][v] = worker[a][v]
    BY <2>1, <2>2 DEF NotAbove
  <2>3. CASE worker'[a][v] # worker[a][v]
    <3>1. phase[j] = "submitted" /\ worker' = [worker EXCEPT ![j] = [x \in ScanWorkers |-> "check"]]
      BY <1>2, <2>3
    <3>4. worker \in [ScanIds -> [ScanWorkers -> WorkerPlaces]]
      BY DEF ScanTyped
    <3>5. a = j
      BY <2>3, <3>1, <3>4
    <3>6. worker'[a][v] = "check"
      BY <3>1, <3>4, <3>5
    <3>2. worker[a][v] = "off"
      BY <3>1, <3>5 DEF ScanBooks, NotStarted
    <3>3. PlaceLeft(worker'[a][v]) < PlaceLeft(worker[a][v])
      BY <3>2, <3>6 DEF PlaceLeft
    <3> QED
      BY <2>1, <3>3, BelowThree DEF NotAbove
  <2> QED
    BY <2>2, <2>3
<1> QED
  BY <1>4, <1>5

\* A step that the scheduler owes a job ends its phase.
LEMMA PhaseEnds ==
  ASSUME ScanTyped, NEW j \in ScanIds, JobStep(j) PROVE PhaseLeft(phase'[j]) < PhaseLeft(phase[j])
<1>1. PICK p \in Phases : PhaseLeft(p) < PhaseLeft(phase[j]) /\ phase' = [phase EXCEPT ![j] = p]
  BY DEF Phases, PhaseLeft, JobStep, Run, Join, PublishCompleted, Deregister
<1>2. phase'[j] = p
  BY <1>1 DEF ScanTyped
<1> QED
  BY <1>1, <1>2

\* A scan comes to its end by its own steps (ScanEnds): each step that tokio owes a worker, or the
\* job itself, takes it on, through the places it passes with a mutation, the retries of it and the
\* mutations that are left, and nothing that other workers, the user or the clock do takes it back.
THEOREM ScansRunOut ==
  ScanSpec => /\ [](\A j \in ScanIds : /\ PhaseLeft(phase[j]) \in Nat
                                       /\ \A w \in ScanWorkers : ScanLeft(j, w) \in Nat \X Nat \X Nat)
              /\ [][ScanDescends]_scanVars
<1>1. ScanInv /\ ScanBooks => \A j \in ScanIds : /\ PhaseLeft(phase[j]) \in Nat
                                                 /\ \A w \in ScanWorkers : ScanLeft(j, w) \in Nat \X Nat \X Nat
  BY ScanLeftTyped DEF ScanInv, ScanBooks
<1>2. ScanInv /\ ScanBooks /\ [ScanNext]_scanVars => [ScanDescends]_scanVars
  <2> SUFFICES ASSUME ScanInv, ScanBooks, ScanNext PROVE ScanDescends
    OBVIOUS
  <2>1. ScanTyped /\ BooksTyped
    BY DEF ScanInv, ScanBooks
  <2>2. /\ \A j \in ScanIds : JobStep(j) => PhaseLeft(phase'[j]) < PhaseLeft(phase[j])
        /\ \A j \in ScanIds, w \in ScanWorkers : WorkerStep(j, w) => Below(ScanLeft(j, w)', ScanLeft(j, w))
    BY <2>1, PhaseEnds, WorkerDescends
  <2>3. PICK i \in ScanIds : \/ Submit(i) \/ JobStep(i) \/ CancelScan(i) \/ DeadlinePasses(i)
                             \/ \E w \in ScanWorkers : WorkerStep(i, w)
    BY DEF ScanNext
  <2>4. CASE Submit(i) \/ JobStep(i) \/ CancelScan(i) \/ DeadlinePasses(i)
    BY <2>1, <2>2, <2>4, JobDescends DEF ScanDescends
  <2>5. ASSUME NEW w \in ScanWorkers, WorkerStep(i, w) PROVE ScanDescends
    <3>1. \A a \in ScanIds, v \in ScanWorkers : NotAbove(ScanLeft(a, v)', ScanLeft(a, v))
      <4> TAKE a \in ScanIds, v \in ScanWorkers
      <4>1. CASE a = i /\ v = w
        BY <2>1, <2>5, <4>1, WorkerDescends DEF NotAbove
      <4>2. CASE a # i \/ v # w
        BY <2>1, <2>5, <4>2, OthersDescend
      <4> QED
        BY <4>1, <4>2
    <3>2. phase' = phase
      BY <2>1, <2>5, WorkerLocal
    <3>3. \A a \in ScanIds : PhaseLeft(phase[a]) <= PhaseLeft(phase[a])
      BY DEF PhaseLeft
    <3> QED
      BY <2>2, <3>1, <3>2, <3>3 DEF ScanDescends
  <2> QED
    BY <2>3, <2>4, <2>5
<1> QED
  BY <1>1, <1>2, ScanInitially, ScanStep, BooksInitially, BooksStep, PTL DEF ScanSpec

-------------------------------------------------------------------------------
(* SecurityRun, Generation                                                   *)

\* Steps of a run that has a test in hand, before its call, and once its loop is over.
InHand == {"ask", "wait", "cleanup", "budget", "pace"}
Before == {"new", "save", "saved", "refused", "dropped", "spawned"}
Over   == {"finish", "untoken", "unmap", "ended"}
SecSteps == InHand \cup Before \cup Over \cup {"loop", "send", "panicked"}

\* Types of the variables.
SecTyped ==
  /\ tests \in TestPlans /\ Len(tests) \in Nat /\ DOMAIN tests = 1..Len(tests) /\ at \in Nat /\ at <= Len(tests) + 1
  /\ secStep \in SecSteps /\ registry \subseteq {"token", "map"}
  /\ secCancelled \in BOOLEAN /\ approved \in BOOLEAN
  /\ pending \subseteq DOMAIN tests /\ reply \in [DOMAIN tests -> {"none", "yes", "no"}]
  /\ secBudget \in Nat /\ attempts \in 0..SecRetries
  /\ row \in {"none", "running", "completed", "cancelled", "failed"}
  /\ stopReason \in {"Completed", "Cancelled", "BudgetExhausted", "DurationExceeded"}
  /\ sent \in Seq(Nat) /\ skipped \subseteq DOMAIN tests
  /\ sentLate \in Nat

\* ... and of those of the calls that confirm.
CallsTyped ==
  /\ call \in [Confirms -> {"idle", "found", "ok", "not_found"}]
  /\ served \in [Confirms -> 0..Len(tests)]
  /\ DOMAIN asks = Confirms /\ \A c \in Confirms : call[c] # "idle" => asks[c].test \in DOMAIN tests

\* Where the loop is; the run is registered from its call to its end.
PlaceKnown ==
  /\ secStep \in Before => at = 0 /\ sent = <<>> /\ skipped = {} /\ pending = {}
  /\ secStep \in InHand \cup {"send"} => at \in DOMAIN tests
  /\ secStep = "loop" => at <= Len(tests)
  /\ registry = CASE secStep \in {"new", "ended"} -> {}
                  [] secStep \in {"save", "saved", "refused", "dropped", "spawned"} -> {"token"}
                  [] secStep = "unmap" -> {"map"}
                  [] OTHER -> {"token", "map"}

\* A call that named test i said yes to it.  This is the answer behind every reply, behind the approval of the
\* test in hand and behind every destructive test that was sent.
Said(i) == \E c \in Confirms : call[c] = "ok" /\ served[c] = i /\ asks[c].test = i /\ asks[c].yes
AnswersKnown ==
  /\ \A i \in DOMAIN tests : reply[i] = "yes" => Said(i)
  /\ secStep = "cleanup" /\ approved => Said(at)
  /\ secStep \in {"budget", "pace", "send"} /\ is_destructive(tests[at]) => Said(at)
  /\ \A i \in SentSet : is_destructive(tests[i]) => Said(i)

\* What was sent or skipped is behind the loop or in its hand, and nothing behind it is missing.
Covered(n) == \A i \in 1..n : i \in DOMAIN tests => i \in SentSet \cup skipped
Accounted ==
  /\ SentSet \cup skipped \subseteq DOMAIN tests /\ SentSet \cap skipped = {}
  /\ \A i \in SentSet \cup skipped : i <= at
  /\ IsFiniteSet(SentSet) /\ Cardinality(SentSet) = Len(sent)
  /\ secStep \in {"loop", "send"} => Covered(at)
  /\ secStep \in InHand => Covered(at - 1) /\ at \notin SentSet \cup skipped
  /\ secStep = "panicked" => Covered(at - 1)
  /\ secStep \in Over => IF stopReason = "Completed" THEN Covered(at) ELSE Covered(at - 1)

\* What is left of the budget, and why the run stops.
BudgetKept ==
  /\ secBudget + Len(sent) + (IF secStep = "pace" THEN 1 ELSE 0) = MaxRequests
  /\ stopReason \in {"BudgetExhausted", "DurationExceeded"} => secBudget = 0 /\ secStep \in Over
  /\ sentLate # 0 => sentLate = 1 /\ secCancelled /\ secStep \in Over \cup {"send", "loop", "panicked"}

\* The inductive invariant.
SecInv == SecTyped /\ CallsTyped /\ PlaceKnown /\ OnlyAwaitedSenders /\ AnswersKnown /\ Accounted /\ BudgetKept

-------------------------------------------------------------------------------

\* The plan is a sequence.
LEMMA PlanIsSequence == \A p \in TestPlans : Len(p) \in Nat /\ DOMAIN p = 1..Len(p) /\ \A i \in DOMAIN p : p[i] \in Test
BY SecurityAssumption

\* The budget and the retries are numbers.
LEMMA BoundsAreNumbers == MaxRequests \in Nat /\ SecRetries \in Nat
BY SecurityAssumption

\* One more test is sent.
LEMMA OneMoreSent ==
  ASSUME SecTyped, sent' = Append(sent, at)
  PROVE  /\ sent' \in Seq(Nat) /\ Len(sent') = Len(sent) + 1 /\ Len(sent) \in Nat
         /\ SentSet' = SentSet \cup {at}
<1>1. sent \in Seq(Nat) /\ at \in Nat
  BY DEF SecTyped
<1>2. /\ sent' \in Seq(Nat) /\ Len(sent') = Len(sent) + 1 /\ Len(sent) \in Nat
      /\ DOMAIN sent = 1..Len(sent) /\ DOMAIN sent' = 1..(Len(sent) + 1)
      /\ sent'[Len(sent) + 1] = at /\ \A k \in 1..Len(sent) : sent'[k] = sent[k]
  BY <1>1
<1>3. \A k \in 1..(Len(sent) + 1) : k \in 1..Len(sent) \/ k = Len(sent) + 1
  BY <1>2
<1>4. 1..Len(sent) \subseteq 1..(Len(sent) + 1) /\ Len(sent) + 1 \in 1..(Len(sent) + 1)
  BY <1>2
<1> QED
  BY <1>2, <1>3, <1>4 DEF SentSet

\* The invariant implies what is checked.
LEMMA SecImplies == SecInv => ConfirmationsMatch /\ TestsAccounted
<1> SUFFICES ASSUME SecInv PROVE ConfirmationsMatch /\ TestsAccounted
  OBVIOUS
<1>1. AnswersObeyed /\ OnlyAwaitedSenders
  BY DEF SecInv, AnswersKnown, AnswersObeyed, Said
<1>2. SecTypeOK
  <2>1. at \in 0..(Len(tests) + 1) /\ Len(sent) \in Nat
    BY DEF SecInv, SecTyped
  <2>2. secBudget \in 0..MaxRequests
    BY <2>1, BoundsAreNumbers DEF SecInv, SecTyped, BudgetKept
  <2> QED
    BY <2>1, <2>2 DEF SecInv, SecTyped, CallsTyped, Accounted, SecTypeOK, SecSteps, InHand, Before, Over
<1>3. EveryTestAccounted
  <2>1. at \in Nat /\ Len(tests) \in Nat /\ DOMAIN tests = 1..Len(tests) /\ secStep \in SecSteps
    BY DEF SecInv, SecTyped
  <2>2. \A n \in Int : Covered(n) => Covered(n - 1) /\ \A i \in 1..n : i <= Len(tests) => i \in SentSet \cup skipped
    BY <2>1 DEF Covered
  <2>3. secStep \in Before => at = 0
    BY DEF SecInv, PlaceKnown
  <2>4. secStep \in InHand \cup {"send", "loop"} => at <= Len(tests) /\ Covered(at - 1) /\ (secStep = "loop" => Covered(at))
    BY <2>1, <2>2 DEF SecInv, PlaceKnown, Accounted
  <2>5. secStep \in Over => Covered(at - 1) /\ (stopReason = "Completed" => Covered(at))
    BY <2>1, <2>2 DEF SecInv, Accounted
  <2>6. Cardinality(SentSet) = Len(sent) /\ SentSet \cap skipped = {}
    BY DEF SecInv, Accounted
  <2>7. Covered(-1)
    BY DEF Covered
  <2> QED
    <3>1. CASE secStep \in Before
      <4>1. at = 0
        BY <2>3, <3>1
      <4> QED
        BY <2>1, <2>6, <3>1, <4>1 DEF EveryTestAccounted, Before
    <3>2. CASE secStep \in InHand \cup {"send", "loop"}
      BY <2>1, <2>2, <2>4, <2>6, <3>2 DEF EveryTestAccounted, InHand
    <3>3. CASE secStep \in Over
      BY <2>1, <2>2, <2>5, <2>6, <3>3 DEF EveryTestAccounted, Over
    <3>4. CASE secStep = "panicked"
      <4>1. Covered(at - 1)
        BY <3>4 DEF SecInv, Accounted
      <4> QED
        BY <2>1, <2>2, <2>6, <3>4, <4>1 DEF EveryTestAccounted
    <3> QED
      BY <2>1, <3>1, <3>2, <3>3, <3>4 DEF SecSteps
<1>4. CancelStopsTests
  BY DEF SecInv, SecTyped, BudgetKept, CancelStopsTests
<1>5. TestsWithinBudget
  <2>1. Len(sent) \in Nat
    BY DEF SecInv, SecTyped
  <2> QED
    BY <2>1, BoundsAreNumbers DEF SecInv, SecTyped, BudgetKept, TestsWithinBudget, Over
<1>6. RegistriesFollow
  BY DEF SecInv, PlaceKnown, RegistriesFollow
<1> QED
  BY <1>1, <1>2, <1>3, <1>4, <1>5, <1>6 DEF ConfirmationsMatch, TestsAccounted

\* The invariant holds before the run is called.
LEMMA SecInitially == SecInit => SecInv
<1> SUFFICES ASSUME SecInit PROVE SecInv
  OBVIOUS
<1>0. /\ sent = <<>> /\ at = 0 /\ sentLate = 0 /\ attempts = 0 /\ secBudget = MaxRequests
      /\ stopReason = "Completed" /\ secStep = "new"
  BY Zenon DEF SecInit
<1>9. <<>> \in Seq(Nat) /\ Len(<<>>) = 0 /\ DOMAIN <<>> = {}
  OBVIOUS
<1>1. SecTyped
  <2>1. Len(tests) \in Nat /\ DOMAIN tests = 1..Len(tests) /\ tests \in TestPlans
    BY PlanIsSequence DEF SecInit
  <2>2. at \in Nat /\ at <= Len(tests) + 1 /\ sentLate \in Nat /\ attempts \in 0..SecRetries /\ secBudget \in Nat
    BY <1>0, <2>1, BoundsAreNumbers
  <2>3. reply \in [DOMAIN tests -> {"none", "yes", "no"}] /\ secStep \in SecSteps
    BY DEF SecInit, SecSteps, Before
  <2> QED
    BY <1>0, <1>9, <2>1, <2>2, <2>3 DEF SecInit, SecTyped
<1>2. CallsTyped
  <2>1. 0 \in 0..Len(tests)
    BY <1>1 DEF SecTyped
  <2> QED
    BY <2>1 DEF SecInit, CallsTyped
<1>3. SentSet = {}
  BY <1>0, <1>9 DEF SentSet
<1>4. IsFiniteSet(SentSet) /\ Cardinality(SentSet) = Len(sent)
  BY <1>3, FS_EmptySet DEF SecInit
<1>5. PlaceKnown /\ OnlyAwaitedSenders
  BY DEF SecInit, PlaceKnown, OnlyAwaitedSenders, InHand, Before
<1>6. AnswersKnown
  BY <1>3 DEF SecInit, AnswersKnown
<1>7. Accounted
  BY <1>3, <1>4 DEF SecInit, Accounted, InHand, Over
<1>8. BudgetKept
  BY <1>0, <1>9, BoundsAreNumbers DEF BudgetKept
<1> QED
  BY <1>1, <1>2, <1>5, <1>6, <1>7, <1>8 DEF SecInv

\* The run is called.
LEMMA CalledStep ==
  ASSUME SecInv,
         secStep = "new",
         secStep' = "save",
         registry' = {"token"},
         UNCHANGED <<tests, at, secCancelled, pending, reply, approved, secBudget, attempts, row, stopReason, sent, skipped, call, asks, served, httpSends, sentLate>>
  PROVE  SecInv'
<1>0. SentSet' = SentSet /\ Len(sent') = Len(sent) /\ Len(sent) \in Nat
  <2>1. sent' = sent
    OBVIOUS
  <2>2. sent \in Seq(Nat)
    BY DEF SecInv, SecTyped
  <2> QED
    BY <2>1, <2>2 DEF SentSet
<1>1. SecTyped' /\ CallsTyped'
  BY BoundsAreNumbers DEF SecInv, SecTyped, CallsTyped, PlaceKnown, SecSteps, InHand, Before, Over
<1>2. PlaceKnown'
  BY DEF SecInv, SecTyped, PlaceKnown, SecSteps, InHand, Before, Over
<1>3. OnlyAwaitedSenders'
  BY DEF SecInv, OnlyAwaitedSenders, PlaceKnown, InHand
<1>4. AnswersKnown'
  BY <1>0 DEF SecInv, SecTyped, AnswersKnown, Said
<1>5. Accounted'
  BY <1>0 DEF SecInv, SecTyped, PlaceKnown, Accounted, Covered, SecSteps, InHand, Before, Over
<1>6. BudgetKept'
  BY <1>0, BoundsAreNumbers DEF SecInv, SecTyped, BudgetKept, Over
<1> QED
  BY <1>1, <1>2, <1>3, <1>4, <1>5, <1>6 DEF SecInv

\* Its row is saved, or not; the task is spawned, or the handler is dropped before.
LEMMA SavedStep ==
  ASSUME SecInv,
         secStep \in {"save", "saved"},
         secStep' \in {"saved", "spawned", "refused", "dropped"},
         row' \in {"running", row},
         UNCHANGED <<tests, at, registry, secCancelled, pending, reply, approved, secBudget, attempts, stopReason, sent, skipped, call, asks, served, httpSends, sentLate>>
  PROVE  SecInv'
<1>0. SentSet' = SentSet /\ Len(sent') = Len(sent) /\ Len(sent) \in Nat
  <2>1. sent' = sent
    OBVIOUS
  <2>2. sent \in Seq(Nat)
    BY DEF SecInv, SecTyped
  <2> QED
    BY <2>1, <2>2 DEF SentSet
<1>1. SecTyped' /\ CallsTyped'
  BY BoundsAreNumbers DEF SecInv, SecTyped, CallsTyped, PlaceKnown, SecSteps, InHand, Before, Over
<1>2. PlaceKnown'
  BY DEF SecInv, SecTyped, PlaceKnown, SecSteps, InHand, Before, Over
<1>3. OnlyAwaitedSenders'
  BY DEF SecInv, OnlyAwaitedSenders, PlaceKnown, InHand
<1>4. AnswersKnown'
  BY <1>0 DEF SecInv, SecTyped, AnswersKnown, Said
<1>5. Accounted'
  BY <1>0 DEF SecInv, SecTyped, PlaceKnown, Accounted, Covered, SecSteps, InHand, Before, Over
<1>6. BudgetKept'
  BY <1>0, BoundsAreNumbers DEF SecInv, SecTyped, BudgetKept, Over
<1> QED
  BY <1>1, <1>2, <1>3, <1>4, <1>5, <1>6 DEF SecInv

\* The executor is made, or not.
LEMMA OpenedStep ==
  ASSUME SecInv,
         secStep = "spawned",
         registry' = registry \cup {"map"},
         secStep' \in {"loop", "untoken"},
         row' \in {row, "failed"},
         UNCHANGED <<tests, at, secCancelled, pending, reply, approved, secBudget, attempts, stopReason, sent, skipped, call, asks, served, httpSends, sentLate>>
  PROVE  SecInv'
<1>0. SentSet' = SentSet /\ Len(sent') = Len(sent) /\ Len(sent) \in Nat
  <2>1. sent' = sent
    OBVIOUS
  <2>2. sent \in Seq(Nat)
    BY DEF SecInv, SecTyped
  <2> QED
    BY <2>1, <2>2 DEF SentSet
<1>1. SecTyped' /\ CallsTyped'
  BY BoundsAreNumbers DEF SecInv, SecTyped, CallsTyped, PlaceKnown, SecSteps, InHand, Before, Over
<1>2. PlaceKnown'
  BY DEF SecInv, SecTyped, PlaceKnown, SecSteps, InHand, Before, Over
<1>3. OnlyAwaitedSenders'
  BY DEF SecInv, OnlyAwaitedSenders, PlaceKnown, InHand
<1>4. AnswersKnown'
  BY <1>0 DEF SecInv, SecTyped, AnswersKnown, Said
<1>5. Accounted'
  BY <1>0 DEF SecInv, SecTyped, PlaceKnown, Accounted, Covered, SecSteps, InHand, Before, Over
<1>6. BudgetKept'
  BY <1>0, BoundsAreNumbers DEF SecInv, SecTyped, BudgetKept, Over
<1> QED
  BY <1>1, <1>2, <1>3, <1>4, <1>5, <1>6 DEF SecInv

\* The row says how the run ended.
LEMMA FinishedStep ==
  ASSUME SecInv,
         secStep = "finish",
         secStep' = "untoken",
         row' \in {row, "cancelled", "completed"},
         UNCHANGED <<tests, at, registry, secCancelled, pending, reply, approved, secBudget, attempts, stopReason, sent, skipped, call, asks, served, httpSends, sentLate>>
  PROVE  SecInv'
<1>0. SentSet' = SentSet /\ Len(sent') = Len(sent) /\ Len(sent) \in Nat
  <2>1. sent' = sent
    OBVIOUS
  <2>2. sent \in Seq(Nat)
    BY DEF SecInv, SecTyped
  <2> QED
    BY <2>1, <2>2 DEF SentSet
<1>1. SecTyped' /\ CallsTyped'
  BY BoundsAreNumbers DEF SecInv, SecTyped, CallsTyped, PlaceKnown, SecSteps, InHand, Before, Over
<1>2. PlaceKnown'
  BY DEF SecInv, SecTyped, PlaceKnown, SecSteps, InHand, Before, Over
<1>3. OnlyAwaitedSenders'
  BY DEF SecInv, OnlyAwaitedSenders, PlaceKnown, InHand
<1>4. AnswersKnown'
  BY <1>0 DEF SecInv, SecTyped, AnswersKnown, Said
<1>5. Accounted'
  BY <1>0 DEF SecInv, SecTyped, PlaceKnown, Accounted, Covered, SecSteps, InHand, Before, Over
<1>6. BudgetKept'
  BY <1>0, BoundsAreNumbers DEF SecInv, SecTyped, BudgetKept, Over
<1> QED
  BY <1>1, <1>2, <1>3, <1>4, <1>5, <1>6 DEF SecInv

\* Its token goes.
LEMMA UntokenStep ==
  ASSUME SecInv,
         secStep = "untoken",
         secStep' = "unmap",
         registry' = registry \ {"token"},
         UNCHANGED <<tests, at, secCancelled, pending, reply, approved, secBudget, attempts, row, stopReason, sent, skipped, call, asks, served, httpSends, sentLate>>
  PROVE  SecInv'
<1>0. SentSet' = SentSet /\ Len(sent') = Len(sent) /\ Len(sent) \in Nat
  <2>1. sent' = sent
    OBVIOUS
  <2>2. sent \in Seq(Nat)
    BY DEF SecInv, SecTyped
  <2> QED
    BY <2>1, <2>2 DEF SentSet
<1>1. SecTyped' /\ CallsTyped'
  BY BoundsAreNumbers DEF SecInv, SecTyped, CallsTyped, PlaceKnown, SecSteps, InHand, Before, Over
<1>2. PlaceKnown'
  BY DEF SecInv, SecTyped, PlaceKnown, SecSteps, InHand, Before, Over
<1>3. OnlyAwaitedSenders'
  BY DEF SecInv, OnlyAwaitedSenders, PlaceKnown, InHand
<1>4. AnswersKnown'
  BY <1>0 DEF SecInv, SecTyped, AnswersKnown, Said
<1>5. Accounted'
  BY <1>0 DEF SecInv, SecTyped, PlaceKnown, Accounted, Covered, SecSteps, InHand, Before, Over
<1>6. BudgetKept'
  BY <1>0, BoundsAreNumbers DEF SecInv, SecTyped, BudgetKept, Over
<1> QED
  BY <1>1, <1>2, <1>3, <1>4, <1>5, <1>6 DEF SecInv

\* Its map goes.
LEMMA UnmapStep ==
  ASSUME SecInv,
         secStep = "unmap",
         secStep' = "ended",
         registry' = registry \ {"map"},
         UNCHANGED <<tests, at, secCancelled, pending, reply, approved, secBudget, attempts, row, stopReason, sent, skipped, call, asks, served, httpSends, sentLate>>
  PROVE  SecInv'
<1>0. SentSet' = SentSet /\ Len(sent') = Len(sent) /\ Len(sent) \in Nat
  <2>1. sent' = sent
    OBVIOUS
  <2>2. sent \in Seq(Nat)
    BY DEF SecInv, SecTyped
  <2> QED
    BY <2>1, <2>2 DEF SentSet
<1>1. SecTyped' /\ CallsTyped'
  BY BoundsAreNumbers DEF SecInv, SecTyped, CallsTyped, PlaceKnown, SecSteps, InHand, Before, Over
<1>2. PlaceKnown'
  BY DEF SecInv, SecTyped, PlaceKnown, SecSteps, InHand, Before, Over
<1>3. OnlyAwaitedSenders'
  BY DEF SecInv, OnlyAwaitedSenders, PlaceKnown, InHand
<1>4. AnswersKnown'
  BY <1>0 DEF SecInv, SecTyped, AnswersKnown, Said
<1>5. Accounted'
  BY <1>0 DEF SecInv, SecTyped, PlaceKnown, Accounted, Covered, SecSteps, InHand, Before, Over
<1>6. BudgetKept'
  BY <1>0, BoundsAreNumbers DEF SecInv, SecTyped, BudgetKept, Over
<1> QED
  BY <1>1, <1>2, <1>3, <1>4, <1>5, <1>6 DEF SecInv

\* The loop is over, or cancelled.
LEMMA StopsAtHead ==
  ASSUME SecInv,
         secStep = "loop",
         at' = at + 1,
         secStep' = "finish",
         \/ at = Len(tests) /\ stopReason' = "Completed"
         \/ at # Len(tests) /\ stopReason' = "Cancelled",
         UNCHANGED <<tests, registry, secCancelled, pending, reply, approved, secBudget, attempts, row, sent, skipped, call, asks, served, httpSends, sentLate>>
  PROVE  SecInv'
<1>0. SentSet' = SentSet /\ Len(sent') = Len(sent) /\ Len(sent) \in Nat
  <2>1. sent' = sent
    OBVIOUS
  <2>2. sent \in Seq(Nat)
    BY DEF SecInv, SecTyped
  <2> QED
    BY <2>1, <2>2 DEF SentSet
<1>1. SecTyped' /\ CallsTyped'
  BY BoundsAreNumbers DEF SecInv, SecTyped, CallsTyped, PlaceKnown, SecSteps, InHand, Before, Over
<1>2. PlaceKnown'
  BY DEF SecInv, SecTyped, PlaceKnown, SecSteps, InHand, Before, Over
<1>3. OnlyAwaitedSenders'
  BY DEF SecInv, OnlyAwaitedSenders, PlaceKnown, InHand
<1>4. AnswersKnown'
  BY <1>0 DEF SecInv, SecTyped, AnswersKnown, Said
<1>5. Accounted'
  BY <1>0 DEF SecInv, SecTyped, PlaceKnown, Accounted, Covered, SecSteps, InHand, Before, Over
<1>6. BudgetKept'
  BY <1>0, BoundsAreNumbers DEF SecInv, SecTyped, BudgetKept, Over
<1> QED
  BY <1>1, <1>2, <1>3, <1>4, <1>5, <1>6 DEF SecInv

\* A test outside the scope is skipped.
LEMMA SkipsAtHead ==
  ASSUME SecInv,
         secStep = "loop",
         at # Len(tests),
         ~secCancelled,
         at' = at + 1,
         secStep' = "loop",
         skipped' = skipped \cup {at + 1},
         UNCHANGED <<tests, registry, secCancelled, pending, reply, approved, secBudget, attempts, row, stopReason, sent, call, asks, served, httpSends, sentLate>>
  PROVE  SecInv'
<1>0. SentSet' = SentSet /\ Len(sent') = Len(sent) /\ Len(sent) \in Nat
  <2>1. sent' = sent
    OBVIOUS
  <2>2. sent \in Seq(Nat)
    BY DEF SecInv, SecTyped
  <2> QED
    BY <2>1, <2>2 DEF SentSet
<1>1. SecTyped' /\ CallsTyped'
  BY BoundsAreNumbers DEF SecInv, SecTyped, CallsTyped, PlaceKnown, SecSteps, InHand, Before, Over
<1>2. PlaceKnown'
  BY DEF SecInv, SecTyped, PlaceKnown, SecSteps, InHand, Before, Over
<1>3. OnlyAwaitedSenders'
  BY DEF SecInv, OnlyAwaitedSenders, PlaceKnown, InHand
<1>4. AnswersKnown'
  BY <1>0 DEF SecInv, SecTyped, AnswersKnown, Said
<1>5. Accounted'
  BY <1>0 DEF SecInv, SecTyped, PlaceKnown, Accounted, Covered, SecSteps, InHand, Before, Over
<1>6. BudgetKept'
  BY <1>0, BoundsAreNumbers DEF SecInv, SecTyped, BudgetKept, Over
<1> QED
  BY <1>1, <1>2, <1>3, <1>4, <1>5, <1>6 DEF SecInv

\* A test is taken in hand.
LEMMA TakesTest ==
  ASSUME SecInv,
         secStep = "loop",
         at # Len(tests),
         ~secCancelled,
         at' = at + 1,
         secStep' = (IF is_destructive(tests[at + 1]) THEN "ask" ELSE "budget"),
         UNCHANGED <<tests, registry, secCancelled, pending, reply, approved, secBudget, attempts, row, stopReason, sent, skipped, call, asks, served, httpSends, sentLate>>
  PROVE  SecInv'
<1>0. SentSet' = SentSet /\ Len(sent') = Len(sent) /\ Len(sent) \in Nat
  <2>1. sent' = sent
    OBVIOUS
  <2>2. sent \in Seq(Nat)
    BY DEF SecInv, SecTyped
  <2> QED
    BY <2>1, <2>2 DEF SentSet
<1>1. SecTyped' /\ CallsTyped'
  BY BoundsAreNumbers DEF SecInv, SecTyped, CallsTyped, PlaceKnown, SecSteps, InHand, Before, Over
<1>2. PlaceKnown'
  BY DEF SecInv, SecTyped, PlaceKnown, SecSteps, InHand, Before, Over
<1>3. OnlyAwaitedSenders'
  BY DEF SecInv, OnlyAwaitedSenders, PlaceKnown, InHand
<1>4. AnswersKnown'
  BY <1>0 DEF SecInv, SecTyped, AnswersKnown, Said
<1>5. Accounted'
  BY <1>0 DEF SecInv, SecTyped, PlaceKnown, Accounted, Covered, SecSteps, InHand, Before, Over
<1>6. BudgetKept'
  BY <1>0, BoundsAreNumbers DEF SecInv, SecTyped, BudgetKept, Over
<1> QED
  BY <1>1, <1>2, <1>3, <1>4, <1>5, <1>6 DEF SecInv

\* A test that cannot be built ends the task.
LEMMA PanicsAtHead ==
  ASSUME SecInv,
         secStep = "loop",
         at # Len(tests),
         ~secCancelled,
         at' = at + 1,
         secStep' = "panicked",
         UNCHANGED <<tests, registry, secCancelled, pending, reply, approved, secBudget, attempts, row, stopReason, sent, skipped, call, asks, served, httpSends, sentLate>>
  PROVE  SecInv'
<1>0. SentSet' = SentSet /\ Len(sent') = Len(sent) /\ Len(sent) \in Nat
  <2>1. sent' = sent
    OBVIOUS
  <2>2. sent \in Seq(Nat)
    BY DEF SecInv, SecTyped
  <2> QED
    BY <2>1, <2>2 DEF SentSet
<1>1. SecTyped' /\ CallsTyped'
  BY BoundsAreNumbers DEF SecInv, SecTyped, CallsTyped, PlaceKnown, SecSteps, InHand, Before, Over
<1>2. PlaceKnown'
  BY DEF SecInv, SecTyped, PlaceKnown, SecSteps, InHand, Before, Over
<1>3. OnlyAwaitedSenders'
  BY DEF SecInv, OnlyAwaitedSenders, PlaceKnown, InHand
<1>4. AnswersKnown'
  BY <1>0 DEF SecInv, SecTyped, AnswersKnown, Said
<1>5. Accounted'
  BY <1>0 DEF SecInv, SecTyped, PlaceKnown, Accounted, Covered, SecSteps, InHand, Before, Over
<1>6. BudgetKept'
  BY <1>0, BoundsAreNumbers DEF SecInv, SecTyped, BudgetKept, Over
<1> QED
  BY <1>1, <1>2, <1>3, <1>4, <1>5, <1>6 DEF SecInv

\* The question is asked.
LEMMA AskStep ==
  ASSUME SecInv,
         secStep = "ask",
         secStep' = "wait",
         pending' = pending \cup {at},
         UNCHANGED <<tests, at, registry, secCancelled, reply, approved, secBudget, attempts, row, stopReason, sent, skipped, call, asks, served, httpSends, sentLate>>
  PROVE  SecInv'
<1>0. SentSet' = SentSet /\ Len(sent') = Len(sent) /\ Len(sent) \in Nat
  <2>1. sent' = sent
    OBVIOUS
  <2>2. sent \in Seq(Nat)
    BY DEF SecInv, SecTyped
  <2> QED
    BY <2>1, <2>2 DEF SentSet
<1>1. SecTyped' /\ CallsTyped'
  BY BoundsAreNumbers DEF SecInv, SecTyped, CallsTyped, PlaceKnown, SecSteps, InHand, Before, Over
<1>2. PlaceKnown'
  BY DEF SecInv, SecTyped, PlaceKnown, SecSteps, InHand, Before, Over
<1>3. OnlyAwaitedSenders'
  BY DEF SecInv, OnlyAwaitedSenders, PlaceKnown, InHand
<1>4. AnswersKnown'
  BY <1>0 DEF SecInv, SecTyped, AnswersKnown, Said
<1>5. Accounted'
  BY <1>0 DEF SecInv, SecTyped, PlaceKnown, Accounted, Covered, SecSteps, InHand, Before, Over
<1>6. BudgetKept'
  BY <1>0, BoundsAreNumbers DEF SecInv, SecTyped, BudgetKept, Over
<1> QED
  BY <1>1, <1>2, <1>3, <1>4, <1>5, <1>6 DEF SecInv

\* The wait is over.
LEMMA AwaitStep ==
  ASSUME SecInv,
         secStep = "wait",
         secStep' = "cleanup",
         approved' = FALSE \/ approved' = (reply[at] = "yes"),
         UNCHANGED <<tests, at, registry, secCancelled, pending, reply, secBudget, attempts, row, stopReason, sent, skipped, call, asks, served, httpSends, sentLate>>
  PROVE  SecInv'
<1>0. SentSet' = SentSet /\ Len(sent') = Len(sent) /\ Len(sent) \in Nat
  <2>1. sent' = sent
    OBVIOUS
  <2>2. sent \in Seq(Nat)
    BY DEF SecInv, SecTyped
  <2> QED
    BY <2>1, <2>2 DEF SentSet
<1>1. SecTyped' /\ CallsTyped'
  BY BoundsAreNumbers DEF SecInv, SecTyped, CallsTyped, PlaceKnown, SecSteps, InHand, Before, Over
<1>2. PlaceKnown'
  BY DEF SecInv, SecTyped, PlaceKnown, SecSteps, InHand, Before, Over
<1>3. OnlyAwaitedSenders'
  BY DEF SecInv, OnlyAwaitedSenders, PlaceKnown, InHand
<1>4. AnswersKnown'
  <2>1. approved' => Said(at)
    BY DEF SecInv, SecTyped, AnswersKnown, PlaceKnown, InHand
  <2>2. \A n : Said(n)' <=> Said(n)
    BY DEF Said
  <2> QED
    BY <1>0, <2>1, <2>2 DEF SecInv, AnswersKnown
<1>5. Accounted'
  BY <1>0 DEF SecInv, SecTyped, PlaceKnown, Accounted, Covered, SecSteps, InHand, Before, Over
<1>6. BudgetKept'
  BY <1>0, BoundsAreNumbers DEF SecInv, SecTyped, BudgetKept, Over
<1> QED
  BY <1>1, <1>2, <1>3, <1>4, <1>5, <1>6 DEF SecInv

\* The sender is taken out of the map.
LEMMA CleanupStep ==
  ASSUME SecInv,
         secStep = "cleanup",
         secStep' = (IF approved THEN "budget" ELSE "loop"),
         pending' = pending \ {at},
         skipped' = (IF approved THEN skipped ELSE skipped \cup {at}),
         UNCHANGED <<tests, at, registry, secCancelled, reply, approved, secBudget, attempts, row, stopReason, sent, call, asks, served, httpSends, sentLate>>
  PROVE  SecInv'
<1>0. SentSet' = SentSet /\ Len(sent') = Len(sent) /\ Len(sent) \in Nat
  <2>1. sent' = sent
    OBVIOUS
  <2>2. sent \in Seq(Nat)
    BY DEF SecInv, SecTyped
  <2> QED
    BY <2>1, <2>2 DEF SentSet
<1>1. SecTyped' /\ CallsTyped'
  BY BoundsAreNumbers DEF SecInv, SecTyped, CallsTyped, PlaceKnown, SecSteps, InHand, Before, Over
<1>2. PlaceKnown'
  BY DEF SecInv, SecTyped, PlaceKnown, SecSteps, InHand, Before, Over
<1>3. OnlyAwaitedSenders'
  BY DEF SecInv, OnlyAwaitedSenders, PlaceKnown, InHand
<1>4. AnswersKnown'
  BY <1>0 DEF SecInv, SecTyped, AnswersKnown, Said
<1>5. Accounted'
  BY <1>0 DEF SecInv, SecTyped, PlaceKnown, Accounted, Covered, SecSteps, InHand, Before, Over
<1>6. BudgetKept'
  BY <1>0, BoundsAreNumbers DEF SecInv, SecTyped, BudgetKept, Over
<1> QED
  BY <1>1, <1>2, <1>3, <1>4, <1>5, <1>6 DEF SecInv

\* A slot of the budget is taken.
LEMMA SlotTaken ==
  ASSUME SecInv,
         secStep = "budget",
         secBudget > 0,
         secBudget' = secBudget - 1,
         secStep' = "pace",
         UNCHANGED <<tests, at, registry, secCancelled, pending, reply, approved, attempts, row, stopReason, sent, skipped, call, asks, served, httpSends, sentLate>>
  PROVE  SecInv'
<1>0. SentSet' = SentSet /\ Len(sent') = Len(sent) /\ Len(sent) \in Nat
  <2>1. sent' = sent
    OBVIOUS
  <2>2. sent \in Seq(Nat)
    BY DEF SecInv, SecTyped
  <2> QED
    BY <2>1, <2>2 DEF SentSet
<1>1. SecTyped' /\ CallsTyped'
  BY BoundsAreNumbers DEF SecInv, SecTyped, CallsTyped, PlaceKnown, SecSteps, InHand, Before, Over
<1>2. PlaceKnown'
  BY DEF SecInv, SecTyped, PlaceKnown, SecSteps, InHand, Before, Over
<1>3. OnlyAwaitedSenders'
  BY DEF SecInv, OnlyAwaitedSenders, PlaceKnown, InHand
<1>4. AnswersKnown'
  BY <1>0 DEF SecInv, SecTyped, AnswersKnown, Said
<1>5. Accounted'
  BY <1>0 DEF SecInv, SecTyped, PlaceKnown, Accounted, Covered, SecSteps, InHand, Before, Over
<1>6. BudgetKept'
  BY <1>0, BoundsAreNumbers DEF SecInv, SecTyped, BudgetKept, Over
<1> QED
  BY <1>1, <1>2, <1>3, <1>4, <1>5, <1>6 DEF SecInv

\* No slot is left.
LEMMA NoSlotLeft ==
  ASSUME SecInv,
         secStep = "budget",
         ~(secBudget > 0),
         stopReason' \in {"BudgetExhausted", "DurationExceeded"},
         secStep' = "finish",
         UNCHANGED <<tests, at, registry, secCancelled, pending, reply, approved, secBudget, attempts, row, sent, skipped, call, asks, served, httpSends, sentLate>>
  PROVE  SecInv'
<1>0. SentSet' = SentSet /\ Len(sent') = Len(sent) /\ Len(sent) \in Nat
  <2>1. sent' = sent
    OBVIOUS
  <2>2. sent \in Seq(Nat)
    BY DEF SecInv, SecTyped
  <2> QED
    BY <2>1, <2>2 DEF SentSet
<1>1. SecTyped' /\ CallsTyped'
  BY BoundsAreNumbers DEF SecInv, SecTyped, CallsTyped, PlaceKnown, SecSteps, InHand, Before, Over
<1>2. PlaceKnown'
  BY DEF SecInv, SecTyped, PlaceKnown, SecSteps, InHand, Before, Over
<1>3. OnlyAwaitedSenders'
  BY DEF SecInv, OnlyAwaitedSenders, PlaceKnown, InHand
<1>4. AnswersKnown'
  BY <1>0 DEF SecInv, SecTyped, AnswersKnown, Said
<1>5. Accounted'
  BY <1>0 DEF SecInv, SecTyped, PlaceKnown, Accounted, Covered, SecSteps, InHand, Before, Over
<1>6. BudgetKept'
  BY <1>0, BoundsAreNumbers DEF SecInv, SecTyped, BudgetKept, Over
<1> QED
  BY <1>1, <1>2, <1>3, <1>4, <1>5, <1>6 DEF SecInv

\* The test counts as sent.
LEMMA PaceStep ==
  ASSUME SecInv,
         secStep = "pace",
         secStep' = "send",
         sent' = Append(sent, at),
         attempts' = 0,
         sentLate' = sentLate + (IF secCancelled THEN 1 ELSE 0),
         UNCHANGED <<tests, at, registry, secCancelled, pending, reply, approved, secBudget, row, stopReason, skipped, call, asks, served, httpSends>>
  PROVE  SecInv'
<1>0. /\ Len(sent') = Len(sent) + 1 /\ Len(sent) \in Nat
      /\ SentSet' = SentSet \cup {at} /\ sent' \in Seq(Nat)
  BY OneMoreSent DEF SecInv
<1>1. SecTyped' /\ CallsTyped'
  BY BoundsAreNumbers DEF SecInv, SecTyped, CallsTyped, PlaceKnown, SecSteps, InHand, Before, Over
<1>2. PlaceKnown'
  BY DEF SecInv, SecTyped, PlaceKnown, SecSteps, InHand, Before, Over
<1>3. OnlyAwaitedSenders'
  BY DEF SecInv, OnlyAwaitedSenders, PlaceKnown, InHand
<1>4. AnswersKnown'
  BY <1>0 DEF SecInv, SecTyped, AnswersKnown, Said
<1>5. Accounted'
  <2>1. at \notin SentSet /\ at \in DOMAIN tests /\ Covered(at - 1)
    BY DEF SecInv, PlaceKnown, Accounted, InHand
  <2>2. IsFiniteSet(SentSet') /\ Cardinality(SentSet') = Cardinality(SentSet) + 1
    BY <1>0, <2>1, FS_AddElement DEF SecInv, Accounted
  <2>3. Covered(at)'
    BY <1>0, <2>1 DEF SecInv, SecTyped, Covered
  <2> QED
    BY <1>0, <2>1, <2>2, <2>3 DEF SecInv, SecTyped, Accounted, InHand, Over
<1>6. BudgetKept'
  BY <1>0, BoundsAreNumbers DEF SecInv, SecTyped, BudgetKept, Over
<1> QED
  BY <1>1, <1>2, <1>3, <1>4, <1>5, <1>6 DEF SecInv

\* The test is sent, once more perhaps.
LEMMA SendStep ==
  ASSUME SecInv,
         secStep = "send",
         httpSends' = httpSends + 1,
         \/ secStep' \in {"loop", "panicked"} /\ attempts' = attempts
         \/ secStep' = secStep /\ attempts < SecRetries /\ attempts' = attempts + 1,
         UNCHANGED <<tests, at, registry, secCancelled, pending, reply, approved, secBudget, row, stopReason, sent, skipped, call, asks, served, sentLate>>
  PROVE  SecInv'
<1>0. SentSet' = SentSet /\ Len(sent') = Len(sent) /\ Len(sent) \in Nat
  <2>1. sent' = sent
    OBVIOUS
  <2>2. sent \in Seq(Nat)
    BY DEF SecInv, SecTyped
  <2> QED
    BY <2>1, <2>2 DEF SentSet
<1>1. SecTyped' /\ CallsTyped'
  BY BoundsAreNumbers DEF SecInv, SecTyped, CallsTyped, PlaceKnown, SecSteps, InHand, Before, Over
<1>2. PlaceKnown'
  BY DEF SecInv, SecTyped, PlaceKnown, SecSteps, InHand, Before, Over
<1>3. OnlyAwaitedSenders'
  BY DEF SecInv, OnlyAwaitedSenders, PlaceKnown, InHand
<1>4. AnswersKnown'
  BY <1>0 DEF SecInv, SecTyped, AnswersKnown, Said
<1>5. Accounted'
  BY <1>0 DEF SecInv, SecTyped, PlaceKnown, Accounted, Covered, SecSteps, InHand, Before, Over
<1>6. BudgetKept'
  BY <1>0, BoundsAreNumbers DEF SecInv, SecTyped, BudgetKept, Over
<1> QED
  BY <1>1, <1>2, <1>3, <1>4, <1>5, <1>6 DEF SecInv

\* The run is cancelled.
LEMMA CancelStep ==
  ASSUME SecInv,
         secCancelled' = TRUE,
         UNCHANGED <<tests, at, secStep, registry, pending, reply, approved, secBudget, attempts, row, stopReason, sent, skipped, call, asks, served, httpSends, sentLate>>
  PROVE  SecInv'
<1>0. SentSet' = SentSet /\ Len(sent') = Len(sent) /\ Len(sent) \in Nat
  <2>1. sent' = sent
    OBVIOUS
  <2>2. sent \in Seq(Nat)
    BY DEF SecInv, SecTyped
  <2> QED
    BY <2>1, <2>2 DEF SentSet
<1>1. SecTyped' /\ CallsTyped'
  BY BoundsAreNumbers DEF SecInv, SecTyped, CallsTyped, PlaceKnown, SecSteps, InHand, Before, Over
<1>2. PlaceKnown'
  BY DEF SecInv, SecTyped, PlaceKnown, SecSteps, InHand, Before, Over
<1>3. OnlyAwaitedSenders'
  BY DEF SecInv, OnlyAwaitedSenders, PlaceKnown, InHand
<1>4. AnswersKnown'
  BY <1>0 DEF SecInv, SecTyped, AnswersKnown, Said
<1>5. Accounted'
  BY <1>0 DEF SecInv, SecTyped, PlaceKnown, Accounted, Covered, SecSteps, InHand, Before, Over
<1>6. BudgetKept'
  BY <1>0, BoundsAreNumbers DEF SecInv, SecTyped, BudgetKept, Over
<1> QED
  BY <1>1, <1>2, <1>3, <1>4, <1>5, <1>6 DEF SecInv

\* A call that confirms looks for the run.
LEMMA CallFinds ==
  ASSUME SecInv, NEW c \in Confirms, NEW got \in {"found", "not_found"}, NEW asked0, asked0.test \in DOMAIN tests,
         call[c] = "idle",
         call' = [call EXCEPT ![c] = got],
         asks' = [asks EXCEPT ![c] = asked0],
         UNCHANGED <<tests, at, secStep, registry, secCancelled, pending, reply, approved, secBudget, attempts, row, stopReason, sent, skipped, served, httpSends, sentLate>>
  PROVE  SecInv'
<1>0. SentSet' = SentSet /\ Len(sent') = Len(sent) /\ Len(sent) \in Nat
  <2>1. sent' = sent
    OBVIOUS
  <2>2. sent \in Seq(Nat)
    BY DEF SecInv, SecTyped
  <2> QED
    BY <2>1, <2>2 DEF SentSet
<1>1. SecTyped' /\ CallsTyped'
  BY BoundsAreNumbers DEF SecInv, SecTyped, CallsTyped, PlaceKnown, SecSteps, InHand, Before, Over
<1>2. PlaceKnown'
  BY DEF SecInv, SecTyped, PlaceKnown, SecSteps, InHand, Before, Over
<1>3. OnlyAwaitedSenders'
  BY DEF SecInv, OnlyAwaitedSenders, PlaceKnown, InHand
<1>4. AnswersKnown'
  <2>1. \A n \in Nat : Said(n) => Said(n)'
    BY DEF SecInv, CallsTyped, Said
  <2>2. at \in Nat /\ (DOMAIN tests) \subseteq Nat /\ SentSet \subseteq Nat
    BY DEF SecInv, SecTyped, Accounted
  <2> QED
    BY <1>0, <2>1, <2>2 DEF SecInv, SecTyped, AnswersKnown
<1>5. Accounted'
  BY <1>0 DEF SecInv, SecTyped, PlaceKnown, Accounted, Covered, SecSteps, InHand, Before, Over
<1>6. BudgetKept'
  BY <1>0, BoundsAreNumbers DEF SecInv, SecTyped, BudgetKept, Over
<1> QED
  BY <1>1, <1>2, <1>3, <1>4, <1>5, <1>6 DEF SecInv

\* It finds no sender.
LEMMA CallMisses ==
  ASSUME SecInv, NEW c \in Confirms,
         call[c] = "found",
         call' = [call EXCEPT ![c] = "not_found"],
         UNCHANGED <<tests, at, secStep, registry, secCancelled, pending, reply, approved, secBudget, attempts, row, stopReason, sent, skipped, asks, served, httpSends, sentLate>>
  PROVE  SecInv'
<1>0. SentSet' = SentSet /\ Len(sent') = Len(sent) /\ Len(sent) \in Nat
  <2>1. sent' = sent
    OBVIOUS
  <2>2. sent \in Seq(Nat)
    BY DEF SecInv, SecTyped
  <2> QED
    BY <2>1, <2>2 DEF SentSet
<1>1. SecTyped' /\ CallsTyped'
  BY BoundsAreNumbers DEF SecInv, SecTyped, CallsTyped, PlaceKnown, SecSteps, InHand, Before, Over
<1>2. PlaceKnown'
  BY DEF SecInv, SecTyped, PlaceKnown, SecSteps, InHand, Before, Over
<1>3. OnlyAwaitedSenders'
  BY DEF SecInv, OnlyAwaitedSenders, PlaceKnown, InHand
<1>4. AnswersKnown'
  <2>1. \A n \in Nat : Said(n) => Said(n)'
    BY DEF SecInv, CallsTyped, Said
  <2>2. at \in Nat /\ (DOMAIN tests) \subseteq Nat /\ SentSet \subseteq Nat
    BY DEF SecInv, SecTyped, Accounted
  <2> QED
    BY <1>0, <2>1, <2>2 DEF SecInv, SecTyped, AnswersKnown
<1>5. Accounted'
  BY <1>0 DEF SecInv, SecTyped, PlaceKnown, Accounted, Covered, SecSteps, InHand, Before, Over
<1>6. BudgetKept'
  BY <1>0, BoundsAreNumbers DEF SecInv, SecTyped, BudgetKept, Over
<1> QED
  BY <1>1, <1>2, <1>3, <1>4, <1>5, <1>6 DEF SecInv

\* It answers the test.
LEMMA CallAnswers ==
  ASSUME SecInv, NEW c \in Confirms, NEW i \in pending,
         call[c] = "found", asks[c].test = i,
         call' = [call EXCEPT ![c] = "ok"],
         served' = [served EXCEPT ![c] = i],
         pending' = pending \ {i},
         reply' = [reply EXCEPT ![i] = IF asks[c].yes THEN "yes" ELSE "no"],
         UNCHANGED <<tests, at, secStep, registry, secCancelled, approved, secBudget, attempts, row, stopReason, sent, skipped, asks, httpSends, sentLate>>
  PROVE  SecInv'
<1>0. SentSet' = SentSet /\ Len(sent') = Len(sent) /\ Len(sent) \in Nat
  <2>1. sent' = sent
    OBVIOUS
  <2>2. sent \in Seq(Nat)
    BY DEF SecInv, SecTyped
  <2> QED
    BY <2>1, <2>2 DEF SentSet
<1>1. SecTyped' /\ CallsTyped'
  BY BoundsAreNumbers DEF SecInv, SecTyped, CallsTyped, PlaceKnown, SecSteps, InHand, Before, Over
<1>2. PlaceKnown'
  BY DEF SecInv, SecTyped, PlaceKnown, SecSteps, InHand, Before, Over
<1>3. OnlyAwaitedSenders'
  BY DEF SecInv, OnlyAwaitedSenders, PlaceKnown, InHand
<1>4. AnswersKnown'
  <2>1. \A n \in Nat : Said(n) => Said(n)'
    BY DEF SecInv, CallsTyped, Said
  <2>2. at \in Nat /\ (DOMAIN tests) \subseteq Nat /\ SentSet \subseteq Nat
    BY DEF SecInv, SecTyped, Accounted
  <2>3. asks[c].yes => Said(i)'
    BY DEF SecInv, SecTyped, CallsTyped, Said
  <2> QED
    BY <1>0, <2>1, <2>2, <2>3 DEF SecInv, SecTyped, AnswersKnown
<1>5. Accounted'
  BY <1>0 DEF SecInv, SecTyped, PlaceKnown, Accounted, Covered, SecSteps, InHand, Before, Over
<1>6. BudgetKept'
  BY <1>0, BoundsAreNumbers DEF SecInv, SecTyped, BudgetKept, Over
<1> QED
  BY <1>1, <1>2, <1>3, <1>4, <1>5, <1>6 DEF SecInv

\* The invariant is inductive: each action is one of the steps above.
LEMMA SecStepKeeps == SecInv /\ [SecNext]_secVars => SecInv'
<1> SUFFICES ASSUME SecInv, [SecNext]_secVars PROVE SecInv'
  OBVIOUS
<1> USE DEF outcome, callVars
<1>1. CASE UNCHANGED secVars
  <2>1. UNCHANGED <<tests, at, secStep, registry, secCancelled, pending, reply, approved, secBudget, attempts, row,
                    stopReason, sent, skipped, call, asks, served, sentLate>>
    BY <1>1 DEF secVars
  <2>2. SentSet' = SentSet /\ \A n : (Said(n)' <=> Said(n)) /\ (Covered(n)' <=> Covered(n))
    BY <2>1 DEF SentSet, Said, Covered
  <2>3. SecTyped' /\ CallsTyped' /\ PlaceKnown' /\ OnlyAwaitedSenders' /\ BudgetKept'
    BY <2>1 DEF SecInv, SecTyped, CallsTyped, PlaceKnown, OnlyAwaitedSenders, BudgetKept
  <2>4. AnswersKnown' /\ Accounted'
    BY <2>1, <2>2 DEF SecInv, AnswersKnown, Accounted
  <2> QED
    BY <2>3, <2>4 DEF SecInv
<1>2. CASE SecCalled
  BY <1>2, CalledStep DEF SecCalled
<1>3. CASE SaveRun \/ SpawnRun \/ HandlerDropped
  BY <1>3, SavedStep DEF SaveRun, SpawnRun, HandlerDropped
<1>4. CASE OpenExecutor
  BY <1>4, OpenedStep DEF OpenExecutor
<1>5. CASE Finish
  BY <1>5, FinishedStep DEF Finish
<1>6. CASE Unregister("token", "untoken", "unmap") \/ Unregister("map", "unmap", "ended")
  BY <1>6, UntokenStep, UnmapStep DEF Unregister
<1>7. CASE NextTest
  <2>1. CASE at = Len(tests)
    BY <1>7, <2>1, StopsAtHead DEF NextTest, Stops
  <2>2. CASE at # Len(tests) /\ secCancelled
    BY <1>7, <2>2, StopsAtHead DEF NextTest, Stops
  <2>3. CASE at # Len(tests) /\ ~secCancelled /\ ~tests[at + 1].buildable
    BY <1>7, <2>3, PanicsAtHead DEF NextTest
  <2>4. CASE at # Len(tests) /\ ~secCancelled /\ tests[at + 1].buildable /\ ~tests[at + 1].in_scope
    BY <1>7, <2>4, SkipsAtHead DEF NextTest
  <2>5. CASE at # Len(tests) /\ ~secCancelled /\ tests[at + 1].buildable /\ tests[at + 1].in_scope
    BY <1>7, <2>5, TakesTest DEF NextTest
  <2> QED
    BY <2>1, <2>2, <2>3, <2>4, <2>5
<1>8. CASE Ask
  BY <1>8, AskStep DEF Ask
<1>9. CASE Await
  BY <1>9, AwaitStep DEF Await
<1>10. CASE Cleanup
  BY <1>10, CleanupStep DEF Cleanup
<1>11. CASE TakeSlot
  BY <1>11, SlotTaken, NoSlotLeft DEF TakeSlot, Stops
<1>12. CASE PaceTest
  BY <1>12, PaceStep DEF PaceTest
<1>13. CASE SendTest
  BY <1>13, SendStep DEF SendTest
<1>14. CASE SecCancel
  BY <1>14, CancelStep DEF SecCancel
<1>15. ASSUME NEW c \in Confirms, ConfirmCalled(c) PROVE SecInv'
  <2>1. PICK i \in DOMAIN tests, yes \in BOOLEAN : asks' = [asks EXCEPT ![c] = [test |-> i, yes |-> yes]]
    BY <1>15 DEF ConfirmCalled
  <2>2. [test |-> i, yes |-> yes].test \in DOMAIN tests
    OBVIOUS
  <2> QED
    BY <1>15, <2>1, <2>2, CallFinds DEF ConfirmCalled
<1>16. ASSUME NEW c \in Confirms, ConfirmSends(c) PROVE SecInv'
  <2> DEFINE named == {i \in pending : tests[i].id = tests[asks[c].test].id}
  <2>1. CASE named = {}
    BY <1>16, <2>1, CallMisses DEF ConfirmSends
  <2>2. CASE named # {}
    <3>1. PICK i \in named :
            /\ call' = [call EXCEPT ![c] = "ok"] /\ served' = [served EXCEPT ![c] = i] /\ pending' = pending \ {i}
            /\ reply' = [reply EXCEPT ![i] = IF asks[c].yes THEN "yes" ELSE "no"]
      BY <1>16, <2>2 DEF ConfirmSends
    <3>2. call[c] = "found"
      BY <1>16 DEF ConfirmSends
    <3>3. i \in DOMAIN tests /\ asks[c].test \in DOMAIN tests /\ tests \in TestPlans
      BY <3>1, <3>2 DEF SecInv, SecTyped, CallsTyped
    <3>4. asks[c].test = i
      BY <3>1, <3>3, SecurityAssumption
    <3> QED
      BY <1>16, <3>1, <3>2, <3>4, CallAnswers DEF ConfirmSends
  <2> QED
    BY <2>1, <2>2
<1> QED
  BY <1>1, <1>2, <1>3, <1>4, <1>5, <1>6, <1>7, <1>8, <1>9, <1>10, <1>11, <1>12, <1>13, <1>14, <1>15, <1>16
  DEF SecNext, RunStep, ExecutorStep

\* For every plan, budget and number of confirming calls: a destructive test is sent only after a yes
\* that was given to it, and no answer is lost behind an Ok once nobody waits for it.
THEOREM AnswersReachTests == SecSpec => []ConfirmationsMatch
<1>1. SecInv => ConfirmationsMatch
  BY SecImplies
<1> QED
  BY SecInitially, SecStepKeeps, <1>1, PTL DEF SecSpec

-------------------------------------------------------------------------------
(* How far a run of security tests still is from its end                     *)

\* The steps of a run up to the next head of its loop, and after the loop.
StepLeft(s) ==
  CASE s = "new" -> 15 [] s = "save" -> 14 [] s = "saved" -> 13 [] s = "spawned" -> 12 [] s = "ask" -> 11 [] s = "wait" -> 10
    [] s = "cleanup" -> 9 [] s = "budget" -> 8 [] s = "pace" -> 7 [] s = "send" -> 6 [] s = "loop" -> 5
    [] s = "finish" -> 4 [] s = "untoken" -> 3 [] s = "unmap" -> 2 [] OTHER -> 1

\* What a run has left: tests, steps with the one in hand, retries of it.
SecLeft == << Len(tests) + 1 - at, StepLeft(secStep), SecRetries - attempts >>

\* No call takes a run back, and its own steps take it on.
SecDescends == NotAbove(SecLeft', SecLeft) /\ (RunStep => Below(SecLeft', SecLeft))

\* Every test that was sent has reached the client at most once and once more for each retry.
SendsBounded ==
  /\ httpSends \in Nat
  /\ IF secStep = "send" THEN httpSends + (SecRetries - attempts) + 1 <= Len(sent) * (SecRetries + 1)
                         ELSE httpSends <= Len(sent) * (SecRetries + 1)

\* What the target is bothered with at most: the budget, and the retries of each request of it.
SendsWithinBudget == httpSends <= MaxRequests * (SecRetries + 1)

\* The measure is a number at every place.
LEMMA SecLeftTyped == SecInv => SecLeft \in Nat \X Nat \X Nat
<1> SUFFICES ASSUME SecInv PROVE SecLeft \in Nat \X Nat \X Nat
  OBVIOUS
<1>1. Len(tests) + 1 - at \in Nat
  BY DEF SecInv, SecTyped
<1>2. SecRetries - attempts \in Nat
  BY BoundsAreNumbers DEF SecInv, SecTyped
<1> QED
  BY <1>1, <1>2 DEF SecLeft, StepLeft

\* The loop takes the next test at its head, and a retry is counted at the send; all else goes on from
\* one step to a later one with the test in hand.
LEMMA RunMoves ==
  ASSUME SecInv, RunStep
  PROVE  /\ tests' = tests
         /\ \/ secStep = "loop" /\ at < Len(tests) + 1 /\ at' = at + 1
            \/ at' = at /\ StepLeft(secStep') < StepLeft(secStep)
            \/ at' = at /\ secStep' = secStep /\ attempts < SecRetries /\ attempts' = attempts + 1
<1>1. CASE NextTest
  BY <1>1 DEF SecInv, SecTyped, PlaceKnown, NextTest
<1>2. CASE SendTest
  BY <1>2 DEF SendTest, StepLeft
<1>3. CASE SaveRun \/ SpawnRun \/ OpenExecutor \/ Finish \/ Unregister("token", "untoken", "unmap") \/ Unregister("map", "unmap", "ended")
  BY <1>3 DEF SaveRun, SpawnRun, OpenExecutor, Finish, Unregister, StepLeft
<1>4. CASE Ask \/ Await \/ Cleanup \/ PaceTest
  BY <1>4 DEF Ask, Await, Cleanup, PaceTest, StepLeft
<1>5. CASE TakeSlot
  BY <1>5 DEF TakeSlot, Stops, StepLeft
<1> QED
  BY <1>1, <1>2, <1>3, <1>4, <1>5 DEF RunStep, ExecutorStep

\* A step of the run lowers what it has left.
LEMMA RunDescends == ASSUME SecInv, RunStep PROVE Below(SecLeft', SecLeft)
<1>1. SecLeft' = <<Len(tests) + 1 - at', StepLeft(secStep'), SecRetries - attempts'>>
  BY RunMoves DEF SecLeft
<1>2. CASE at' = at + 1
  <2>1. Len(tests) + 1 - at' < Len(tests) + 1 - at
    BY <1>2 DEF SecInv, SecTyped
  <2> QED
    BY <1>1, <2>1, BelowThree DEF SecLeft
<1>3. CASE at' = at /\ StepLeft(secStep') < StepLeft(secStep)
  BY <1>1, <1>3, BelowThree DEF SecLeft
<1>4. CASE at' = at /\ secStep' = secStep /\ attempts < SecRetries /\ attempts' = attempts + 1
  <2>1. SecRetries - attempts' < SecRetries - attempts
    BY <1>4, BoundsAreNumbers DEF SecInv, SecTyped
  <2> QED
    BY <1>1, <1>4, <2>1, BelowThree DEF SecLeft
<1> QED
  BY <1>2, <1>3, <1>4, RunMoves

\* A run has a bounded number of own steps (the argument SecRunEnds rests on), whatever is confirmed,
\* cancelled, answered or timed out meanwhile: each of them takes it on through the tests, the steps with
\* each and the retries, or to the panic that ends its task.
THEOREM TestsRunOut == SecSpec => [](SecLeft \in Nat \X Nat \X Nat) /\ [][SecDescends]_secVars
<1>1. SecInv /\ [SecNext]_secVars => [SecDescends]_secVars
  <2> SUFFICES ASSUME SecInv, SecNext PROVE SecDescends
    OBVIOUS
  <2>1. CASE RunStep
    BY <2>1, RunDescends DEF SecDescends, NotAbove
  <2>2. CASE SecCalled
    <3>1. /\ SecLeft = <<Len(tests) + 1 - at, 15, SecRetries - attempts>>
          /\ SecLeft' = <<Len(tests) + 1 - at, 14, SecRetries - attempts>>
      BY <2>2 DEF SecCalled, SecLeft, StepLeft
    <3>2. Below(SecLeft', SecLeft)
      BY <3>1, BelowThree
    <3> QED
      BY <3>2 DEF SecDescends, NotAbove
  <2>4. CASE HandlerDropped
    <3>1. /\ SecLeft = <<Len(tests) + 1 - at, StepLeft(secStep), SecRetries - attempts>>
          /\ SecLeft' = <<Len(tests) + 1 - at, 1, SecRetries - attempts>> /\ StepLeft(secStep) > 1
      BY <2>4 DEF HandlerDropped, SecLeft, StepLeft
    <3>2. Below(SecLeft', SecLeft)
      BY <3>1, BelowThree
    <3> QED
      BY <3>2 DEF SecDescends, NotAbove
  <2>3. CASE SecCancel \/ \E c \in Confirms : ConfirmCalled(c) \/ ConfirmSends(c)
    <3>1. UNCHANGED <<tests, at, secStep, attempts>>
      BY <2>3 DEF SecCancel, ConfirmCalled, ConfirmSends
    <3>2. SecLeft' = SecLeft
      BY <3>1 DEF SecLeft
    <3>3. ~RunStep \/ Below(SecLeft', SecLeft)
      BY RunDescends
    <3> QED
      BY <3>2, <3>3 DEF SecDescends, NotAbove
  <2> QED
    BY <2>1, <2>2, <2>3, <2>4 DEF SecNext
<1> QED
  BY <1>1, SecLeftTyped, SecInitially, SecStepKeeps, PTL DEF SecSpec

\* One more request of the budget is worth one send and its retries.
LEMMA OneMoreTest == ASSUME NEW n \in Nat PROVE (n + 1) * (SecRetries + 1) = n * (SecRetries + 1) + SecRetries + 1
BY BoundsAreNumbers

\* More of them are worth no less.
LEMMA NoLess == ASSUME NEW m \in Nat, NEW n \in Nat, m <= n, NEW c \in Nat PROVE m * c <= n * c
<1> DEFINE d == n - m
<1>1. d \in Nat /\ n = m + d
  OBVIOUS
<1> HIDE DEF d
<1>2. (m + d) * c = m * c + d * c
  BY <1>1
<1>3. d * c \in Nat /\ m * c \in Nat
  BY <1>1
<1>4. n * c = m * c + d * c
  BY <1>1, <1>2
<1> QED
  BY <1>3, <1>4

\* A step keeps the count of sends.
LEMMA SendsStep == SecInv /\ SendsBounded /\ [SecNext]_secVars => SendsBounded'
<1> SUFFICES ASSUME SecInv, SendsBounded, [SecNext]_secVars PROVE SendsBounded'
  OBVIOUS
<1>1. SecRetries \in Nat /\ Len(sent) \in Nat /\ attempts \in 0..SecRetries /\ httpSends \in Nat
  BY BoundsAreNumbers DEF SecInv, SecTyped, SendsBounded
<1>2. CASE SendTest
  <2>1. /\ secStep = "send" /\ sent' = sent /\ httpSends' = httpSends + 1
        /\ \/ secStep' \in {"loop", "panicked"}
           \/ secStep' = "send" /\ attempts' = attempts + 1
    BY <1>2 DEF SendTest, outcome
  <2> DEFINE most == Len(sent) * (SecRetries + 1)
  <2>2. most \in Nat /\ most' = most /\ httpSends + (SecRetries - attempts) + 1 <= most
    BY <1>1, <2>1 DEF SendsBounded
  <2> HIDE DEF most
  <2>3. /\ httpSends' \in Nat
        /\ IF secStep' = "send" THEN httpSends' + (SecRetries - attempts') + 1 <= most ELSE httpSends' <= most
    BY <1>1, <2>1, <2>2
  <2> QED
    BY <2>1, <2>3 DEF SendsBounded, most
<1>3. CASE PaceTest
  <2>1. secStep = "pace" /\ secStep' = "send" /\ sent' = Append(sent, at) /\ attempts' = 0 /\ httpSends' = httpSends
    BY <1>3 DEF PaceTest
  <2>2. Len(sent') = Len(sent) + 1
    BY <2>1 DEF SecInv, SecTyped
  <2> DEFINE most == Len(sent) * (SecRetries + 1)
  <2>3. httpSends <= most /\ most \in Nat /\ Len(sent') * (SecRetries + 1) = most + SecRetries + 1
    BY <1>1, <2>1, <2>2, OneMoreTest DEF SendsBounded
  <2> HIDE DEF most
  <2>4. httpSends' + (SecRetries - attempts') + 1 <= most + SecRetries + 1
    BY <1>1, <2>1, <2>3
  <2> QED
    BY <1>1, <2>1, <2>3, <2>4 DEF SendsBounded
<1>4. CASE ~SendTest /\ ~PaceTest
  <2>1. httpSends' = httpSends /\ sent' = sent /\ (secStep' = "send" <=> secStep = "send") /\ attempts' = attempts
    <3>1. CASE SecCalled \/ SaveRun \/ SpawnRun \/ HandlerDropped \/ OpenExecutor \/ Finish
               \/ Unregister("token", "untoken", "unmap") \/ Unregister("map", "unmap", "ended")
      BY <3>1 DEF SecCalled, SaveRun, SpawnRun, HandlerDropped, OpenExecutor, Finish, Unregister, outcome
    <3>2. CASE NextTest \/ Ask \/ Await \/ Cleanup \/ TakeSlot
      BY <3>2 DEF NextTest, Ask, Await, Cleanup, TakeSlot, Stops, outcome
    <3>3. CASE SecCancel \/ \E c \in Confirms : ConfirmCalled(c) \/ ConfirmSends(c)
      BY <3>3 DEF SecCancel, ConfirmCalled, ConfirmSends, outcome
    <3>4. CASE UNCHANGED secVars
      BY <3>4 DEF secVars, outcome
    <3> QED
      BY <1>4, <3>1, <3>2, <3>3, <3>4 DEF SecNext, RunStep, ExecutorStep
  <2> QED
    BY <2>1 DEF SendsBounded
<1> QED
  BY <1>2, <1>3, <1>4

\* For every plan and every way its requests fail: the requests that reach the target, the retries
\* included, are no more than the budget allows and each of it may be tried again.
THEOREM SendsAreBounded == SecSpec => []SendsWithinBudget
<1>1. SecInit => SendsBounded
  <2> SUFFICES ASSUME SecInit PROVE SendsBounded
    OBVIOUS
  <2>1. httpSends = 0 /\ Len(sent) = 0 /\ secStep = "new"
    BY DEF SecInit, outcome
  <2> QED
    BY <2>1, BoundsAreNumbers DEF SendsBounded
<1>2. SecInv /\ SendsBounded => SendsWithinBudget
  <2> SUFFICES ASSUME SecInv, SendsBounded PROVE SendsWithinBudget
    OBVIOUS
  <2>1. /\ SecRetries \in Nat /\ MaxRequests \in Nat /\ Len(sent) \in Nat /\ Len(sent) <= MaxRequests /\ httpSends \in Nat
        /\ attempts \in 0..SecRetries
    BY BoundsAreNumbers DEF SecInv, SecTyped, BudgetKept, SendsBounded
  <2>2. httpSends <= Len(sent) * (SecRetries + 1)
    BY <2>1 DEF SendsBounded
  <2>3. Len(sent) * (SecRetries + 1) <= MaxRequests * (SecRetries + 1)
    <3>1. SecRetries + 1 \in Nat
      BY <2>1
    <3> QED
      BY <2>1, <3>1, NoLess
  <2>4. Len(sent) * (SecRetries + 1) \in Nat /\ MaxRequests * (SecRetries + 1) \in Nat
    BY <2>1
  <2> QED
    BY <2>1, <2>2, <2>3, <2>4 DEF SendsWithinBudget
<1> QED
  BY <1>1, <1>2, SecInitially, SecStepKeeps, SendsStep, PTL DEF SecSpec

-------------------------------------------------------------------------------

\* What the AI answered so far: a generation that is to ask may ask, and what it will show,
\* shows or saved is what it validated.
GenInv ==
  /\ GenerationKept
  /\ kind \in {"workflow", "security"}
  /\ genStep = "ask" => asked < MaxAttempts
  /\ genStep = "answer" => asked >= 1

\* An answer without errors is valid, and the error of any other is one of the three.
LEMMA ErrorsTell ==
  ASSUME NEW answer \in Answers
  PROVE  /\ errors(answer) \in {"none", "no json", "no schema", "invalid"}
         /\ errors(answer) = "none" <=> valid(answer)
<1>1. answer.form \in {"plan", "no json", "no schema"}
  BY DEF Answers, PlanForms, None
<1> QED
  BY <1>1 DEF errors, valid

\* A generation shows and saves what it should.
LEMMA GenStepKeeps == GenInv /\ [GenNext]_genVars => GenInv'
<1> SUFFICES ASSUME GenInv, [GenNext]_genVars PROVE GenInv'
  OBVIOUS
<1>0. /\ MaxAttempts \in Nat \ {0} /\ asked \in Nat /\ asked <= MaxAttempts
      /\ genStep = "ask" => asked < MaxAttempts
  <2>1. MaxAttempts \in Nat \ {0}
    BY GenerationAssumption
  <2>2. asked \in 0..MaxAttempts
    BY DEF GenInv, GenerationKept, GenTypeOK
  <2> QED
    BY <2>1, <2>2 DEF GenInv
<1>1. CASE UNCHANGED genVars
  BY <1>1 DEF genVars, valid, errors, GenInv, GenerationKept, GenTypeOK, OnlyValidSaved, WorkflowReadyIsApprovable, ErrorsOnlyAtLast
<1>2. CASE AskModel
  <2>1. /\ genStep = "ask" /\ asked' = asked + 1 /\ genStep' \in {"answer", "done"}
        /\ UNCHANGED <<kind, hint, preview, savedPlan, history>>
    BY <1>2 DEF AskModel
  <2>2. asked' \in 0..MaxAttempts /\ asked' >= 1
    BY <1>0, <2>1
  <2>3. OnlyValidSaved' /\ WorkflowReadyIsApprovable' /\ ErrorsOnlyAtLast'
    BY <2>1 DEF valid, errors, GenInv, GenerationKept, GenTypeOK, OnlyValidSaved, WorkflowReadyIsApprovable, ErrorsOnlyAtLast
  <2> QED
    BY <1>0, <2>1, <2>2, <2>3 DEF GenInv, GenerationKept, GenTypeOK
<1>3. CASE Answer
  <2> PICK answer \in Answers :
        /\ history' = history \cup {answer}
        /\ IF errors(answer) = "none" \/ last_attempt
           THEN /\ genStep' = "preview" /\ hint' = hint
                /\ \E shown \in added(answer) : preview' = [plan |-> shown, errors |-> errors(answer)]
           ELSE genStep' = "ask" /\ hint' = errors(answer) /\ UNCHANGED preview
    BY <1>3 DEF Answer
  <2>0. UNCHANGED <<kind, asked, savedPlan>> /\ genStep = "answer"
    BY <1>3 DEF Answer
  <2>1. CASE errors(answer) = "none" \/ last_attempt
    <3> PICK shown \in added(answer) : preview' = [plan |-> shown, errors |-> errors(answer)]
      BY <2>1
    <3>1. kind = "workflow" => shown = answer
      BY DEF added
    <3>2. genStep' = "preview" /\ hint' = hint /\ preview'.plan = shown /\ preview'.errors = errors(answer)
      BY <2>1
    <3>3. WorkflowReadyIsApprovable'
      BY <2>0, <3>1, <3>2, ErrorsTell DEF WorkflowReadyIsApprovable
    <3>4. ErrorsOnlyAtLast'
      <4>1. preview'.errors # "none" => asked' = MaxAttempts
        BY <1>0, <2>0, <2>1, <3>2 DEF last_attempt
      <4>2. hint' # "none" => \E wrong \in history' : errors(wrong) = hint'
        BY <3>2 DEF GenInv, GenerationKept, ErrorsOnlyAtLast
      <4> QED
        BY <4>1, <4>2 DEF ErrorsOnlyAtLast
    <3> QED
      BY <1>0, <2>0, <3>2, <3>3, <3>4 DEF GenInv, GenerationKept, GenTypeOK, OnlyValidSaved, valid
  <2>2. CASE ~(errors(answer) = "none" \/ last_attempt)
    <3>1. genStep' = "ask" /\ hint' = errors(answer) /\ preview' = preview /\ asked' = asked /\ asked < MaxAttempts
      BY <1>0, <2>0, <2>2 DEF last_attempt
    <3>2. answer \in history' /\ hint' \in {"none", "no json", "no schema", "invalid"}
      BY <3>1, ErrorsTell
    <3>3. ErrorsOnlyAtLast'
      BY <3>1, <3>2 DEF ErrorsOnlyAtLast
    <3>4. OnlyValidSaved' /\ WorkflowReadyIsApprovable'
      BY <2>0, <3>1 DEF valid, GenInv, GenerationKept, OnlyValidSaved, WorkflowReadyIsApprovable
    <3> QED
      BY <1>0, <2>0, <3>1, <3>2, <3>3, <3>4 DEF GenInv, GenerationKept, GenTypeOK
  <2> QED
    BY <2>1, <2>2
<1>4. CASE Approve
  <2>1. savedPlan' # None => valid(savedPlan')
    BY <1>4 DEF Approve
  <2>2. genStep' = "done" /\ UNCHANGED <<kind, asked, hint, preview, history>>
    BY <1>4 DEF Approve
  <2> QED
    BY <1>0, <2>1, <2>2 DEF GenInv, GenerationKept, GenTypeOK, OnlyValidSaved, WorkflowReadyIsApprovable, ErrorsOnlyAtLast
<1> QED
  BY <1>1, <1>2, <1>3, <1>4 DEF GenNext

\* For every plan, budget, number of confirming calls and of attempts, and whatever the AI answers: nothing
\* invalid is saved, a workflow shown without errors can be approved as it is (a security plan may not, for
\* the tests added to it), and every test a run has left behind is sent or skipped once, no more of them
\* than the budget, retries aside (for those see SendsAreBounded), and at most one after a cancel.
THEOREM PlansAreKept == PlannedSpec => []PlansKept
<1>1. SecInv => TestsAccounted
  BY SecImplies
<1>2. GenInit => GenInv
  <2>1. MaxAttempts \in Nat \ {0}
    BY GenerationAssumption
  <2> QED
    BY <2>1 DEF GenInit, GenInv, GenerationKept, GenTypeOK, OnlyValidSaved, WorkflowReadyIsApprovable, ErrorsOnlyAtLast
<1>3. GenInv => GenerationKept
  BY DEF GenInv
<1>4. GenerationKept /\ TestsAccounted => PlansKept
  BY DEF PlansKept
<1> QED
  BY SecInitially, SecStepKeeps, GenStepKeeps, <1>1, <1>2, <1>3, <1>4, PTL DEF PlannedSpec, SecSpec, GenSpec
===============================================================================
