------------------------------- MODULE AuthTokens -------------------------------
(***************************************************************************)
(* crates/auth: AuthManager keeps a login flow and the tokens of the last  *)
(* login under a mutex each; replays (crates/scanner/src/replay.rs) ask it *)
(* for tokens concurrently.  A token is [flow, login, step]: the flow it   *)
(* was extracted by, the login of that flow and the step in it.            *)
(***************************************************************************)
EXTENDS Naturals, FiniteSets

CONSTANTS Callers,   \* tasks that ask for tokens
          LoginSteps,\* number of steps of a login flow
          MaxFlows,  \* login flows set, at most
          MaxLogins  \* logins begun, at most

ASSUME AuthAssumption == LoginSteps \in Nat /\ MaxFlows \in Nat /\ MaxLogins \in Nat

VARIABLES login_flow,     \* the flow set last, or 0
          current_tokens, \* the tokens kept
          clearing,       \* set_login_flow is between its two locks
          caller,         \* per caller: [at, flow, login, step, got]
          logins,         \* logins begun
          outdated        \* history: a flow was set while a login was under way

authVars == <<login_flow, current_tokens, clearing, caller, logins, outdated>>

Tokens == [flow : 1..MaxFlows, login : 1..MaxLogins, step : 1..LoginSteps]
Free   == [at |-> "free", flow |-> 0, login |-> 0, step |-> 0, got |-> {}]

AuthInit ==
  /\ login_flow = 0 /\ current_tokens = {} /\ clearing = FALSE /\ logins = 0 /\ outdated = FALSE
  /\ caller = [c \in Callers |-> Free]

\* set_login_flow: the flow under its lock, then the tokens under theirs.
SetFlow ==
  /\ ~clearing /\ login_flow < MaxFlows /\ login_flow' = login_flow + 1 /\ clearing' = TRUE
  /\ outdated' = (outdated \/ \E c \in Callers : caller[c].at = "steps")
  /\ UNCHANGED <<current_tokens, caller, logins>>

\* bug: the tokens of the flow before are kept
ClearTokensBug ==
  clearing /\ clearing' = FALSE /\ UNCHANGED <<login_flow, current_tokens, caller, logins, outdated>>

ClearTokens ==
  /\ clearing /\ clearing' = FALSE /\ current_tokens' = {}
  /\ UNCHANGED <<login_flow, caller, logins, outdated>>

\* ensure_auth: with tokens at hand they are copied, under a lock of their own; without,
\* the flow is run.
EnsureAuth(c) ==
  /\ caller[c].at = "free"
  /\ caller' = [caller EXCEPT ![c] = [Free EXCEPT !.at = IF current_tokens = {} THEN "flow" ELSE "copy"]]
  /\ UNCHANGED <<login_flow, current_tokens, clearing, logins, outdated>>

CopyTokens(c) ==
  /\ caller[c].at = "copy"
  /\ caller' = [caller EXCEPT ![c] = [@ EXCEPT !.at = "answered", !.got = current_tokens]]
  /\ UNCHANGED <<login_flow, current_tokens, clearing, logins, outdated>>

\* refresh_auth: the flow is copied, its steps are sent in order, and only behind the last
\* one are the tokens kept.
TakeFlow(c) ==
  /\ caller[c].at = "flow"
  /\ IF login_flow = 0
     THEN caller' = [caller EXCEPT ![c].at = "failed"] /\ UNCHANGED logins
     ELSE /\ logins < MaxLogins /\ logins' = logins + 1
          /\ caller' = [caller EXCEPT ![c] = [@ EXCEPT !.at = "steps", !.flow = login_flow, !.login = logins']]
  /\ UNCHANGED <<login_flow, current_tokens, clearing, outdated>>

\* A step is answered, with a token of it or without, or fails the login.
LoginStep(c) ==
  /\ caller[c].at = "steps" /\ caller[c].step < LoginSteps
  /\ LET next == caller[c].step + 1 IN
     \/ \E more \in SUBSET {[flow |-> caller[c].flow, login |-> caller[c].login, step |-> next]} :
          caller' = [caller EXCEPT ![c] = [@ EXCEPT !.step = next, !.got = caller[c].got \cup more]]
     \/ caller' = [caller EXCEPT ![c].at = "failed"]
  /\ UNCHANGED <<login_flow, current_tokens, clearing, logins, outdated>>

StoreTokens(c) ==
  /\ caller[c].at = "steps" /\ caller[c].step = LoginSteps
  /\ current_tokens' = caller[c].got /\ caller' = [caller EXCEPT ![c].at = "answered"]
  /\ UNCHANGED <<login_flow, clearing, logins, outdated>>

\* The replay is over, with the tokens or without; the caller may begin another.
Replayed(c) ==
  /\ caller[c].at \in {"answered", "failed"} /\ caller' = [caller EXCEPT ![c] = Free]
  /\ UNCHANGED <<login_flow, current_tokens, clearing, logins, outdated>>

CallerStep(c) == CopyTokens(c) \/ TakeFlow(c) \/ LoginStep(c) \/ StoreTokens(c) \/ Replayed(c)
AuthNext == SetFlow \/ ClearTokens \/ \E c \in Callers : EnsureAuth(c) \/ CallerStep(c)
AuthSpec == AuthInit /\ [][AuthNext]_authVars

-------------------------------------------------------------------------------
(* Properties *)

AuthTypeOK ==
  /\ login_flow \in 0..MaxFlows /\ current_tokens \subseteq Tokens /\ logins \in 0..MaxLogins
  /\ \A c \in Callers : caller[c].got \subseteq Tokens /\ caller[c].step \in 0..LoginSteps

\* The tokens kept, and those a caller gets, are of one login: however many callers log
\* in at once, nobody gets the access token of one session and the refresh token of another.
TokensOfOneLogin ==
  /\ \A s, t \in current_tokens : s.login = t.login
  /\ \A c \in Callers : \A s, t \in caller[c].got : s.login = t.login

\* The tokens kept are of the flow that is set, unless it was set while a login was under way.
TokensOfTheFlow == ~outdated /\ ~clearing => \A t \in current_tokens : t.flow = login_flow

\* The tokens kept are complete: a login that fails midway leaves none of its tokens.
OnlyFinishedLogins ==
  \A t \in current_tokens : \A c \in Callers :
    caller[c].at \in {"steps", "failed"} => caller[c].login # t.login

\* Whatever callers and changes of the login flow overlap, tokens are never mixed.
TokensMatch == AuthTypeOK /\ TokensOfOneLogin /\ TokensOfTheFlow /\ OnlyFinishedLogins
===============================================================================
