---------------------------- MODULE RetryBudget ----------------------------
(***************************************************************************)
(* The clock of one request: the retry loop against one candidate (per-     *)
(* attempt timeout, backoff, Retry-After, budget) inside the replay down    *)
(* the plan, which reads the same budget.                                   *)
(* (forward/upstream.rs send_upstream, server/data.rs handle)               *)
(*                                                                          *)
(* One task runs both loops, so an attempt and what is decided when it ends *)
(* are one step; an answer that is handed on still has its body to be read. *)
(* The clock counts in any unit; Budget, Second, Cap, Step and MaxStep are  *)
(* RETRY_BUDGET, one second, RETRY_AFTER_CAP and the two numbers of         *)
(* backoff_delay in that unit.                                              *)
(***************************************************************************)
EXTENDS Integers

CONSTANTS
    Plan,     \* number of candidates
    Retries,  \* candidate -> retries of its provider
    Timeout,  \* candidate -> per-attempt limit, 0 for none
    Budget, Second, Cap, Step, MaxStep,
    Windows,  \* the Retry-After values upstreams send, 0 for none
    Slowest,  \* bound: how long an attempt without a limit, or a body, may take
    Lag       \* bound: how much later than asked a sleep may end

Candidates == 1..Plan

ASSUME PlanAssumption == Plan \in Nat \ {0}
ASSUME ProviderAssumption ==
    Retries \in [Candidates -> Nat] /\ Timeout \in [Candidates -> Nat]
ASSUME TimeAssumption ==
    /\ Budget \in Nat /\ Second \in Nat /\ Cap \in Nat /\ Step \in Nat /\ MaxStep \in Nat
    /\ Slowest \in Nat /\ Lag \in Nat
    /\ Windows \subseteq Nat
    /\ Second < Budget

VARIABLES
    now,      \* time since the plan was started
    cand,     \* the candidate being asked
    begun,    \* when send_upstream was entered for it
    attempt,  \* which of its attempts is next, or under way
    pc,       \* "send", "sleep", "body", "decide" or "answered"
    delay,    \* the wait send_upstream is in
    got,      \* how the last attempt ended
    until     \* history: when the window ends that the candidate named last

clockVars == <<now, cand, begun, attempt, pc, delay, got, until>>

Outcomes == {"served", "failed", "unreachable", "timeout", "proxy", "broken"}

(* 408, 429, 5xx; a transport failure or a body that breaks is a 502, a bad  *)
(* proxy URL a 500.                                                          *)
Retryable(how) == how # "served"

Last == attempt = Retries[cand] + 1

RetryInit ==
    /\ now = 0 /\ begun = 0
    /\ cand = 1 /\ attempt = 1
    /\ pc = "send" /\ delay = 0
    /\ got = "none"
    /\ until = 0

(* backoff_delay: linear in the attempt, capped, jittered by up to a half.   *)
Backoff(n) ==
    LET base == IF Step * n < MaxStep THEN Step * n ELSE MaxStep
    IN  base..(base + base \div 2)

(* The waits there are after this outcome: an upstream that names its window *)
(* is believed.                                                              *)
Delays(how, window) == IF how = "failed" /\ window > 0 THEN {window} ELSE Backoff(attempt)

(* Fault: a wait that ends exactly at the budget is still taken.             *)
BudgetLeftToTheEnd(at, wait) == (at - begun) + wait <= Budget

BudgetLeft(at, wait) == (at - begun) + wait < Budget

(* How long an attempt may take: a limit cuts it off, and only there.        *)
Takes(how, d) ==
    IF Timeout[cand] = 0 THEN d \in 0..Slowest /\ how # "timeout"
    ELSE IF how = "timeout" THEN d = Timeout[cand]
    ELSE d \in 0..Timeout[cand]

(* d later the attempt has ended this way.                                   *)
Ends(how, d, window) ==
    /\ now' = now + d
    /\ got' = how
    /\ until' = IF how = "failed" THEN now + d + window ELSE until

Retry(wait) == pc' = "sleep" /\ delay' = wait /\ attempt' = attempt + 1

(* Headers that came are handed on before their body.                        *)
HandOn(how) ==
    /\ pc' = IF how \in {"served", "failed"} THEN "body" ELSE "decide"
    /\ UNCHANGED <<attempt, delay>>

(* Fault: a window that is too long is dropped, and the backoff used.        *)
AttemptIgnoringLongWindow(how, d, window) ==
    /\ pc = "send"
    /\ Takes(how, d)
    /\ Ends(how, d, window)
    /\ \E wait \in Delays(how, IF window > Cap THEN 0 ELSE window) :
          IF Retryable(how) /\ ~Last /\ BudgetLeft(now', wait)
          THEN Retry(wait)
          ELSE HandOn(how)
    /\ UNCHANGED <<cand, begun>>

(* Fault: the loop counts retries where it should count attempts.            *)
AttemptOnceMore(how, d, window) ==
    /\ pc = "send"
    /\ Takes(how, d)
    /\ Ends(how, d, window)
    /\ \E wait \in Delays(how, window) :
          IF /\ Retryable(how) /\ attempt <= Retries[cand] + 1
             /\ ~(how = "failed" /\ window > Cap) /\ BudgetLeft(now', wait)
          THEN Retry(wait)
          ELSE HandOn(how)
    /\ UNCHANGED <<cand, begun>>

(* One turn of the loop: the attempt, and the wait before the next one or    *)
(* the answer handed on.                                                     *)
Attempt(how, d, window) ==
    /\ pc = "send"
    /\ Takes(how, d)
    /\ Ends(how, d, window)
    /\ \E wait \in Delays(how, window) :
          IF /\ Retryable(how) /\ ~Last
             /\ ~(how = "failed" /\ window > Cap) /\ BudgetLeft(now', wait)
          THEN Retry(wait)
          ELSE HandOn(how)
    /\ UNCHANGED <<cand, begun>>

(* http_for: no client for this provider's proxy, so nothing is sent.        *)
NoClient ==
    /\ pc = "send"
    /\ HandOn("proxy")
    /\ got' = "proxy"
    /\ UNCHANGED <<now, cand, begun, until>>

(* read_body_or_response: no limit is on the reading of a body, and one that *)
(* breaks is not retried.  A stream is handed on unread, in no time.         *)
ReadBody(how, d) ==
    /\ pc = "body"
    /\ how \in {got, "broken"}
    /\ now' = now + d
    /\ got' = how
    /\ pc' = "decide"
    /\ UNCHANGED <<cand, begun, attempt, delay, until>>

Wake ==
    /\ pc = "sleep"
    /\ \E late \in 0..Lag : now' = now + delay + late
    /\ pc' = "send" /\ delay' = 0
    /\ UNCHANGED <<cand, begun, attempt, got, until>>

(* Fault: the replay does not look at the clock.                             *)
DecideWithoutClock ==
    /\ pc = "decide"
    /\ IF cand = Plan \/ ~Retryable(got)
       THEN pc' = "answered" /\ UNCHANGED <<cand, begun, attempt, until>>
       ELSE pc' = "send" /\ cand' = cand + 1 /\ begun' = now /\ attempt' = 1 /\ until' = 0
    /\ UNCHANGED <<now, delay, got>>

(* Fault: the replay asks for the plan's first entry at every turn.          *)
DecideSameAgain ==
    /\ pc = "decide"
    /\ IF cand = Plan \/ ~Retryable(got) \/ now + Second >= Budget
       THEN pc' = "answered" /\ UNCHANGED <<cand, begun, attempt, until>>
       ELSE pc' = "send" /\ cand' = 1 /\ begun' = now /\ attempt' = 1 /\ until' = 0
    /\ UNCHANGED <<now, delay, got>>

(* The replay: the answer is the client's, or the next candidate's turn.     *)
Decide ==
    /\ pc = "decide"
    /\ IF cand = Plan \/ ~Retryable(got) \/ now + Second >= Budget
       THEN pc' = "answered" /\ UNCHANGED <<cand, begun, attempt, until>>
       ELSE pc' = "send" /\ cand' = cand + 1 /\ begun' = now /\ attempt' = 1 /\ until' = 0
    /\ UNCHANGED <<now, delay, got>>

Ask ==
    \E how \in Outcomes \ {"proxy", "broken"}, window \in Windows :
        \E d \in 0..(IF Timeout[cand] = 0 THEN Slowest ELSE Timeout[cand]) :
            Attempt(how, d, window)

Read == \E how \in Outcomes, d \in 0..Slowest : ReadBody(how, d)

RetryNext == Ask \/ NoClient \/ Read \/ Wake \/ Decide

RetrySpec == RetryInit /\ [][RetryNext]_clockVars

(* The task is run, timers fire, and attempts and bodies end.                *)
FairRetrySpec == RetrySpec /\ WF_clockVars(RetryNext)

-----------------------------------------------------------------------------
RetryTypeOK ==
    /\ now \in Nat /\ begun \in 0..now /\ delay \in Nat /\ until \in Nat
    /\ cand \in Candidates
    /\ attempt \in Nat \ {0}
    /\ pc \in {"send", "sleep", "body", "decide", "answered"}
    /\ got \in Outcomes \cup {"none"}

(* budget_left: no attempt against a candidate starts later than a budget    *)
(* after its loop was entered (give or take a late timer).                   *)
InItsBudget == pc = "send" => now - begun < Budget + Lag

(* The two loops together: no attempt of any candidate starts later than two *)
(* budgets after the request came in.  One budget is what each loop takes    *)
(* for itself; this is what the client is exposed to.                        *)
WithinTwoBudgets == pc = "send" => now < 2 * Budget + Lag

(* No candidate is asked more often than its provider's retries say.         *)
AttemptsBounded == attempt <= Retries[cand] + 1

(* A candidate is not asked again before the window it named has passed.     *)
WindowsRespected == pc = "send" => now >= until

(* The client asked once: after an answer that serves it nobody is asked.    *)
OneAnswer == got = "served" => pc \in {"body", "decide", "answered"}

(* The request ends, whatever its upstreams do.                              *)
Answered == <>(pc = "answered")
=============================================================================
