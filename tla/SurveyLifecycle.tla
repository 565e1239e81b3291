---------------------------- MODULE SurveyLifecycle ----------------------------
(***************************************************************************)
(* What the Survey subsystem promises the owner of a survey: no workers,   *)
(* leases, drafts or counters.  A survey is opened against the allowance   *)
(* of a day, started, decided, published, and may be removed; it holds one *)
(* unit of the allowance until that unit is spent or freed, for good.      *)
(* SurveyQueue implements this specification.                              *)
(***************************************************************************)
EXTENDS Integers, FiniteSets

CONSTANTS Surveys, Ledgers, LedgerOf, DailyLimit

VARIABLES
    phase,    \* "open": drafting; "waiting", "running": started; "decided": the
              \* outcome is settled; "ended": it is published; "gone": removed
    charge,   \* "held", "spent" or "free"
    verdict,  \* the outcome, once there is one
    asked     \* a cancellation of the running survey has been accepted

vars == <<phase, charge, verdict, asked>>

Init ==
    /\ phase = [s \in Surveys |-> "none"]
    /\ charge = [s \in Surveys |-> "none"]
    /\ verdict = [s \in Surveys |-> "none"]
    /\ asked = [s \in Surveys |-> FALSE]

\* The surveys that use up the allowance of a day; removing one that was charged
\* does not give its unit back.
Using(l) == {s \in Surveys : LedgerOf[s] = l /\ charge[s] \in {"held", "spent"}}

Become(s, p, c, v) ==
    /\ phase' = [phase EXCEPT ![s] = p]
    /\ charge' = [charge EXCEPT ![s] = c]
    /\ verdict' = [verdict EXCEPT ![s] = v]

Open(s) ==
    /\ phase[s] = "none"
    /\ Cardinality(Using(LedgerOf[s])) < DailyLimit
    /\ Become(s, "open", "held", "none")
    /\ UNCHANGED asked

Submit(s) ==
    /\ phase[s] = "open"
    /\ Become(s, "waiting", "held", "none")
    /\ UNCHANGED asked

Run(s) ==
    /\ phase[s] = "waiting"
    /\ Become(s, "running", "held", "none")
    /\ UNCHANGED asked

AskToCancel(s) ==
    /\ phase[s] = "running"
    /\ asked' = [asked EXCEPT ![s] = TRUE]
    /\ UNCHANGED <<phase, charge, verdict>>

Withdraw(s) ==
    /\ phase[s] \in {"open", "waiting"}
    /\ Become(s, "ended", "free", "cancelled")
    /\ UNCHANGED asked

\* The only step that spends what the survey holds, and never against a cancellation;
\* a success may be free (a degraded report).
Decide(s, v, c) ==
    /\ phase[s] = "running"
    /\ asked[s] <=> v = "cancelled"
    /\ c = "spent" => v = "succeeded"
    /\ Become(s, "decided", c, v)
    /\ UNCHANGED asked

\* The report is lost before it is published; the charge stands.
LoseReport(s) ==
    /\ phase[s] = "decided"
    /\ Become(s, "decided", charge[s], "failed")
    /\ UNCHANGED asked

Publish(s) ==
    /\ phase[s] = "decided"
    /\ Become(s, "ended", charge[s], verdict[s])
    /\ UNCHANGED asked

\* The operator proves that a failed survey has a report after all.
Amend(s) ==
    /\ phase[s] = "ended"
    /\ verdict[s] = "failed"
    /\ charge[s] = "free"
    /\ ~asked[s]
    /\ Become(s, "ended", "spent", "succeeded")
    /\ UNCHANGED asked

Remove(s) ==
    /\ phase[s] \in {"open", "waiting", "ended"}
    /\ Become(s, "gone", IF charge[s] = "held" THEN "free" ELSE charge[s], "none")
    /\ asked' = [asked EXCEPT ![s] = FALSE]

Next ==
    \E s \in Surveys :
        \/ Open(s) \/ Submit(s) \/ Run(s) \/ AskToCancel(s) \/ Withdraw(s)
        \/ \E v \in {"succeeded", "failed", "cancelled"}, c \in {"spent", "free"} : Decide(s, v, c)
        \/ LoseReport(s) \/ Publish(s) \/ Amend(s) \/ Remove(s)

Spec == Init /\ [][Next]_vars

=============================================================================
