------------------------------ MODULE PublicSearch ------------------------------
(***************************************************************************)
(* Search as a whole: the access of SearchAccess around the pipeline of    *)
(* SearchEngine, and the searches of the command line (cli/search.py),     *)
(* which go to the pipeline directly.                                      *)
(***************************************************************************)
EXTENDS SearchAccess, SearchEngine

CONSTANT NoAnswer

ASSUME PublicConstants == Searches \subseteq DOMAIN Requests

VARIABLE answer  \* request |-> what the pipeline has found, as long as it is at hand

PublicVars == <<vars, answer>>

Keep(s, found) == answer' = [answer EXCEPT ![s] = found]

PublicInit == Init /\ answer = [r \in DOMAIN Requests |-> NoAnswer]

\* The steps of the access before the pipeline and after it.
AccessStep ==
    \/ Midnight \/ NextMinute
    \/ TakeEvent \/ WriteEvent
    \/ Shutdown \/ Drained
    \/ \E s \in Searches :
          \/ Arrive(s) \/ Reserve(s) \/ Reserved(s) \/ ReserveFails(s)
          \/ Refund(s) \/ Reported(s) \/ RefundCancelled(s)

\* The pipeline returns.
Returns(s) ==
    /\ Found(s)
    /\ \E found \in OutcomesOf[s] : Keep(s, found)

\* A phase raises or the task is cancelled; the enrichment fails; or the answer leaves.
Leaves(s) ==
    /\ Fails(s) \/ EnrichmentCancelled(s) \/ Answer(s)
    /\ Keep(s, NoAnswer)

\* search_cmd.
Prints(r) ==
    /\ r \notin Searches
    /\ IF answer[r] = NoAnswer THEN \E found \in OutcomesOf[r] : Keep(r, found) ELSE Keep(r, NoAnswer)
    /\ UNCHANGED vars

PublicNext ==
    \/ AccessStep /\ UNCHANGED answer
    \/ \E s \in Searches : Returns(s) \/ Leaves(s)
    \/ \E r \in DOMAIN Requests : Prints(r)

PublicSpec == PublicInit /\ [][PublicNext]_PublicVars

\* Every answer that is charged, or printed, is ordered, of papers that fit, thorough where
\* that was asked for, and the beginning of what a larger request would have got, whatever was
\* written to the collections between the calls of its search.
AnswersAreSound ==
    \A r \in DOMAIN Requests : answer[r] # NoAnswer => Sound(Requests[r], answer[r])

=============================================================================
