---------------------------- MODULE PunchedTicket ----------------------------
(***************************************************************************)
(* What a relying application may expect of a CAS service ticket, whatever *)
(* else happens on the server: once a validation has been answered, no     *)
(* later one gets the ticket.  Validations that got it before that may     *)
(* still be answered, each of them once; the ticket may also be dropped at *)
(* any time, because tickets live in a cache.                              *)
(***************************************************************************)
EXTENDS Naturals

CONSTANTS Tickets, Validators

VARIABLES
    status,  \* new, live, redeemed or gone
    holders, \* the validations that have each ticket and have not been answered
    answers  \* how many validations were given each ticket's user

vars == <<status, holders, answers>>

Init ==
    /\ status = [k \in Tickets |-> "new"]
    /\ holders = [k \in Tickets |-> {}]
    /\ answers = [k \in Tickets |-> 0]

\* A login obtains the ticket; it may be dropped at once.
Issue(k) ==
    /\ status[k] = "new"
    /\ \E s \in {"live", "gone"} : status' = [status EXCEPT ![k] = s]
    /\ UNCHANGED <<holders, answers>>

\* A validation gets a ticket that is live, and only such a ticket.
Take(k, v) ==
    /\ status[k] = "live"
    /\ \A j \in Tickets : v \notin holders[j]
    /\ holders' = [holders EXCEPT ![k] = @ \cup {v}]
    /\ UNCHANGED <<status, answers>>

Gone(S) == [k \in Tickets |-> IF k \in S THEN "gone" ELSE status[k]]

\* A validation that has the ticket is answered, and from then on nobody else gets it;
\* other tickets may be dropped meanwhile.
Answer(k, v) ==
    /\ v \in holders[k]
    /\ holders' = [holders EXCEPT ![k] = @ \ {v}]
    /\ \E S \in SUBSET {j \in Tickets : status[j] = "live"} :
          status' = [Gone(S) EXCEPT ![k] = "redeemed"]
    /\ answers' = [answers EXCEPT ![k] = @ + 1]

\* Tickets expire.
Drop ==
    /\ \E S \in SUBSET {j \in Tickets : status[j] = "live"} : status' = Gone(S)
    /\ UNCHANGED <<holders, answers>>

\* A crash takes the tickets and the requests in progress with it.
Crash ==
    /\ \E S \in SUBSET {j \in Tickets : status[j] \in {"live", "new"}} :
          /\ \A j \in Tickets \ S : status[j] # "live"
          /\ status' = Gone(S)
    /\ holders' = [k \in Tickets |-> {}]
    /\ UNCHANGED answers

Next ==
    \/ Drop
    \/ Crash
    \/ \E k \in Tickets : Issue(k) \/ \E v \in Validators : Take(k, v) \/ Answer(k, v)

Spec == Init /\ [][Next]_vars
=============================================================================
