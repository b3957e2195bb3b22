------------------------------ MODULE Dispatch ------------------------------
(***************************************************************************)
(* What the router promises for one conversation, whatever channels, keys  *)
(* and upstream answers it meets on the way.  A request is admitted, then  *)
(* either refused at once, or tried a bounded number of times; once a byte *)
(* of an answer has gone to the client no other try is made, and the       *)
(* request ends with exactly one verdict.                                  *)
(* Router.tla implements this specification.                               *)
(***************************************************************************)
EXTENDS Naturals

CONSTANTS Req,        \* the requests
          TryBound    \* the most tries a request may cost

VARIABLES phase,      \* [Req -> Phase]
          tries,      \* [Req -> Nat], upstream attempts paid so far
          verdict     \* [Req -> Verdict]

dispatchVars == <<phase, tries, verdict>>

Phase == {"idle", "pending", "answering", "done"}
Verdict == {"none", "ok", "error"}

DispatchInit ==
    /\ phase = [p \in Req |-> "idle"]
    /\ tries = [p \in Req |-> 0]
    /\ verdict = [p \in Req |-> "none"]

Admit(p) ==
    /\ phase[p] = "idle"
    /\ phase' = [phase EXCEPT ![p] = "pending"]
    /\ UNCHANGED <<tries, verdict>>

\* Only a request of which the client has seen nothing may be tried again.
Try(p) ==
    /\ phase[p] = "pending"
    /\ tries[p] < TryBound
    /\ tries' = [tries EXCEPT ![p] = @ + 1]
    /\ UNCHANGED <<phase, verdict>>

\* The first event of an answer reaches the client.
Begin(p) ==
    /\ phase[p] = "pending"
    /\ tries[p] > 0
    /\ phase' = [phase EXCEPT ![p] = "answering"]
    /\ UNCHANGED <<tries, verdict>>

\* A request succeeds only if it was tried; it may fail at any time.
Conclude(p) ==
    /\ phase[p] \in {"pending", "answering"}
    /\ phase' = [phase EXCEPT ![p] = "done"]
    /\ \/ tries[p] > 0 /\ verdict' = [verdict EXCEPT ![p] = "ok"]
       \/ verdict' = [verdict EXCEPT ![p] = "error"]
    /\ UNCHANGED tries

DispatchNext ==
    \E p \in Req : Admit(p) \/ Try(p) \/ Begin(p) \/ Conclude(p)

DispatchSpec == DispatchInit /\ [][DispatchNext]_dispatchVars
=============================================================================
