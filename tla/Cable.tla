-------------------------------- MODULE Cable --------------------------------
(***************************************************************************)
(* What the two boards promise together: a cable between the EV and the    *)
(* EVSE under test.  The EV asks one request at a time; the EVSE serves    *)
(* each request once, in order; the EV is handed the answer to the request *)
(* it has outstanding.  The promise ends when the cable breaks: from then  *)
(* on nothing is promised.                                                 *)
(***************************************************************************)
EXTENDS Naturals, Sequences

VARIABLES
    asked,      \* number of requests the EV has sent
    served,     \* requests the EVSE has served, in order
    answers,    \* the request each answer handed to the EV belongs to
    broken      \* something has happened that voids the promise

vars == <<asked, served, answers, broken>>

Init ==
    /\ asked = 0
    /\ served = <<>>
    /\ answers = <<>>
    /\ broken = FALSE

Ask ==
    /\ Len(answers) = asked
    /\ asked' = asked + 1
    /\ UNCHANGED <<served, answers>>

Serve ==
    /\ Len(served) < asked
    /\ served' = Append(served, asked)
    /\ UNCHANGED <<asked, answers>>

Answer ==
    /\ Len(answers) < Len(served)
    /\ answers' = Append(answers, asked)
    /\ UNCHANGED <<asked, served>>

Carry == ~broken /\ ~broken' /\ (Ask \/ Serve \/ Answer)

\* From the first mishap on, anything.
Break == broken'

Next == Carry \/ Break

Spec == Init /\ [][Next]_vars
=============================================================================
