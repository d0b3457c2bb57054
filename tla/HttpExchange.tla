---------------------------- MODULE HttpExchange ----------------------------
(***************************************************************************)
(* What a connection promises its client, without pieces, buffers and      *)
(* timeouts: which answers come, in which order, and what may follow one.  *)
(* A 200 announces "Connection: keep-alive", the others "close".           *)
(***************************************************************************)
EXTENDS Naturals, Sequences, SequencesExt

CONSTANT Requests  \* how many texts the client sends that may be requests

VARIABLES
    right,    \* right[n]: the answers request n may get, if it gets one
    answers,  \* what the client was sent so far
    over      \* the connection is done with

exchangeVars == <<right, answers, over>>

Answers == {"200", "400", "404"}

Init ==
    /\ right \in [1..Requests -> SUBSET Answers]
    /\ answers = <<>> /\ over = FALSE

Answer(n, kind, whole) ==
    answers' = Append(answers, [req |-> n, kind |-> kind, whole |-> whole])

\* Only a whole 200, which announces it, is followed by another answer,
\* and that one is for a later request.  A 200 of which nothing could be
\* sent becomes a 404.
Begin(n) ==
    /\ answers # <<>> =>
         Last(answers).kind = "200" /\ Last(answers).whole /\ Last(answers).req < n
    /\ \E kind \in Answers, whole \in BOOLEAN :
         /\ kind \in right[n] \/ (kind = "404" /\ "200" \in right[n])
         /\ Answer(n, kind, whole)

Finish ==
    /\ answers # <<>> /\ ~Last(answers).whole
    /\ answers' = [answers EXCEPT ![Len(answers)].whole = TRUE]

\* The rest of a 200 cannot be sent: a 404 in its place.
GiveUp ==
    /\ answers # <<>> /\ ~Last(answers).whole /\ Last(answers).kind = "200"
    /\ \E whole \in BOOLEAN : Answer(Last(answers).req, "404", whole)

End == over' = TRUE /\ UNCHANGED answers

Next ==
    /\ ~over
    /\ \/ (\E n \in 1..Requests : Begin(n)) /\ UNCHANGED over
       \/ (Finish \/ GiveUp) /\ UNCHANGED over
       \/ End
    /\ UNCHANGED right

SafetySpec == Init /\ [][Next]_exchangeVars

Spec == SafetySpec /\ WF_exchangeVars(Next)
=============================================================================
