---------------------------- MODULE ResponseOnce ----------------------------
(***************************************************************************)
(* What the response path promises the server, whoever asks for a response *)
(* and however often: a response that is due is posted by one task at a    *)
(* time, is posted no more while it is known to have arrived, and is free  *)
(* to be posted again when its POST failed or it was forgotten.  A POST is *)
(* at-least-once: the server may process attempts the client sees fail.    *)
(***************************************************************************)
EXTENDS Naturals

CONSTANTS Keys,  \* the responses: event, code and device
          Due    \* those the server asked for

VARIABLES told,    \* how often the server processed each
          posting, \* those being posted
          known    \* those known to have arrived
vars == <<told, posting, known>>

Init == told = [k \in Keys |-> 0] /\ posting = {} /\ known = {}

Begin(k) ==
    /\ k \in Due \ (posting \cup known)
    /\ posting' = posting \cup {k} /\ UNCHANGED <<told, known>>

(* An attempt the server processed and the client repeats. *)
Repeat(k) ==
    /\ k \in posting
    /\ told' = [told EXCEPT ![k] = @ + 1] /\ UNCHANGED <<posting, known>>

Arrive(k) ==
    /\ k \in posting /\ posting' = posting \ {k}
    /\ told' = [told EXCEPT ![k] = @ + 1] /\ known' = known \cup {k}

(* The POST ended without an answer; the server may have processed it. *)
Lose(k) ==
    /\ k \in posting /\ posting' = posting \ {k}
    /\ told' \in {told, [told EXCEPT ![k] = @ + 1]} /\ UNCHANGED known

Forget == known' \in SUBSET known /\ UNCHANGED <<told, posting>>

Next == Forget \/ \E k \in Keys : Begin(k) \/ Repeat(k) \/ Arrive(k) \/ Lose(k)

Spec == Init /\ [][Next]_vars
=============================================================================
