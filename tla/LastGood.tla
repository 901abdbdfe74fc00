------------------------------ MODULE LastGood ------------------------------
(***************************************************************************)
(* What a file that is read again promises its callers: of all the good    *)
(* contents the file was ever given, numbered in the order they were given, *)
(* one is served; a caller is answered the one served then, and the one    *)
(* served only ever moves to a newer one.                                  *)
(***************************************************************************)
EXTENDS Naturals

CONSTANT Callers

VARIABLES
  offered,  \* how many good contents the file was given
  shown,    \* the one served, 0 before the first
  answer    \* what each caller was last answered, 0 for nothing

vars == <<offered, shown, answer>>

Init == offered \in {0, 1} /\ shown = 0 /\ answer = [c \in Callers |-> 0]

Offer == offered' = offered + 1 /\ UNCHANGED <<shown, answer>>

\* The answer is good, and no older than any answer given before it.
Serve(c) ==
  /\ shown' \in (1 .. offered) \cap {n \in Nat : n >= shown}
  /\ answer' = [answer EXCEPT ![c] = shown']
  /\ UNCHANGED offered

\* A new call, or one that fails, has no answer.
Ask(c) == answer' = [answer EXCEPT ![c] = 0] /\ UNCHANGED <<offered, shown>>

Next == Offer \/ \E c \in Callers : Serve(c) \/ Ask(c)

Spec == Init /\ [][Next]_vars
=============================================================================
