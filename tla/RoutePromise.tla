---------------------------- MODULE RoutePromise ----------------------------
(***************************************************************************)
(* What ExaFS promises of the routes it has ExaBGP announce, whatever its  *)
(* rules, requests and commands look like.                                 *)
(*                                                                         *)
(* A route changes only while somebody works on it, and nobody leaves it   *)
(* before it is announced as the rules say.  A crash takes all routes; the *)
(* one who clears repair must work on every route that is due.             *)
(***************************************************************************)
CONSTANT Routes

VARIABLES
  owned,   \* the routes that have an active rule
  due,     \* those of them whose rule's time has not passed
  shown,   \* the routes that are announced
  busy,    \* the routes somebody works on
  spoilt,  \* the routes nothing is promised of any more
  up,      \* ExaBGP runs
  repair   \* the routes a crash took were not seen to yet

vars == <<owned, due, shown, busy, spoilt, up, repair>>

Init ==
  /\ owned = {} /\ due = {} /\ shown = {}
  /\ busy = {} /\ spoilt = {}
  /\ up = TRUE /\ repair = FALSE

\* Announced only if a rule has it, and announced if a rule is due.
Right(r) ==
  /\ r \in shown => r \in owned
  /\ up /\ ~repair /\ r \in due => r \in shown

SameOutside(rs, set, next) == set \ rs = next \ rs

\* Somebody takes, works on, or leaves some routes.
Work ==
  /\ UNCHANGED up
  /\ spoilt \subseteq spoilt'
  /\ LET mine == busy \cup busy'
     IN  /\ SameOutside(mine, owned, owned')
         /\ SameOutside(mine, due, due')
         /\ SameOutside(mine, shown, shown')
         /\ SameOutside(mine, spoilt, spoilt')
         /\ \/ repair' = repair
            \/ repair /\ ~repair' /\ due \subseteq mine
  /\ shown' # shown => up
  /\ \A r \in busy \ (busy' \cup spoilt') : Right(r)'

Pass ==
  /\ due' \subseteq due
  /\ UNCHANGED <<owned, shown, busy, spoilt, up, repair>>

Crash ==
  /\ up /\ up' = FALSE
  /\ shown' = {} /\ repair' = FALSE
  /\ UNCHANGED <<owned, due, busy, spoilt>>

Restart ==
  /\ ~up /\ up' = TRUE
  /\ repair' = TRUE
  /\ UNCHANGED <<owned, due, shown, busy, spoilt>>

Next == Work \/ Pass \/ Crash \/ Restart

Spec == Init /\ [][Next]_vars

\* What follows from it: a route nobody works on is right.
AllRight == \A r \in Routes \ (busy \cup spoilt) : Right(r)
=============================================================================
