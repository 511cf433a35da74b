--------------------------- MODULE RenderService ---------------------------
(***************************************************************************)
(* What layoutAndRenderAsync promises, without trees, levels or workers:   *)
(* callers ask for renders, one render runs at a time, a call that finds   *)
(* none running begins its own at once, and every render that ends answers *)
(* one call, never more than were made.                                    *)
(***************************************************************************)
EXTENDS Naturals

VARIABLES
  asked,   \* calls of layoutAndRenderAsync
  busy,    \* a render runs
  done     \* calls whose callback has run

vars == <<asked, busy, done>>

Init == asked = 0 /\ busy = FALSE /\ done = 0

\* A call: it begins a render, or waits for the one that runs
Ask == asked' = asked + 1 /\ busy' = TRUE /\ UNCHANGED done

\* A caller that waited begins its render
Start == ~busy /\ done < asked /\ busy' = TRUE /\ UNCHANGED <<asked, done>>

\* The render that runs answers its caller
Finish == busy /\ busy' = FALSE /\ done' = done + 1 /\ UNCHANGED asked

Next == Ask \/ Start \/ Finish
Spec == Init /\ [][Next]_vars
=============================================================================
