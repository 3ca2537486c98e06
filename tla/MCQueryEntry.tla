----------------------------- MODULE MCQueryEntry -----------------------------
(* One request; three events are enough for tokens before and after a      *)
(* metadata frame and for a queue that is longer than its head.  Two       *)
(* queries and one identity per window, of which neighbours may take all.  *)
EXTENDS QueryEntry

TwoAndOne == [query |-> 2, mint |-> 1]
=============================================================================
