---------------------------- MODULE MCConversation ----------------------------
(* Two turns at a time of a client with a session and of one without, whose *)
(* contexts compete for one or two places in the cache.                     *)
EXTENDS Conversation, TLC

CONSTANTS w1, w2, d1, d2, s1, camellia, soleil

TwoWorkers == {w1, w2}
TwoCallers == {[device |-> d1, session |-> s1], [device |-> d2, session |-> NoSession]}
TwoProjects == {camellia, soleil}

Ask(intent, budget, slot, long, names, project) ==
    [intent |-> intent, budget |-> budget, slot |-> slot, long |-> long,
     names |-> names, project |-> project]

SomeQuestions ==
    {Ask("company", FALSE, TRUE, TRUE, {soleil}, NoProject),
     Ask("price", TRUE, TRUE, FALSE, {camellia}, camellia),
     Ask("legal", FALSE, FALSE, FALSE, TwoProjects, Training)}

WorkersAreAlike == Permutations(TwoWorkers)
===============================================================================
