-------------------------------- MODULE MCCorpus --------------------------------
(* Two documents that may both claim the one key of facts: the first was loaded *)
(* before the model changed, and its driver preserves the fact seeded for it;   *)
(* two loaders; one image; three old texts, none blank, in batches of two.  The  *)
(* first is loaded again with one section, the second with one or two.          *)
EXTENDS Corpus, TLC

CONSTANTS d1, d2, k1, l1, l2, m1

TwoDocs == {d1, d2}
OldDocs == {d1}
Seeds == (d1 :> k1) @@ (d2 :> NoKey)
Preserved == {d1}
Sizes == (d1 :> 1) @@ (d2 :> 2)
OneKey == {k1}
NoBlank == {}
OneImage == {m1}
TwoLoaders == {l1, l2}

Loading == {"load"}
Moving == {"load", "migrate"}
Picturing == {"migrate", "caption"}
AllShifts == {Loading, Moving, Picturing}

Alike == Permutations(Loaders)
===============================================================================
