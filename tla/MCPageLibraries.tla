--------------------------- MODULE MCPageLibraries ---------------------------
(* Instances of PageLibraries for TLC; the other values are in the cfg.    *)
EXTENDS PageLibraries

\* A checkbox inside three boxes; one selector finds the checkbox, the other
\* the checkbox and the box around it.
MCTags == <<"input", "div", "div", "div">>
MCSelectors == [s |-> {1}, t |-> {1, 2}]

\* In the second page 4 has gone from 2 to 1.
MCShapes == {<<0, 1, 2, 2, 1, 1>>, <<0, 1, 2, 1, 1, 1>>}
MCNodeNames == <<"div", "div", "p", "div", "p", "b">>
MCLists == {<<3, 4, 5>>, <<3, 6>>}

Rel(v) == [t |-> "REL", arg |-> v]
Child(v, a, b) == [t |-> "CHILD", arg |-> v, a |-> a, b |-> b]
under == Rel(" ")
div == [t |-> "TAG", arg |-> "div"]
p == [t |-> "TAG", arg |-> "p"]
any == [t |-> "TAG", arg |-> "*"]
hasP == [t |-> "HAS", sub |-> <<<<Rel(">"), p>>>>]

MCQueries ==
  {<<<<div, under, div, under, p>>>>,
   <<<<div, under, div, Rel(">"), p, Rel("~"), any, Child("last", 0, 0)>>>>,
   <<<<Child("nth", 2, 0)>>>>,
   <<<<div, Child("nth-last", 0, 3), under, p>>>>,
   <<<<[t |-> "ID", n |-> 2], under, p, Child("first", 0, 0)>>>>,
   <<<<Rel("+"), any>>>>,
   <<<<p, Child("only", 0, 0)>>,
     <<div, [t |-> "NOT", sub |-> <<<<hasP>>>>], Rel("~"), any>>>>}
=============================================================================
