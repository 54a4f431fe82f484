------------------------------ MODULE JqSelect ------------------------------
(***************************************************************************)
(* Sizzle, jQuery's own search, for selectors that the browser does not    *)
(* know (:has) and for browsers without one: candidates are matched from   *)
(* right to left, and a walk up or back keeps what it found at the         *)
(* elements it passed.  And jQuery's find, filter, not, is, closest and    *)
(* walks to relatives.  Filters by position are left out.                  *)
(*                                                                         *)
(* Elements are numbered in document order, which all shapes of the page   *)
(* here share; 0 is the document.  A selector is a sequence of groups, a   *)
(* group one of tokens.  G holds the page and what Sizzle remembers.       *)
(***************************************************************************)
EXTENDS Integers, Sequences, SequencesExt, FiniteSets, TLC

CONSTANTS Shapes,     \* pages: the parents of the elements
          NodeNames,  \* the elements' tags
          Queries,    \* selectors
          Lists,      \* the elements that a call is made on
          MaxFinds    \* bound on the calls

VARIABLE sel

Doc  == 0
None == -1            \* no element, no context
Free == -2            \* outermostContext for the whole document

\* Tokens: TAG with arg, ID with n, REL with arg " ", ">", "~" or "+", NOT and HAS with
\* sub, and CHILD with arg and the a and b of an + b; the instance builds them.
Not(groups) == [t |-> "NOT", sub |-> groups]

IsRel(token) == token.t = "REL"
Leading(tokens) == tokens # <<>> /\ IsRel(tokens[1])
needsContext(groups) == Leading(groups[1]) /\ groups[1][1].arg # " "

\* Whether rsibling finds a sign in the selector's text, be it the one of an + b.
RECURSIVE rsibling(_)
rsibling(groups) ==
  \E g \in DOMAIN groups : \E i \in DOMAIN groups[g] :
     LET token == groups[g][i]
     IN  CASE token.t = "REL" -> token.arg \in {"+", "~"}
           [] token.t = "CHILD" -> token.a # 0 /\ token.b > 0
           [] token.t \in {"NOT", "HAS"} -> rsibling(token.sub)
           [] OTHER -> FALSE

------------------------------------------------------------------------------
(* The page *)

Elements == DOMAIN NodeNames
InOrder(S) == SetToSortSeq(S, <)
Siblings(P, e) == {s \in Elements : P[s] = P[e]}
Nearest(S, lowest) == IF S = {} THEN None
                      ELSE CHOOSE x \in S : \A y \in S : IF lowest THEN x <= y ELSE x >= y

Axis(P, e, dir) ==
  CASE e = Doc -> None
    [] e # Doc /\ dir = "parentNode" -> P[e]
    [] e # Doc /\ dir = "previousSibling" -> Nearest({s \in Siblings(P, e) : s < e}, FALSE)
    [] e # Doc /\ dir = "nextSibling" -> Nearest({s \in Siblings(P, e) : s > e}, TRUE)

\* jQuery.dir: the elements on an axis, nearest first.
Along(P, dir) ==
  LET from[e \in Elements] ==
        LET c == Axis(P, e, dir) IN IF c \in {None, Doc} THEN <<>> ELSE <<c>> \o from[c]
  IN  from

Above(P, e) == {Doc} \cup ToSet(Along(P, "parentNode")[e])
Below(P, c) == {e \in Elements : c \in Above(P, e)}
Tagged(P, c, v) == InOrder({e \in Below(P, c) : v \in {"*", NodeNames[e]}})

------------------------------------------------------------------------------
(* Matching from right to left.  A matcher is <<groups, g>>, and its first  *)
(* k tokens; an answer holds what G has become.                             *)

RECURSIVE passes(_, _, _, _, _), climb(_, _, _, _, _, _), holds(_, _, _),
          superMatcher(_, _, _, _, _), Sizzle(_, _, _)

Answer(ok, G) == [ok |-> ok, G |-> G]
List(results, G) == [results |-> results, rest |-> <<>>, G |-> G]
Todo(elems, G) == [results |-> <<>>, rest |-> elems, G |-> G]
tokensOf(m) == m[1][m[2]]
base(m, k) == k = 0 \/ (k = 1 /\ Leading(tokensOf(m)))
combinator(m, k) == IF k = 0 THEN " " ELSE tokensOf(m)[k].arg
dirOf(m, k) == IF combinator(m, k) \in {">", " "} THEN "parentNode" ELSE "previousSibling"

\* The matcher left of a combinator: that of the context, or of the tokens there.
before(G, m, k, c, ctx) == IF base(m, k) THEN Answer(c = ctx, G) ELSE passes(G, m, k - 1, c, ctx)

\* The key tells the walk of this run and this combinator from all others.
\* Mutant: all combinators of a selector share what they remember.
dirkeyMutant(G, m, k) == <<G.dirruns, m>>
dirkey(G, m, k) == <<G.dirruns, m, k>>

Remember(G, at, entry) == [G EXCEPT !.dirs = (at :> entry) @@ @]
Known(G, at, key) == at \in DOMAIN G.dirs /\ G.dirs[at].key = key
Stored(G, at, key, hit) ==
  IF Known(G, at, key) THEN Remember(G, at, [key |-> key, hit |-> hit, run |-> G.cachedruns]) ELSE G

Outside(m, k, c) == c = None \/ (c = Doc /\ ~base(m, k))

climbOn(r, key, m, k, c, ctx) ==
  LET G == Stored(r.G, <<c, dirOf(m, k)>>, key, r.ok)
  IN  IF r.ok THEN Answer(TRUE, G) ELSE climb(G, key, m, k, Axis(G.parent, c, dirOf(m, k)), ctx)

\* The walk over all ancestors or earlier siblings: one that is known to have passed in
\* this run of the matcher, or to have failed for this very candidate, ends it.
climb(G, key, m, k, c, ctx) ==
  LET at == <<c, dirOf(m, k)>>
  IN  IF Outside(m, k, c) THEN Answer(FALSE, G)
      ELSE IF ~Known(G, at, key)
      THEN climbOn(before(Remember(G, at, [key |-> key, hit |-> FALSE, run |-> None]), m, k, c, ctx),
                   key, m, k, c, ctx)
      ELSE IF G.dirs[at].hit \/ G.dirs[at].run = G.cachedruns THEN Answer(G.dirs[at].hit, G)
      ELSE climb(G, key, m, k, Axis(G.parent, c, dirOf(m, k)), ctx)

addCombinator(G, m, k, e, ctx) ==
  LET c == Axis(G.parent, e, dirOf(m, k))
  IN  IF combinator(m, k) \in {" ", "~"} THEN climb(G, dirkey(G, m, k), m, k, c, ctx)
      ELSE IF Outside(m, k, c) THEN Answer(FALSE, G)
      ELSE before(G, m, k, c, ctx)

passesOn(r, m, k, e, ctx) == IF r.ok THEN passes(r.G, m, k - 1, e, ctx) ELSE r

\* matcherFromTokens: whether the first k tokens match e.
passes(G, m, k, e, ctx) ==
  IF base(m, k) /\ ~Leading(tokensOf(m)) /\ ctx # G.outermost THEN Answer(TRUE, G)
  ELSE IF base(m, k) \/ IsRel(tokensOf(m)[k]) THEN addCombinator(G, m, k, e, ctx)
  ELSE passesOn(holds(G, tokensOf(m)[k], e), m, k, e, ctx)

\* Mutant: a place is used again in another run.
CachedMutant(G, at) == at \in DOMAIN G.nths

\* :nth-child keeps the last place it found at the parent and counts on from there,
\* :nth-last-child every place it passed at its element.
Cached(G, at) == at \in DOMAIN G.nths /\ G.nths[at].run = G.dirruns

CountedOn(G, at, e) ==
  LET known == G.nths[at]
      from == IF Cached(G, at) /\ known.elem \in Siblings(G.parent, e) /\ known.elem < e
              THEN known.elem ELSE None
      new == {s \in Siblings(G.parent, e) : s > from /\ s <= e}
  IN  Cardinality(new) + (IF from = None THEN 0 ELSE known.place)

Place(run, e, n) == [run |-> run, elem |-> e, place |-> n]
forward(G, e) ==
  LET at == <<G.parent[e], "nth">>
  IN  [G EXCEPT !.nths = (at :> Place(G.dirruns, e, CountedOn(G, at, e))) @@ @]
backward(G, e) ==
  LET after(s) == Cardinality({x \in Siblings(G.parent, e) : x >= s})
      passed == {<<s, "last">> : s \in {x \in Siblings(G.parent, e) : x >= e}}
  IN  IF Cached(G, <<e, "last">>) THEN G
      ELSE [G EXCEPT !.nths = [at \in passed |-> Place(G.dirruns, at[1], after(at[1]))] @@ @]

\* diff === first || ( diff % first === 0 && diff / first >= 0 )
InCycle(token, place) ==
  LET diff == place - token.b
      size == IF token.a < 0 THEN -token.a ELSE token.a
  IN  diff = token.a \/ (token.a # 0 /\ diff % size = 0 /\ diff * token.a >= 0)

placed(G, token, at) == Answer(InCycle(token, G.nths[at].place), G)

CHILD(G, token, e) ==
  CASE token.a = 1 /\ token.b = 0 -> Answer(TRUE, G)     \* the shortcut for :nth-*(n)
    [] token.arg = "nth"      -> placed(forward(G, e), token, <<G.parent[e], "nth">>)
    [] token.arg = "nth-last" -> placed(backward(G, e), token, <<e, "last">>)
    [] token.arg = "first"    -> Answer(Axis(G.parent, e, "previousSibling") = None, G)
    [] token.arg = "last"     -> Answer(Axis(G.parent, e, "nextSibling") = None, G)
    [] token.arg = "only"     -> Answer(Siblings(G.parent, e) = {e}, G)

Empty(r, wanted) == Answer((r.results = <<>>) = wanted, r.G)

\* A filter that looks at one element.
holds(G, token, e) ==
  CASE token.t = "TAG"   -> Answer(token.arg \in {"*", NodeNames[e]}, G)
    [] token.t = "ID"    -> Answer(token.n = e, G)
    [] token.t = "CHILD" -> CHILD(G, token, e)
    [] token.t = "NOT"   -> Empty(superMatcher(G, token.sub, <<e>>, None, FALSE), TRUE)
    [] token.t = "HAS"   -> Empty(Sizzle(G, token.sub, e), FALSE)

\* The groups are tried from the last to the first.
RECURSIVE anyGroup(_, _, _, _, _)
orEarlier(r, groups, g, e, ctx) == IF r.ok \/ g = 1 THEN r ELSE anyGroup(r.G, groups, g - 1, e, ctx)
anyGroup(G, groups, g, e, ctx) ==
  orEarlier(passes(G, <<groups, g>>, Len(groups[g]), e, ctx), groups, g, e, ctx)

RunsOf(G, groups) == IF groups \in DOMAIN G.runs THEN G.runs[groups] ELSE 0

\* Each candidate has a number of its own, which the failures found for it bear.
Counted(G, groups, own) ==
  LET n == RunsOf(G, groups) + 1
  IN  [G EXCEPT !.dirruns = own, !.cachedruns = n, !.runs = (groups :> n) @@ @]

tried(s, r, groups, own, outermost) ==
  [results |-> IF r.ok THEN Append(s.results, Head(s.rest)) ELSE s.results,
   rest |-> Tail(s.rest),
   G |-> IF outermost THEN Counted(r.G, groups, own) ELSE r.G]

RECURSIVE tryAll(_, _, _, _, _)
tryAll(s, groups, ctx, own, outermost) ==
  IF s.rest = <<>> THEN s
  ELSE tryAll(tried(s, anyGroup(s.G, groups, Len(groups), Head(s.rest), ctx), groups, own, outermost),
              groups, ctx, own, outermost)

entered(G, groups, ctx, outermost) ==
  LET H == [G EXCEPT !.fresh = @ + 1, !.dirruns = G.fresh]
  IN  IF ~outermost THEN H
      ELSE [H EXCEPT !.outermost = IF ctx = Doc THEN Free ELSE ctx, !.cachedruns = RunsOf(G, groups)]

left(r, own, backup, outermost) ==
  IF outermost THEN [r EXCEPT !.G.dirruns = own, !.G.outermost = backup] ELSE r

superMatcher(G, groups, elems, ctx, outermost) ==
  left(tryAll(Todo(elems, entered(G, groups, ctx, outermost)), groups, ctx, G.fresh, outermost),
       G.fresh, G.outermost, outermost)

------------------------------------------------------------------------------
(* The candidates *)

Only(n, S) == IF n \in S THEN <<n>> ELSE <<>>

\* Siblings of the context count when the selector has a + or ~.
all(G, groups, ctx) ==
  Tagged(G.parent, IF rsibling(groups) /\ ctx # Doc THEN G.parent[ctx] ELSE ctx, "*")

\* The token of the last compound that the browser can search for.
seedPlace(tokens, ctx) ==
  Nearest({i \in DOMAIN tokens : /\ tokens[i].t = "TAG" \/ (tokens[i].t = "ID" /\ ctx = Doc)
                                 /\ \A j \in i .. Len(tokens) : ~IsRel(tokens[j])}, FALSE)

seedsOf(G, token, ctx) ==
  IF token.t = "ID" THEN Only(token.n, Elements) ELSE Tagged(G.parent, ctx, token.arg)

seeded(G, rest, seeds, ctx) ==
  IF seeds = <<>> \/ rest = <<>> THEN List(seeds, G) ELSE superMatcher(G, <<rest>>, seeds, ctx, TRUE)

selectOne(G, tokens, ctx) ==
  LET p == IF needsContext(<<tokens>>) THEN None ELSE seedPlace(tokens, ctx)
  IN  IF p = None THEN superMatcher(G, <<tokens>>, all(G, <<tokens>>, ctx), ctx, TRUE)
      ELSE seeded(G, RemoveAt(tokens, p), seedsOf(G, tokens[p], ctx), ctx)

\* A first compound that is an id becomes the context.
select(G, groups, ctx) ==
  LET tokens == groups[1]
      shortcut == Len(tokens) > 2 /\ tokens[1].t = "ID" /\ ctx = Doc /\ IsRel(tokens[2])
  IN  IF Len(groups) > 1 THEN superMatcher(G, groups, all(G, groups, ctx), ctx, TRUE)
      ELSE IF ~shortcut THEN selectOne(G, tokens, ctx)
      ELSE IF tokens[1].n \notin Elements THEN List(<<>>, G)
      ELSE selectOne(G, Tail(tokens), tokens[1].n)

\* A single tag or id needs no matching.
Sizzle(G, groups, ctx) ==
  LET token == groups[1][1]
      quick == Len(groups) = 1 /\ Len(groups[1]) = 1
  IN  IF quick /\ token.t = "TAG" /\ token.arg # "*" THEN List(Tagged(G.parent, ctx, token.arg), G)
      ELSE IF quick /\ token.t = "ID" /\ (ctx = Doc \/ token.n \in Below(G.parent, ctx))
      THEN List(Only(token.n, Elements), G)
      ELSE select(G, groups, ctx)

matches(G, groups, elems) == superMatcher(G, groups, elems, Doc, TRUE)

------------------------------------------------------------------------------
(* The calls on a list of elements *)

distinct(r, needed) == IF needed THEN [r EXCEPT !.results = InOrder(ToSet(@))] ELSE r
joined(s, r) == [results |-> s.results \o r.results, rest |-> Tail(s.rest), G |-> r.G]

RECURSIVE findAll(_, _)
findAll(s, groups) ==
  IF s.rest = <<>> THEN s ELSE findAll(joined(s, Sizzle(s.G, groups, Head(s.rest))), groups)
find(G, groups, elems) == distinct(findAll(Todo(elems, G), groups), Len(elems) > 1)

\* isSimple: behind the first character no other filter and no second group.
Plain(token) == token.t \in {"TAG", "REL"}
Simple(groups) ==
  /\ Len(groups) = 1
  /\ \A i \in 2 .. Len(groups[1]) : Plain(groups[1][i])
  /\ groups[1][1].t \in {"NOT", "HAS"} =>
        LET sub == groups[1][1].sub IN Len(sub) = 1 /\ \A i \in DOMAIN sub[1] : Plain(sub[1][i])

grep(r, elems, kept) == [r EXCEPT !.results = SelectSeq(elems, LAMBDA e : Contains(@, e) = kept)]

filter(G, groups, elems) == matches(G, groups, elems)

not(G, groups, elems) ==
  IF Simple(groups) THEN matches(G, <<<<Not(groups)>>>>, elems)
  ELSE grep(matches(G, groups, elems), elems, FALSE)

\* is: a selector that begins with a relation is sought in the document.
is(G, groups, elems) ==
  IF needsContext(groups) THEN grep(Sizzle(G, groups, Doc), elems, TRUE)
  ELSE filter(G, groups, elems)

\* From e upwards to the first that matches.
RECURSIVE upTo(_, _, _), closestAll(_, _)
upFrom(r, groups, e) == IF r.results # <<>> THEN r ELSE upTo(r.G, groups, r.G.parent[e])
upTo(G, groups, e) ==
  IF e = Doc THEN List(<<>>, G) ELSE upFrom(matches(G, groups, <<e>>), groups, e)

nearestIn(r, elems) ==
  LET line(e) == {e} \cup Above(r.G.parent, e)
      hits(e) == {c \in line(e) : Contains(r.results, c)}
  IN  [r EXCEPT !.results = FlattenSeq([i \in DOMAIN elems |-> IF hits(elems[i]) = {} THEN <<>>
                                           ELSE <<Nearest(hits(elems[i]), FALSE)>>])]

closestAll(s, groups) ==
  IF s.rest = <<>> THEN s ELSE closestAll(joined(s, upTo(s.G, groups, Head(s.rest))), groups)

closest(G, groups, elems) ==
  distinct(IF needsContext(groups) THEN nearestIn(Sizzle(G, groups, Doc), elems)
           ELSE closestAll(Todo(elems, G), groups), Len(elems) > 1)

relatives(P, e, name) ==
  CASE name = "parent"   -> IF P[e] = Doc THEN <<>> ELSE <<P[e]>>
    [] name = "parents"  -> Along(P, "parentNode")[e]
    [] name = "nextAll"  -> Along(P, "nextSibling")[e]
    [] name = "prevAll"  -> Along(P, "previousSibling")[e]
    [] name = "siblings" -> InOrder(Siblings(P, e) \ {e})
    [] name = "children" -> InOrder({s \in Elements : P[s] = e})

backwards(r, needed) == IF needed THEN [r EXCEPT !.results = Reverse(@)] ELSE r

walk(G, groups, elems, name) ==
  LET passed == FlattenSeq([i \in DOMAIN elems |-> relatives(G.parent, elems[i], name)])
      several == Len(elems) > 1
  IN  backwards(distinct(matches(G, groups, passed), several /\ name # "children"),
                several /\ name \in {"parents", "prevAll"})

------------------------------------------------------------------------------
(* Behaviour: calls, and changes of the page between them *)

Walks == {"parent", "parents", "nextAll", "prevAll", "siblings", "children"}

Init ==
  \E P \in Shapes :
    sel = [G |-> [parent |-> P, dirs |-> <<>>, nths |-> <<>>, runs |-> <<>>, fresh |-> 0,
                  dirruns |-> 0, cachedruns |-> 0, outermost |-> None],
           call |-> [op |-> "none"], results |-> <<>>, finds |-> 0]

Called(op, groups, elems, r) ==
  sel' = [sel EXCEPT !.G = r.G, !.call = [op |-> op, groups |-> groups, elems |-> elems],
                     !.results = r.results, !.finds = @ + 1]

Find(q) == \E l \in Lists \cup {<<Doc>>} : Called("find", q, l, find(sel.G, q, l))
Filter(q) == \E l \in Lists : Called("filter", q, l, filter(sel.G, q, l))
Without(q) == \E l \in Lists : Called("not", q, l, not(sel.G, q, l))
Is(q) == \E l \in Lists : Called("is", q, l, is(sel.G, q, l))
Closest(q) == \E l \in Lists : Called("closest", q, l, closest(sel.G, q, l))
Walk(q) == \E l \in Lists, name \in Walks : Called(name, q, l, walk(sel.G, q, l, name))

\* The program moves elements, and what Sizzle keeps stays at them.
Move(P) == P # sel.G.parent /\ sel' = [sel EXCEPT !.G.parent = P, !.call = [op |-> "none"]]

Next ==
  \/ /\ sel.finds < MaxFinds
     /\ \E q \in Queries :
           \/ Find(q) \/ Filter(q) \/ Is(q) \/ Closest(q) \/ Walk(q)
           \/ ~needsContext(q) /\ Without(q)
  \/ \E P \in Shapes : Move(P)

------------------------------------------------------------------------------
(* Property *)

\* What a selector means, read from left to right.
Related(P, rel, S) ==
  CASE rel = " " -> {e \in Elements : Above(P, e) \cap S # {}}
    [] rel = ">" -> {e \in Elements : P[e] \in S}
    [] rel = "~" -> {e \in Elements : \E s \in S \ {Doc} : s < e /\ P[s] = P[e]}
    [] rel = "+" -> {e \in Elements : Axis(P, e, "previousSibling") \in S}

RECURSIVE Meant(_, _, _), Reached(_, _, _, _)

Satisfies(P, token, e) ==
  LET place == Cardinality({s \in Siblings(P, e) : s <= e})
      size == Cardinality(Siblings(P, e))
      at(n) == \E j \in 0 .. Cardinality(Elements) : n = token.a * j + token.b
  IN  CASE token.t = "TAG" -> token.arg \in {"*", NodeNames[e]}
        [] token.t = "ID"  -> token.n = e
        [] token.t = "NOT" -> e \notin Meant(P, token.sub, Doc)
        [] token.t = "HAS" -> Meant(P, token.sub, e) # {}
        [] token.t = "CHILD" ->
             CASE token.arg = "nth"      -> at(place)
               [] token.arg = "nth-last" -> at(size - place + 1)
               [] token.arg = "first"    -> place = 1
               [] token.arg = "last"     -> place = size
               [] token.arg = "only"     -> size = 1

Reached(P, tokens, k, S) ==
  CASE k > Len(tokens) -> S
    [] k <= Len(tokens) /\ IsRel(tokens[k]) -> Reached(P, tokens, k + 1, Related(P, tokens[k].arg, S))
    [] OTHER -> Reached(P, tokens, k + 1, {e \in S : Satisfies(P, tokens[k], e)})

Meant(P, groups, ctx) ==
  UNION {Reached(P, groups[g], 1, IF Leading(groups[g]) THEN {ctx} ELSE Related(P, " ", {ctx})) :
            g \in DOMAIN groups}

Wanted(P, call) ==
  LET given == ToSet(call.elems)
      meant == Meant(P, call.groups, Doc)
      line(e) == ({e} \cup Above(P, e)) \cap meant
  IN  CASE call.op = "find" -> UNION {Meant(P, call.groups, e) : e \in given}
        [] call.op \in {"filter", "is"} -> given \cap meant
        [] call.op = "not" -> given \ meant
        [] call.op = "closest" -> {Nearest(line(e), FALSE) : e \in {x \in given : line(x) # {}}}
        [] call.op \in Walks -> meant \cap UNION {ToSet(relatives(P, e, call.op)) : e \in given}

\* A call finds what its selector means, each element once, and find and closest in the
\* order of the document: what a walk or a count has kept at the elements is used neither
\* by another combinator, nor for another candidate, nor after the page has changed
\* (addCombinator, CHILD and superMatcher of Sizzle; find, winnow, closest of jQuery).
\* It is known not to hold left of a combinator for a :has whose own selector needs a
\* superMatcher: that one leaves its cachedruns behind.
ElementsFound ==
  sel.call.op # "none" =>
    /\ ToSet(sel.results) = Wanted(sel.G.parent, sel.call)
    /\ Len(sel.results) = Cardinality(ToSet(sel.results))
    /\ sel.call.op \in {"find", "closest"} => sel.results = InOrder(ToSet(sel.results))
==============================================================================
