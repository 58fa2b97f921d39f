------------------------------- MODULE MCJobs -------------------------------
(* Instances of Jobs for TLC: small graphs, each with something of its own. *)
EXTENDS Jobs

SomeNodes == {"a", "b", "c", "d", "e"}

\* Nothing depends on anything, everything has a builder, "a" is asked for.
Plain ==
  [sources |-> [n \in SomeNodes |-> << >>], depends |-> [n \in SomeNodes |-> << >>],
   includes |-> [n \in SomeNodes |-> {}], targets |-> [n \in SomeNodes |-> <<n>>],
   side_effects |-> [n \in SomeNodes |-> {}], derived |-> SomeNodes,
   unscannable |-> {}, fragile |-> {}, cached |-> {}, disk |-> {}, top |-> <<"a">>]

\* a needs b and c, which both need d; what d makes may exist.
Diamond ==
  [Plain EXCEPT !.sources["a"] = <<"b", "c">>, !.sources["b"] = <<"d">>,
                !.sources["c"] = <<"d">>, !.fragile = {"b", "d"}, !.disk = {"d"}]

\* Two command line targets that share children, one of them below another.
TwoTops ==
  [Plain EXCEPT !.sources["a"] = <<"c", "d">>, !.sources["b"] = <<"d", "e">>,
                !.depends["c"] = <<"d">>, !.fragile = {"c", "e"}, !.top = <<"a", "b">>]

\* One action makes b and c.
Group ==
  [Plain EXCEPT !.sources["a"] = <<"b", "c">>, !.sources["b"] = <<"d">>,
                !.sources["c"] = <<"d">>, !.targets["b"] = <<"b", "c">>,
                !.targets["c"] = <<"b", "c">>, !.derived = {"a", "b", "c"},
                !.disk = {"b", "c", "d"}, !.fragile = {"b"}]

\* The actions of b and c both write e, and so does d's.
Shared ==
  [Plain EXCEPT !.sources["a"] = <<"b", "c", "d">>, !.side_effects["b"] = {"e"},
                !.side_effects["c"] = {"e"}, !.side_effects["d"] = {"e"},
                !.derived = {"a", "b", "c", "d"}, !.fragile = {"b"}]

\* a is made from b, which includes c, which once it is made includes d, which
\* once it is made includes e.
Header ==
  [Plain EXCEPT !.sources["a"] = <<"b">>, !.includes["b"] = {"c"}, !.includes["c"] = {"d"},
                !.includes["d"] = {"e"}, !.derived = {"a", "c", "d"}, !.disk = {"b", "e"},
                !.fragile = {"d"}]

\* b and c need each other; d does not.
Cycle ==
  [Plain EXCEPT !.sources["a"] = <<"d", "b">>, !.sources["b"] = <<"c">>,
                !.sources["c"] = <<"b", "d">>]

\* b needs a file that is not there; c is asked for too.
MissingSource ==
  [Plain EXCEPT !.sources["a"] = <<"b", "c">>, !.sources["b"] = <<"d">>,
                !.depends["c"] = <<"e">>, !.derived = {"a", "b", "c"}, !.disk = {"e"},
                !.top = <<"c", "a">>]

\* Nothing makes d, which is asked for; scanning b raises.
Unscannable ==
  [Plain EXCEPT !.sources["a"] = <<"c", "b">>, !.unscannable = {"b"},
                !.derived = {"a", "b", "c"}, !.top = <<"d", "a">>]

\* b is in the cache; c is not.
Cached ==
  [Plain EXCEPT !.sources["a"] = <<"b", "c">>, !.sources["c"] = <<"d">>, !.cached = {"b", "d"},
                !.fragile = {"c"}]

\* b is in the cache, and both a and c need it.
CachedShared ==
  [Plain EXCEPT !.sources["a"] = <<"b">>, !.sources["c"] = <<"b">>, !.cached = {"b"},
                !.fragile = {"c"}, !.top = <<"a", "c">>]

\* Every way three nodes can need each other, cycles included, and every way
\* four can without a cycle, in the order of the alphabet; c's action may fail.
Chosen(pairs, n, m) == IF <<n, m>> \in pairs THEN <<m>> ELSE << >>
Needing(nodes, pairs) ==
  [n \in SomeNodes |-> IF n \in nodes
     THEN Chosen(pairs, n, "a") \o Chosen(pairs, n, "b") \o Chosen(pairs, n, "c")
            \o Chosen(pairs, n, "d")
     ELSE << >>]
Three == {p \in {"a", "b", "c"} \X {"a", "b", "c"} : p[1] # p[2]}
Four == {<<"a", "b">>, <<"a", "c">>, <<"a", "d">>, <<"b", "c">>, <<"b", "d">>, <<"c", "d">>}
AnyThree ==
  {[Plain EXCEPT !.sources = Needing({"a", "b", "c"}, pairs), !.fragile = {"c"},
                 !.top = <<"b", "a">>] : pairs \in SUBSET Three}
AnyFour ==
  {[Plain EXCEPT !.sources = Needing({"a", "b", "c", "d"}, pairs), !.fragile = {"c"},
                 !.top = <<"a", "b">>, !.disk = {"d"}] : pairs \in SUBSET Four}

SomeGraphs ==
  {Diamond, TwoTops, Group, Shared, Header, Cycle, MissingSource, Unscannable, Cached,
   CachedShared}
    \cup AnyThree \cup AnyFour

\* Graphs outside SomeGraphs, each for one defect that the README describes.
\* Two actions need b, one after the other; b and c are made together, but only b
\* is in the cache.
HalfCached ==
  [Plain EXCEPT !.sources["a"] = <<"d", "e">>, !.sources["d"] = <<"b">>,
                !.sources["e"] = <<"b">>, !.targets["b"] = <<"b", "c">>,
                !.targets["c"] = <<"b", "c">>, !.cached = {"b"}]

\* d is written as the side effect of b; c is made from it.
FromSideEffect ==
  [Plain EXCEPT !.sources["a"] = <<"b", "c">>, !.sources["c"] = <<"d">>,
                !.sources["d"] = <<"b">>, !.side_effects["b"] = {"d"},
                !.derived = {"a", "b", "c"}]

\* A chain from a down to e, which fails first, and b, which needs the middle of
\* the chain.
Chain ==
  [Plain EXCEPT !.sources["a"] = <<"c">>, !.sources["b"] = <<"c">>, !.sources["c"] = <<"d">>,
                !.sources["d"] = <<"e">>, !.fragile = {"e"}, !.top = <<"e", "a", "b">>]

\* No cycle: e, from which b is made, includes d, which once it is made includes c.
LateHeader ==
  [Plain EXCEPT !.sources["a"] = <<"c", "b">>, !.sources["b"] = <<"e">>, !.depends["c"] = <<"d">>,
                !.includes["e"] = {"d"}, !.includes["d"] = {"c"},
                !.derived = {"a", "b", "c", "d"}, !.disk = {"e"}]

\* a is made from c, which includes b, and waits for d, which is found to have failed
\* because of e.
SilentFailure ==
  [Plain EXCEPT !.sources["a"] = <<"c">>, !.depends["a"] = <<"d">>, !.sources["d"] = <<"e">>,
                !.includes["c"] = {"b"}, !.fragile = {"e"}, !.top = <<"e", "a">>]

\* Scanning a, which is made from b, raises.
UnscannableParent == [Plain EXCEPT !.sources["a"] = <<"b">>, !.unscannable = {"a"}]

\* b, of which a scan raises, writes e as d does.
UnscannableShared ==
  [Plain EXCEPT !.sources["a"] = <<"d", "b", "c">>, !.unscannable = {"b"},
                !.side_effects["d"] = {"e"}, !.side_effects["b"] = {"e"},
                !.side_effects["c"] = {"e"}, !.derived = {"a", "b", "c", "d"}]

\* a and b are both made from e, which includes d; d is in the cache and includes c.
CachedHeader ==
  [Plain EXCEPT !.sources["a"] = <<"e">>, !.sources["b"] = <<"e">>, !.includes["e"] = {"d"},
                !.includes["d"] = {"c"}, !.cached = {"d"}, !.derived = {"a", "b", "c", "d"},
                !.disk = {"e"}, !.top = <<"a", "b">>]

LateHeaderGraph == {LateHeader}
SilentFailureGraph == {SilentFailure}
CachedSharedGraph == {CachedShared}
CachedHeaderGraph == {CachedHeader}
UnscannableParentGraph == {UnscannableParent}
UnscannableSharedGraph == {UnscannableShared}
HalfCachedGraph == {HalfCached}
SideEffectGraph == {FromSideEffect}
ChainGraph == {Chain}
=============================================================================
