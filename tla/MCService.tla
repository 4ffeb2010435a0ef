----------------------------- MODULE MCService ------------------------------
EXTENDS Service, TLC

Fn(ident, attrs, params) ==
  [item |-> "fn", ident |-> ident, async |-> TRUE, receiver |-> TRUE,
   params |-> params, attrs |-> attrs]
Attr(path, name) == [path |-> path, args |-> <<[key |-> "name", value |-> name]>>]
Named(name) == <<[key |-> "name", value |-> name]>>

\* Each kind once, with no, one and two parameters.
Full == [args |-> Named("s"), items |->
  << Fn(<<"watch">>, <<Attr("subscription", "c")>>, <<"x">>),
     Fn(<<"add">>, <<Attr("method", "a")>>, <<"x", "y">>),
     Fn(<<"raw">>, <<Attr("stream", "d")>>, <<"x", "y">>),
     Fn(<<"push">>, <<Attr("notification", "n")>>, << >>) >>]

\* A later version under the same name: "a" takes one parameter, "c" none.
Later == [args |-> Named("s"), items |->
  << Fn(<<"watch">>, <<Attr("subscription", "c")>>, << >>),
     Fn(<<"add">>, <<Attr("method", "a")>>, <<"x">>) >>]

\* Two kinds under one resource name: the subscription is registered last.
Twice == [args |-> Named("t"), items |->
  << Fn(<<"tick">>, <<Attr("subscription", "a")>>, << >>),
     Fn(<<"add">>, <<Attr("method", "a")>>, <<"x">>) >>]

\* Traits that are not accepted, or not compiled.
Bad == {
  [args |-> << >>, items |-> Later.items],
  [args |-> Named("b"), items |-> <<[item |-> "const"]>>],
  [args |-> Named("b"), items |-> <<Fn(<<"f">>, << >>, << >>)>>],
  [args |-> Named("b"), items |-> <<Fn(<<"f">>, <<Attr("method", "a")>>, <<"ctx">>)>>],
  [args |-> Named("b"), items |->
     <<Fn(<<"f">>, <<Attr("subscription", "a"), Attr("stream", "a")>>, << >>)>>],
  [args |-> Named("b"), items |->
     << Fn(<<"f", "g">>, <<Attr("notification", "a")>>, << >>),
        Fn(<<"f", "", "g">>, <<Attr("notification", "b")>>, << >>) >>] }

MCTraits == {Full, Later, Twice} \cup Bad

Symmetry == Permutations(Conns) \cup Permutations(Reqs)

ASSUME Expanding = {Full, Later, Twice}
=============================================================================
