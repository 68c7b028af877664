---------------------------- MODULE MCRepository ----------------------------
(* Repositories for Repository.  Each is a small MLX with two revisions of *)
(* its text, one or two sets of hand-kept files, and the tools and edits   *)
(* that are tried on it.                                                   *)
EXTENDS Repository

CONSTANTS me, other

core == <<"core">>
Plain(t) == <<t, "none">>
Fn(ns, name, ret, params) ==
  [kind |-> "function", here |-> TRUE, how |-> "function", ns |-> ns, name |-> name,
   ret |-> Plain(ret), params |-> [i \in DOMAIN params |-> Plain(params[i])], doc |-> TRUE]
As(node, how) == [node EXCEPT !.how = how]
Enum(name) == [kind |-> "enum", here |-> TRUE, ns |-> core, name |-> name]

K(name) == <<<<"mlx", "core">>, name>>
Rule(ret, params, suffix) ==
  [sig |-> <<ret, params>>, skip |-> FALSE, reason |-> "none", suffix |-> suffix, doc |-> FALSE]
Skip(ret, params, why) ==
  [sig |-> <<ret, params>>, skip |-> TRUE, reason |-> why, suffix |-> << >>, doc |-> FALSE]

Abs    == Fn(core, <<"abs">>, "array", <<"array">>)
AbsN   == Fn(core, <<"abs">>, "array", <<"array", "int">>)
ToDot  == Fn(core, <<"export", "to", "dot">>, "void", <<"std::string">>)
Hidden == Fn(<<"core", "detail">>, <<"trace">>, "array", <<"array">>)
HiddenN == Fn(<<"core", "detail">>, <<"trace">>, "array", <<"array", "int">>)

DotRule  == K(<<"export", "to", "dot">>) :> <<Rule("void", <<"std::string">>, << >>)>>
AbsRule  == K(<<"abs">>) :> <<Rule("array", <<"array">>, << >>)>>
AbsRules == K(<<"abs">>) :> <<Rule("array", <<"array">>, << >>), Rule("array", <<"array", "int">>, <<"n">>)>>

Item(name) == [kind |-> "function", name |-> <<"mlx", "jaccl">> \o name, sig |-> << >>]
Spec1 == {Item(<<"init">>)}
Spec2 == {Item(<<"init">>), Item(<<"free">>)}
Defines(spec) == {[name |-> i.name, sig |-> i.sig, of |-> << >>, body |-> "calls"] : i \in spec}

\* The hand-kept files for some modules, some rules and a custom spec.
Kept(modules, variants, spec) ==
  LET headers == {HeaderOf(m.name) : m \in ToSet(modules)} \cup {HeaderOf("vector")}
      impls   == {ImplOf(m.name) : m \in ToSet(modules)} \cup {ImplOf("vector")}
      entry(kind, target) == [kind |-> kind, target |-> target]
  IN  [modules |-> modules, variants |-> variants, detail |-> {<<"trace">>}, hooks |-> {},
       api |-> Hooks, ref |-> 1, cmake |-> 1, types |-> DOMAIN Registry, spec |-> spec,
       umbrella |-> headers, implementation |-> Defines(spec),
       inventory |-> [p \in headers \cup impls |-> entry("generated_header_api", "mlxc")]
                       @@ mlx_h :> entry("umbrella", "mlxc")
                       @@ jaccl_h :> entry("custom_spec_generated", "jacclc")
                       @@ jaccl_cpp :> entry("custom_implementation", "jacclc"),
       sources |-> impls \cup {jaccl_cpp}]

Ops == <<[name |-> "ops", headers |-> <<"ops.h">>]>>
Two == Ops \o <<[name |-> "fft", headers |-> <<"fft.h">>]>>
Shared == Ops \o <<[name |-> "fft", headers |-> <<"ops.h">>]>>
Simple == Kept(Ops, AbsRule @@ DotRule, Spec1)
Dot == Kept(Ops, DotRule, Spec1)

Repo(text, policy, tools, kinds) ==
  [text |-> text, ast |-> text, alias |-> [r \in DOMAIN text |-> << >>], policy |-> policy,
   tools |-> tools, others |-> {}, edits |-> kinds]
One(nodes) == "ops.h" :> nodes
Run == {"generate", "parse", "check"}

\* MLX gains an overload, and a rule for it follows; a file is edited by hand.
Grows == Repo(<<One(<<Abs, ToDot>>), One(<<Abs, ToDot, AbsN>>)>>,
              <<Simple, [Simple EXCEPT !.variants = AbsRules @@ DotRule]>>, Run, {"checkout", "policy"})
Edited == Repo(<<One(<<ToDot, Enum(<<"mode">>)>>)>>, <<Dot>>, {"generate", "check"}, {"hand"})
Ordered == Repo(<<One(<<Abs, ToDot, Enum(<<"mode">>), Enum(<<"kind">>)>>)>>, <<Simple>>, {"generate", "check", "lock"}, {})

\* Everything that walkAST and the policy leave out, and a return type that is an alias.
Rich == LET nodes == <<Fn(core, <<"abs">>, "Alias", <<"array">>), AbsN, ToDot, Hidden, HiddenN, Abs,
                       As(Abs, "operator"), As(Abs, "builtin"), As(Abs, "untyped"), As(Abs, "unparsed"),
                       Fn(core, <<"to">>, "Stream", <<"array">>), Fn(core, <<"eval">>, "void", <<"T">>),
                       Fn(<<"core", "detail">>, <<"in", "trace">>, "int", << >>),
                       [Abs EXCEPT !.here = FALSE, !.name = <<"elsewhere">>]>>
            kept  == Kept(Ops, K(<<"abs">>) :> <<Rule("array", <<"array">>, << >>),
                                               Skip("array", <<"array", "int">>, "covered_by_other_variant")>>
                                 @@ DotRule, Spec1)
        IN  [Repo(<<One(nodes), One(nodes)>>, <<kept>>, {"parse", "check"}, {"checkout"})
               EXCEPT !.alias = <<"Alias" :> "array", "Alias" :> "float">>]

\* What parse and check refuse: names that meet (but not two rules at one hook), a header in
\* two modules, overloads in two modules, a type without a mapping, no documentation, a type
\* policy that is behind.
Collision(nodes, variants) == Repo(<<One(<<Abs, ToDot>> \o nodes)>>,
                                   <<Kept(Ops, variants @@ AbsRule @@ DotRule, Spec1)>>, {"parse", "check"}, {})
Meets ==
  {Collision(<<AbsN, Fn(core, <<"abs", "n">>, "array", <<"array">>)>>,
             AbsRules @@ K(<<"abs", "n">>) :> <<Rule("array", <<"array">>, << >>)>>),
   Collision(<<Fn(core, <<"node", "namer", "new">>, "array", << >>)>>,
             K(<<"node", "namer", "new">>) :> <<Rule("array", << >>, << >>)>>),
   Collision(<<Fn(core, <<"export", "to">>, "array", << >>)>>,
             K(<<"export", "to">>) :> <<Rule("array", << >>, <<"dot">>)>>),
   Collision(<<AbsN>>, K(<<"abs">>) :> <<Rule("array", <<"array">>, << >>), Rule("array", <<"array", "int">>, << >>)>>)}
Twice  == Repo(<<One(<<Abs, ToDot>>)>>, <<Kept(Shared, AbsRule @@ DotRule, Spec1)>>, {"parse", "check"}, {})
Spread == Repo(<<One(<<Abs, ToDot>>) @@ "fft.h" :> << >>, One(<<Abs, ToDot>>) @@ "fft.h" :> <<AbsN>>>>,
               <<Kept(Two, AbsRule @@ DotRule, Spec1), Kept(Two, AbsRules @@ DotRule, Spec1)>>,
               {"parse", "check"}, {"checkout", "policy"})
Odd    == {Collision(<<Fn(core, <<"sort">>, "array", <<"Unmapped">>)>>,
                     K(<<"sort">>) :> <<Rule("array", <<"Unmapped">>, << >>)>>),
           Collision(<<[AbsN EXCEPT !.doc = FALSE]>>, AbsRules),
           [Collision(<< >>, << >>) EXCEPT !.policy[1].types = DOMAIN Registry \ {"int"}],
           [Collision(<< >>, << >>) EXCEPT !.policy[1].api = << >>]}

\* A header with an error in it: clang drops one declaration, prints another without its type.
Broken == [Repo(<<One(<<Abs, ToDot, AbsN, Fn(core, <<"exp">>, "array", <<"array">>)>>)>>, <<Simple>>,
                {"parse", "check"}, {})
             EXCEPT !.ast[1]["ops.h"] = <<Abs, ToDot, [AbsN EXCEPT !.here = FALSE],
                                          As(Fn(core, <<"exp">>, "array", <<"array">>), "untyped")>>]

\* MLX loses a function, a header; the manifest drops a module; the custom spec grows.
Loses  == {Repo(<<One(<<Abs, ToDot>>), One(<<ToDot>>)>>, <<Simple>>, {"parse", "generate"}, {"checkout"}),
           Repo(<<One(<<Abs, ToDot>>), << >>>>, <<Simple>>, {"parse", "generate"}, {"checkout"})}
Drops  == Repo(<<One(<<ToDot>>) @@ "fft.h" :> << >>>>, <<Kept(Two, DotRule, Spec1), Dot>>,
               {"generate", "check"}, {"policy"})
Custom == Repo(<<One(<<ToDot>>)>>, <<Dot, [Dot EXCEPT !.spec = Spec2, !.implementation = Defines(Spec2)]>>,
               {"generate", "check", "lock", "build", "purego"}, {"policy"})

Behind == Repo(<<One(<<ToDot>>)>>, <<Dot, [Dot EXCEPT !.spec = Spec2],
                 [Dot EXCEPT !.implementation = Defines(Spec2)]>>, {"generate", "check", "lock"}, {"policy"})

\* The working tree of MLX is edited while its HEAD stays; another run shares the cache.
Dirty  == [Repo(<<One(<<Abs, ToDot>>), One(<<ToDot, Abs>>)>>, <<Simple>>, {"generate", "check"}, {"checkout", "dirty"})
             EXCEPT !.alias = <<"Alias" :> "array", "Alias" :> "float">>]
Races  == [Repo(<<One(<<ToDot>>), One(<<ToDot, Abs>>)>>, <<Dot>>, {"parse"}, {"checkout"})
             EXCEPT !.others = {"parse"}]

Worlds == Meets \cup Odd \cup Loses
            \cup {Grows, Edited, Ordered, Rich, Broken, Twice, Spread, Drops, Custom, Behind, Dirty, Races}
=============================================================================
