------------------------------- MODULE MCPlan -------------------------------
(***************************************************************************)
(* Instances of Plan for TLC: all dependency graphs on two or three hooks, *)
(* and all single conditions of one hook in a few contexts.                *)
(***************************************************************************)
EXTENDS Plan

HookOn(id, dependsOn, when) ==
    [id |-> id, dependsOn |-> dependsOn, passFiles |-> FALSE, files |-> None, exclude |-> None,
     when |-> when]

LocalOnly == [NoConditions EXCEPT !.onCi = "never"]

\* Three hooks, all of which run or the first of which is skipped on CI: every graph on them.
ThreeHooks ==
    LET abc == {"a", "b", "c"} IN
    {[hooks |-> <<HookOn("a", da, wa), HookOn("b", db, NoConditions), HookOn("c", dc, NoConditions)>>,
      groups |-> [g \in {"g"} |-> <<"c", "a", "b", "a">>], group |-> asked] :
        da, db, dc \in SUBSET abc, wa \in {NoConditions, LocalOnly}, asked \in {None, "g"}}

\* Two hooks that may carry one id, dependencies on hooks that are not there, partial groups.
TwoHooks ==
    LET abx == {"a", "b", "x"} IN
    {[hooks |-> <<HookOn("a", da, wa), HookOn(i, db, NoConditions)>>,
      groups |-> [g \in {"g"} |-> listed], group |-> asked] :
        i \in {"a", "b"}, da, db \in SUBSET abx, wa \in {NoConditions, LocalOnly},
        listed \in {<<"a">>, <<"b", "x">>}, asked \in {None, "g", "h"}}

\* Every condition and every pair of branch conditions; globs that match "", or one branch.
Branches == {"", "main", "release"}
Whens ==
    {[NoConditions EXCEPT !.requiresNetwork = TRUE]}
        \cup {[NoConditions EXCEPT !.env = "DEPLOY", !.filesMatch = f] : f \in {None, {"f1"}}}
        \cup {[NoConditions EXCEPT !.envNot = "DEPLOY", !.onCi = c] : c \in {"any", "only", "never"}}
        \cup {[NoConditions EXCEPT !.branch = b, !.branchNot = n, !.branchMatches = m] :
                 b \in {None, "main"}, n, m \in {None, {"release"}, Branches}}
OneHook ==
    {[hooks |-> <<[id |-> "a", dependsOn |-> {}, passFiles |-> p, files |-> f, exclude |-> e,
                   when |-> w]>>, groups |-> [g \in {} |-> <<>>], group |-> None] :
        p \in BOOLEAN, f, e \in {None, {"f1"}}, w \in Whens}

GraphRequests == ThreeHooks \cup TwoHooks
ConditionRequests == OneHook

AllRequests == GraphRequests \cup ConditionRequests

\* Local, on CI, offline and deploying; branch and changeset unknown, empty or not.
AllContexts ==
    {[env |-> {"CI"}, branch |-> None, changed |-> None],
     [env |-> {}, branch |-> "main", changed |-> {"f1", "f2"}],
     [env |-> {"GATECHECK_OFFLINE", "DEPLOY"}, branch |-> "release", changed |-> {"f2"}],
     [env |-> {"GITHUB_ACTIONS"}, branch |-> "", changed |-> {}]}
=============================================================================
