---------------------------- MODULE MCScheduler ----------------------------
(* A small instance of Scheduler for TLC: lists of up to three tasks. *)
EXTENDS Scheduler, TLC

Names == {"src", "lib", "package.json", "migrations"}
Roots == {"migrations"}
Manifests == {"package.json"}

SmallFiles == {<<"src">>, <<"lib">>, <<"package.json">>} \cup
              {<<d, f>> : d \in {"src", "lib", "migrations"}, f \in {"src", "lib"}}

Dir(path)  == [path |-> path, dir |-> TRUE]
File(path) == [path |-> path, dir |-> FALSE]

Free(scopes) == [scopes |-> scopes, locks |-> {}, parallel |-> TRUE]

\* A directory, a file below it, a name shared by a file and a directory, a
\* shared lock, three that do not clash, a manifest, a task that must run alone.
Work == {Free({Dir(<<"src">>)}),
         Free({File(<<"src", "lib">>), File(<<"lib">>)}),
         [scopes |-> {Dir(<<"lib">>)}, locks |-> {"port"}, parallel |-> TRUE],
         [scopes |-> {File(<<"src", "src">>)}, locks |-> {"port"}, parallel |-> TRUE],
         Free({File(<<"lib", "lib">>)}),
         Free({File(<<"package.json">>)}),
         [scopes |-> {File(<<"lib">>)}, locks |-> {}, parallel |-> FALSE]}

\* Chains, a diamond's half, a repeated dependency, cycles, an unknown one.
Deps == << {<<>>, <<2>>}, {<<>>, <<1>>, <<1, 1>>, <<3>>}, {<<>>, <<2>>, <<1, 2>>, <<4>>} >>

Task(i, w, d) == [id |-> i, deps |-> d, scopes |-> w.scopes, locks |-> w.locks,
                  parallel |-> w.parallel]

\* Three different tasks; and a few lists with an id twice.
SmallLists ==
  {<<Task(1, u, d), Task(2, v, e), Task(3, w, f)>> :
     u \in Work, v \in Work, w \in Work, d \in Deps[1], e \in Deps[2], f \in Deps[3]}
  \cup {<<Task(1, w, <<>>), Task(i, w, <<>>), Task(1, w, d)>> : i \in 1..2, w \in Work, d \in Deps[3]}
=============================================================================
