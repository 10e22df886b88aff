-------------------------------- MODULE MCPbtrim --------------------------------
(***************************************************************************)
(* Two runs over two sources, one importing the other, and the rules; the  *)
(* owner saves each file once: the second versions of the sources go with  *)
(* each other only, the second version of the rules keeps another file.  A      *)
(* third source, of which a prune makes nothing, never parses.             *)
(***************************************************************************)
EXTENDS Pbtrim, TLC

CONSTANTS a, b, any, rules

MCPlace == (a :> 1) @@ (b :> 2) @@ (any :> 3)
MCPathOf == (a :> <<"a">>) @@ (b :> <<"b">>) @@ (any :> <<"google", "any">>)
MCApi == [x \in {a, b, any} \X (0..MaxSaves) |-> x[2]]
MCImports == (a :> {b, any}) @@ (b :> {}) @@ (any :> {})
MCKeeps == [v \in 0..MaxSaves |-> IF v = 0 THEN {a, b} ELSE {b}]

MCRoot == <<"src">>
\* A symlink to the root, a directory in it and one apart from it.
MCDirs == {<<"link">>, <<"src", "gen">>, <<"out">>}
MCReal == [d \in MCDirs |-> IF d = <<"link">> THEN MCRoot ELSE d]

Format(fl, fs) == [cmd |-> "fmt", flags |-> fl, files |-> fs]
Pipeline(cmd, given, d) == [cmd |-> cmd, given |-> given, out |-> d]

InPlaceFmt == Format({}, <<a, b>>)
Fmts ==
    {Format(fl, <<a, b>>) : fl \in {{}, {"check"}, {"stdout"}}}
    \cup {Format({}, <<b, b>>), Format({}, <<>>), Format({"check", "stdout"}, <<a>>)}
Prune(d) == Pipeline("prune", {"rules", "root", "out"}, d)
Select == Pipeline("select", {"rules", "root"}, <<"out">>)
Others ==
    {Select, Pipeline("select", {"rules", "root", "out"}, <<"out">>),
     Pipeline("prune", {"root", "out"}, <<"out">>)} \cup {Prune(d) : d \in MCDirs}

MCFormsOf == (a :> {"untidy", "gone"}) @@ (b :> {"untidy", "broken"})
             @@ (rules :> {"tidy"}) @@ (any :> {})
Layouts(rs) ==
    {(a :> x) @@ (b :> y) @@ (rules :> z) @@ (any :> "broken") :
        x \in {"untidy", "gone"}, y \in {"tidy", "untidy", "broken"}, z \in rs}

\* Any two fmts; a prune or select beside a fmt; two prunes.
MCStarts ==
    [command : [Runs -> Fmts], forms : Layouts({"tidy"})]
    \cup [command : {c \in [Runs -> Others \cup {InPlaceFmt}] :
                       \E r \in Runs : c[r] = InPlaceFmt}, forms : Layouts({"tidy"})]
    \cup [command : {[r \in Runs |-> Prune(<<"out">>)]}, forms : Layouts({"tidy", "broken"})]

Alike == Permutations(Runs)
=============================================================================
