------------------------------- MODULE MCEngine -------------------------------
(* Small inputs for EngineLaws: three processes, two names, two policies. *)
EXTENDS EngineLaws

Names == {"rg", "node"}

Raw(f) == {[pid |-> i, ppid |-> f[i][1], name |-> f[i][2]] : i \in DOMAIN f}

\* A parent may be a listed process, the process itself, one that was not
\* listed, or 0. Processes 2 and 3 may be each other's parent.
MCRawLists ==
    UNION {{Raw(f) : f \in {g \in [S -> {0, 1, 2, 3} \X Names] : 1 \in S => g[1][1] = 0}} :
           S \in {{}, {2}, {1, 2}, {1, 2, 3}}}

\* Around the 2.50 threshold, and the thousandths that Cedar cuts off.
MCLoadPairs == {<<0, 0>>, <<2499, 2500>>, <<2500, 2499>>, <<2504, 2507>>}

Toml(says) == [kind |-> "toml", says |-> says]

Rule(count, priority, on, parent, exclude, min1, min5) ==
    [process |-> "rg", maxCount |-> count, actions |-> <<"terminate">>,
     priority |-> priority, enabled |-> on, parent |-> parent, exclude |-> exclude,
     minLoad1 |-> min1, minLoad5 |-> min5]

GoodFiles ==
    {Toml([policies |->
        [p |-> Rule(1, 10, TRUE, parent, exclude, m[1], m[2]),
         q |-> Rule(2, priority, on, NoName, {}, 0, 0)]]) :
        parent \in {NoName, "node"}, exclude \in {{}, {"node"}},
        m \in {<<0, 0>>, <<2500, 0>>, <<0, 2505>>},
        priority \in {10, 20}, on \in BOOLEAN}

\* Keys that are missing or misspelt, values out of range, and no file at all.
OddFiles ==
    {Toml([policies |-> [p |-> says]]) :
        says \in {[process |-> "rg", max_cuont |-> 1, actions |-> <<"log">>],
                  [process |-> "rg", maxCount |-> 1, actions |-> <<"log">>],
                  [process |-> "rg", maxCount |-> 1, actions |-> <<"log", "kill">>],
                  [process |-> "rg", maxCount |-> -1, actions |-> <<"log">>],
                  [process |-> "rg", maxCount |-> 1],
                  [maxCount |-> 0, actions |-> <<"log">>]}}
    \cup {Toml([loadPollInterval |-> 999]), Toml([gracePeriod |-> -1, dryRun |-> TRUE])}
    \cup {[kind |-> kind, says |-> <<>>] : kind \in {"absent", "unreadable", "malformed"}}

MCFiles == GoodFiles \cup OddFiles
=============================================================================
