------------------------------ MODULE MCDaemon ------------------------------
(* Small instances of Daemon. *)
EXTENDS Daemon, TLC

CONSTANTS a, b

PidSymmetry == Permutations({a, b})

Process(name, parent, owned) == [name |-> name, parent |-> parent, owned |-> owned]

Rule(count, priority, exclude, min1, actions) ==
    [process |-> "rg", maxCount |-> count, actions |-> actions, priority |-> priority,
     enabled |-> TRUE, parent |-> NoName, exclude |-> exclude,
     minLoad1 |-> min1, minLoad5 |-> 0]

Low  == [load1 |-> 1000, load5 |-> 1000]
High == [load1 |-> 3000, load5 |-> 1000]

OwnAndOther     == {Process("rg", "zsh", TRUE), Process("node", "zsh", TRUE)}
OwnAndProtected == {Process("rg", "zsh", TRUE), Process("rg", "zsh", FALSE)}
OnlyOwn         == {Process("rg", "zsh", TRUE)}

\* What has one of these parents may come to have the other.
OwnAndExcluded  == {Process("rg", "zsh", TRUE), Process("rg", "code", TRUE)}

\* An own process may exec the other program.
ExecsAndProtected == OwnAndOther \cup OwnAndProtected

SteadyLoad  == {High}
MovingLoads == {Low, High}

\* One policy that warns and then terminates.
OnePolicy == [p |-> Rule(1, 1, {"code"}, 0, <<"notify", "terminate">>)]

\* Two policies over the same processes, of equal priority: the order in which
\* they are decided is arbitrary, and the second acts on an old snapshot.
TwoPolicies ==
    [p |-> Rule(1, 1, {}, 0, <<"notify", "terminate">>),
     q |-> Rule(1, 1, {"code"}, 2500, <<"log", "terminate", "notify">>)]

\* The shape of the repository's default policy for notifications.
NotifyThenDiagnose == [p |-> Rule(1, 1, {}, 0, <<"notify", "diagnose">>)]
=============================================================================
