--------------------------- MODULE MCStorePolicy ---------------------------
(* An instance of StorePolicy for TLC: every config that differs from a     *)
(* valid one in the fields that meet in one gate.                          *)
EXTENDS StorePolicy, TLC

Retries(as, ws, ms, xs, ts) ==
    [attempts : as, wait : ws, maxWait : ms, multiplier : xs, threshold : ts, cooldown : {0, 7}]

SafeRetry == [attempts |-> 3, wait |-> 10, maxWait |-> 50, multiplier |-> 4,
              threshold |-> 5, cooldown |-> 30]

Base == [complete |-> TRUE, timeout |-> 0, maxParts |-> 0, maxTTL |-> 0,
         operations |-> {"GET", "PUT"}, algorithms |-> {},
         lifecycle |-> [enabled |-> FALSE, minDays |-> 0, class |-> ""],
         retention |-> [mode |-> "", maxDays |-> 0],
         allowed |-> {}, denied |-> {}, retry |-> SafeRetry]

NoConfig == [Base EXCEPT !.complete = FALSE, !.operations = {},
                         !.retry = [field \in DOMAIN SafeRetry |-> 0]]

SomePrefixes == {<<>>, <<"x">>, <<"x", "y">>}
SomeTTLs == {-1, 0, 1, 2, 3, 4, 6}
SomeKeys == {<<"x">>, <<"x", "y", "y">>, <<"y">>, <<>>, <<"y", "?">>,
             <<"/", "x">>, <<"y", "/">>, <<"y", "/", "/", "x">>, <<"y", "/", "x">>,
             <<"y", "/", ".", ".", "/", "x">>, <<".", "/", "x">>, <<".", "x">>,
             <<"y", "/", "y", "/", "y", "/", "y">>}

SomeMetadata == {<<>>, "a" :> 2, "a" :> 3, "" :> 1, [a |-> 1, b |-> 1, c |-> 1]}

SomeEnvironments == [complete : BOOLEAN, timeout : {{}, {-1}, {4}},
                     maxTTL : {{}} \cup {{t} : t \in -1..7}, maxParts : {{}, {-1}, {0}, {3}}]

SomeConfigs ==
    {[Base EXCEPT !.maxTTL = t, !.operations = o] :
        t \in -1..7, o \in {{}, {"GET"}, {"GET", "PUT"}}} \cup
    {[Base EXCEPT !.allowed = x, !.denied = d] :
        x \in SUBSET SomePrefixes, d \in SUBSET SomePrefixes} \cup
    {[Base EXCEPT !.retry = r, !.maxParts = m] :
        r \in Retries({-1, 0, 1, 4}, {-1, 0, 20}, {-1, 30}, {-1, 0, 1, 3}, {-1, 2}),
        m \in {0, 3}} \cup
    {[Base EXCEPT !.algorithms = s, !.maxParts = m, !.timeout = t, !.complete = b] :
        s \in SUBSET Algorithms, m \in {-1, 0}, t \in {-1, 0}, b \in BOOLEAN} \cup
    {[Base EXCEPT !.lifecycle = l, !.retention = r] :
        l \in [enabled : BOOLEAN, minDays : {-1, 3}, class : {"", "IA"}],
        r \in [mode : {"", "none", "governance", "locked"}, maxDays : {-1, 0, 3}]}
=============================================================================
