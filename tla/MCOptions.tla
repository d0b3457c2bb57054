------------------------------ MODULE MCOptions ------------------------------
(* Instances of Options for TLC.                                           *)
EXTENDS Options, TLC

CommandLines ==
    {<<>>, <<[key |-> "d", arg |-> "www"], [key |-> "p", arg |-> 3]>>,
     <<[key |-> "p", arg |-> 300], [key |-> "h", arg |-> "192.168.100.8"], [key |-> "?", arg |-> ""]>>}

Str(s) == [type |-> "string", value |-> s]
Num(x) == [type |-> "number", value |-> x]
Bool(b) == [type |-> "boolean", value |-> b]

Ports == {Num(x) : x \in {-1, 0, 8, 15, 16, 264}} \cup {Bool(TRUE), Str("8")}
Securities == {Str("true"), Str("TRUE"), Bool(TRUE)}

Addresses4 == {"127.0.0.1", "192.168.100.8"}
Addresses6 == {"::0"}

Full(port, directory, secure) ==
    [ipfamily |-> Str("ip4"), address |-> Str("192.168.100.8"), port |-> port,
     directory |-> Str(directory), secure |-> secure]

At(family, address) ==
    [Full(Num(8), "html", Str("false")) EXCEPT !["ipfamily"] = Str(family), !["address"] = Str(address)]

Entries ==
    {Full(p, d, s) : p \in Ports, d \in {"html", "other"}, s \in Securities}
    \cup {At("ip4", "::0"), At("ip6", "::0"), At("ip6", "127.0.0.1"), At("ip4", "127.0.0.1")}
    \cup {Restrict(Full(Num(8), "html", Str("true")), Keys \ {k}) : k \in Keys}

Lists == {<<>>} \cup {<<e>> : e \in Entries} \cup {<<e, f>> : e, f \in Entries}

AllFiles == {Absent, Garbage} \cup {[kind |-> "list", entries |-> l] : l \in Lists}

\* Two complete entries, as in the repository's config.json.
TwoListeners ==
    {[kind |-> "list", entries |-> <<Full(Num(2), d, Str("false")), Full(Num(8), "html", Str("true"))>>]
        : d \in {"html", "other"}}
=============================================================================
