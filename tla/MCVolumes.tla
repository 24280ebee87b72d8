----------------------------- MODULE MCVolumes -----------------------------
(* The pods that run "volumes" mounts.                                     *)
EXTENDS Volumes, TLC

CONSTANTS a, b

MCNames   == {a, b}
MCObjects == {"config"}
MCData    == {a :> 1 @@ b :> 1, a :> 2 @@ b :> 0}

Plain(kind)   == [kind |-> kind, sources |-> <<>>]
Config(opt, items) == [from |-> "config", items |-> items, optional |-> opt]
Token         == [from |-> "token", items |-> {b}, optional |-> FALSE]
Fields        == [from |-> "fields", items |-> {a}, optional |-> FALSE]
Payload(srcs) == [kind |-> "payload", sources |-> srcs]

MCPods == {<<Payload(<<Config(FALSE, {})>>)>>,
           <<Payload(<<Config(TRUE, {a}), Token>>)>>,
           <<Payload(<<Fields>>)>>,
           <<Plain("hostPath"), Plain("emptyDir")>>,
           <<Plain("claim"), Plain("emptyDir")>>}
           \cup {<<Plain(k)>> : k \in PathTypes \cup {"downwardAPI", "unknown"}}
=============================================================================
