---------------------------- MODULE MCRuntimeSpec ----------------------------
(***************************************************************************)
(* An instance of RuntimeSpec for TLC.                                     *)
(***************************************************************************)
EXTENDS RuntimeSpec

CONSTANTS alice, bob, wheel

Users == {[name |-> n, uid |-> u, gid |-> g] :
            n \in Usernames, u \in {0, 1}, g \in {0, 2}} \cup {Malformed}
Groups == {[name |-> wheel, gid |-> g, users |-> us] :
            g \in {2, 3}, us \in SUBSET Usernames} \cup {Malformed}

Plain == [args |-> TRUE, user |-> Unset, group |-> Unset, cpu |-> Unset,
          memory |-> Unset, network |-> "isolated"]

\* Images that name a user, in every way.
ByUser == {[Plain EXCEPT !.user = u, !.group = g] :
            u \in {alice, 0, 1, 2, Malformed}, g \in {Unset, wheel, 4}}

Short(amounts) == [amount : amounts, long : {FALSE}]
Long(amounts)  == [amount : amounts, long : {TRUE}]

\* CPU limits: negative ones, ones whose products overflow (from 32 on), and
\* ones whose conversion does (from 255 on).
CPUs == Short(-6 .. 70) \cup Short(253 .. 258)
            \cup Long({-3, 0, 9, 33, 254, 255, 300}) \cup {Unset, Malformed}

\* Memory limits; the conversion overflows from 1271 on, and below -1280.
Bytes == {-1290, -1281, -1280, -1271, -11, -10, -1, 0, 1, 7, 10, 11, 1269, 1270, 1271, 2000}
Memories == Short(Bytes) \cup Long({-11, 0, 7, 11, 1270, 1271}) \cup {Unset, Malformed}

ByLimit == {[Plain EXCEPT !.cpu = c, !.network = n] :
                c \in CPUs, n \in {"unspecified", "isolated", "runner"}}
           \cup {[Plain EXCEPT !.cpu = c, !.memory = m] :
                c \in Short({7}) \cup {Unset}, m \in Memories}

AllRequests == ByUser \cup ByLimit \cup {[Plain EXCEPT !.args = FALSE]}
=============================================================================
