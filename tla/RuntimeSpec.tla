----------------------------- MODULE RuntimeSpec -----------------------------
(***************************************************************************)
(* internal/oci/spec: the runtime spec of one container.  Options edit it  *)
(* one after the other, those the bundler derives from the image's config  *)
(* first, then those spark derives from the request.  A user of the image  *)
(* is looked up in the passwd and group files of its root filesystem,      *)
(* which are read row by row.                                              *)
(*                                                                         *)
(* A quantity, of CPUs or of bytes, is an amount in the finest unit that   *)
(* ParseQuantity keeps, a billionth.  Most are kept in a short form, an    *)
(* integer and a scale, those with many digits in a long one; the two are  *)
(* not converted alike.                                                    *)
(***************************************************************************)
EXTENDS Integers, Sequences

CONSTANTS
    Usernames, Groupnames,
    PasswdRows,    \* what a row of the passwd file may be ...
    GroupRows,     \* ... and of the group file
    MaxRows,       \* bound: how many rows a file has
    Requests,      \* image configs with the limits and network of a request
    Unset,         \* what is not given
    Malformed,     \* a row, or a quantity, that does not parse
    Half,          \* 2^63: integers are in -Half .. Half - 1
    Milli,         \* a thousand
    Fine,          \* how many of the finest units are a thousandth, a million
    MinShares, MaxShares, SharesPerCPU, QuotaPeriod, MinQuota

\* Names that are no numbers, which are taken for IDs.
IsRow(r)      == r.name \in Usernames /\ r.uid \in Nat /\ r.gid \in Nat
IsGroupRow(r) == /\ r.name \in Groupnames /\ r.gid \in Nat
                 /\ r.users \subseteq Usernames
IsQuantity(q) == q.amount \in Int /\ q.long \in BOOLEAN
IsRequest(r) ==
    /\ r.args \in BOOLEAN
    /\ r.user \in Usernames \/ r.user \in Nat \/ r.user \in {Unset, Malformed}
    /\ r.group \in Groupnames \/ r.group \in Nat \/ r.group = Unset
    /\ r.cpu \in {Unset, Malformed} \/ IsQuantity(r.cpu)
    /\ r.memory \in {Unset, Malformed} \/ IsQuantity(r.memory)
    /\ r.network \in {"unspecified", "isolated", "runner"}

ASSUME InputAssumption ==
    /\ \A r \in PasswdRows : r = Malformed \/ IsRow(r)
    /\ \A r \in GroupRows : r = Malformed \/ IsGroupRow(r)
    /\ \A r \in Requests : IsRequest(r)
    /\ MaxRows \in Nat
ASSUME NumberAssumption ==
    /\ Half \in Nat /\ Half > 0
    /\ MinShares \in Nat /\ MaxShares \in Nat /\ MinShares <= MaxShares
    /\ SharesPerCPU \in Nat /\ Milli \in Nat /\ Milli > 0
    /\ Fine \in Nat /\ Fine > 0
    /\ QuotaPeriod \in Nat /\ QuotaPeriod > 0 /\ MinQuota \in Nat /\ MinQuota > 0

VARIABLES
    pc,      \* the option that is next
    request, \* what the spec is for
    missing, \* one of the two files is not there
    passwd,  \* the rows read of the passwd file ...
    group,   \* ... and of the group file
    uids,    \* Passwd.UID: of each username
    gids,    \* Passwd.GID: of each group name
    groups,  \* Passwd.Groups: the primary and additional GIDs of each UID
    spec,    \* the spec
    outcome  \* whether it has been written

file_vars   == <<missing, passwd, group>>
passwd_vars == <<uids, gids, groups>>
vars == <<pc, request, file_vars, passwd_vars, spec, outcome>>

\* Partial functions, as Go's maps are.
NoMap           == [x \in {} |-> x]
Set(f, x, v)    == [y \in DOMAIN f \cup {x} |-> IF y = x THEN v ELSE f[y]]
NoGroups        == [primary |-> 0, additional |-> {}]
GroupsOf(u)     == IF u \in DOMAIN groups THEN groups[u] ELSE NoGroups

Namespaces == {"pid", "ipc", "uts", "mount", "cgroup", "network"}

\* New: root, in a network namespace of its own, and no limits.
NewSpec ==
    [uid |-> 0, gid |-> 0, additional |-> {}, readonly |-> FALSE,
     shares |-> Unset, quota |-> Unset, memory |-> Unset,
     namespaces |-> Namespaces, resolv |-> FALSE]

Init ==
    /\ pc = "idle" /\ request \in Requests
    /\ missing = FALSE /\ passwd = <<>> /\ group = <<>>
    /\ uids = NoMap /\ gids = NoMap /\ groups = NoMap
    /\ spec = NewSpec /\ outcome = "none"

-----------------------------------------------------------------------------
(* Limits, in integers that wrap around and are truncated.                 *)

Fits(n)    == - Half <= n /\ n < Half
Away(a, d) == IF a >= 0 THEN - ((- a) \div d) ELSE a \div d

\* Quantity's conversion to an int64, in units of d: rounded away from zero.
\* The short form yields zero if that does not fit.  The long form keeps the
\* low bits of what does not fit and takes a negative amount now for a small
\* one, now for a large one: this may be any int64.
Exact(q, d) == Fits(Away(q.amount, d)) /\ (q.long => q.amount >= 0)
Scaled(q, d) ==
    IF Exact(q, d) THEN {Away(q.amount, d)}
    ELSE IF q.long THEN - Half .. Half - 1
    ELSE {0}

MilliValue(q) == Scaled(q, Fine)
Value(q)      == Scaled(q, Fine * Milli)

Wrap(n) == LET m == n % (2 * Half) IN IF m >= Half THEN m - 2 * Half ELSE m
Quot(a, b) == IF a >= 0 THEN a \div b ELSE - ((- a) \div b)

\* Mutant of Shares: there is no upper limit.
SharesUnlimited(milli) ==
    LET s == Quot(Wrap(milli * SharesPerCPU), Milli)
    IN  IF s < MinShares THEN MinShares ELSE s

\* milliCPUToShares.
Shares(milli) ==
    LET s == Quot(Wrap(milli * SharesPerCPU), Milli)
    IN  IF milli = 0 \/ s < MinShares THEN MinShares
        ELSE IF s > MaxShares THEN MaxShares
        ELSE s

\* milliCPUToQuota.
Quota(milli) ==
    LET q == Quot(Wrap(milli * QuotaPeriod), Milli)
    IN  IF milli = 0 THEN 0
        ELSE IF q < MinQuota THEN MinQuota
        ELSE q

-----------------------------------------------------------------------------
Goto(l) == pc' = l /\ UNCHANGED <<request, outcome>>

\* An option or a file failed; nothing is written.
Fail ==
    /\ pc' = "done" /\ outcome' = "error"
    /\ UNCHANGED <<request, file_vars, passwd_vars, spec>>

NoFile == UNCHANGED <<file_vars, passwd_vars>>

\* WithImageConfig, up to the user.
ImageConfig ==
    /\ pc = "idle" /\ request.args
    /\ Goto(IF request.user = Unset THEN "rootfs" ELSE "files")
    /\ UNCHANGED spec /\ NoFile

NoArgs == pc = "idle" /\ ~ request.args /\ Fail

\* ParsePasswdFiles opens both files.  Without either of them there are no
\* users and no groups.
OpenFiles ==
    /\ pc = "files"
    /\ \/ Goto("passwd") /\ UNCHANGED missing
       \/ Goto("user") /\ missing' = TRUE
    /\ UNCHANGED <<passwd, group, passwd_vars, spec>>

\* ParsePasswd, the next row of the passwd file.
PasswdRow(r) ==
    /\ pc = "passwd" /\ Len(passwd) < MaxRows /\ r # Malformed
    /\ passwd' = Append(passwd, r)
    /\ uids' = Set(uids, r.name, r.uid)
    /\ groups' = Set(groups, r.uid, [NoGroups EXCEPT !.primary = r.gid])
    /\ Goto("passwd")
    /\ UNCHANGED <<missing, group, gids, spec>>

PasswdEnds ==
    /\ pc = "passwd"
    /\ Goto("group")
    /\ UNCHANGED spec /\ NoFile

\* Mutant of GroupRow: a user has one additional group at most.
FirstGroupOnly(r) ==
    /\ pc = "group" /\ Len(group) < MaxRows /\ r # Malformed
    /\ group' = Append(group, r)
    /\ gids' = Set(gids, r.name, r.gid)
    /\ LET members == {uids[n] : n \in r.users \cap DOMAIN uids}
       IN  groups' = [u \in DOMAIN groups |->
                        IF u \in members /\ groups[u].primary # r.gid
                        THEN [groups[u] EXCEPT !.additional = {r.gid}]
                        ELSE groups[u]]
    /\ Goto("group")
    /\ UNCHANGED <<missing, passwd, uids, spec>>

\* The next row of the group file: its users have it for an additional
\* group, but for those whose primary group it is.
GroupRow(r) ==
    /\ pc = "group" /\ Len(group) < MaxRows /\ r # Malformed
    /\ group' = Append(group, r)
    /\ gids' = Set(gids, r.name, r.gid)
    /\ LET members == {uids[n] : n \in r.users \cap DOMAIN uids}
       IN  groups' = [u \in DOMAIN groups |->
                        IF u \in members /\ groups[u].primary # r.gid
                        THEN [groups[u] EXCEPT !.additional = @ \cup {r.gid}]
                        ELSE groups[u]]
    /\ Goto("group")
    /\ UNCHANGED <<missing, passwd, uids, spec>>

GroupEnds ==
    /\ pc = "group"
    /\ Goto("user")
    /\ UNCHANGED spec /\ NoFile

BadRow ==
    /\ \/ pc = "passwd" /\ Malformed \in PasswdRows /\ Len(passwd) < MaxRows
       \/ pc = "group" /\ Malformed \in GroupRows /\ Len(group) < MaxRows
    /\ Fail

\* A number is taken for an ID, whether it is in the files or not, a name
\* must be there.
KnownUser  == request.user \in Nat \/ request.user \in DOMAIN uids
KnownGroup == request.group \in Nat \/ request.group \in DOMAIN gids
Uid == IF request.user \in Nat THEN request.user ELSE uids[request.user]
Gid == IF request.group \in Nat THEN request.group ELSE gids[request.group]

\* Mutant of WithUserOnly: a name that is not there is root.
UnknownIsRoot ==
    /\ pc = "user" /\ request.group = Unset /\ request.user # Malformed
    /\ LET u == IF KnownUser THEN Uid ELSE 0
       IN  spec' = [spec EXCEPT !.uid = u,
                        !.gid = GroupsOf(u).primary,
                        !.additional = GroupsOf(u).additional]
    /\ Goto("rootfs") /\ NoFile

WithUserOnly ==
    /\ pc = "user" /\ request.group = Unset /\ KnownUser
    /\ spec' = [spec EXCEPT !.uid = Uid,
                    !.gid = GroupsOf(Uid).primary,
                    !.additional = GroupsOf(Uid).additional]
    /\ Goto("rootfs") /\ NoFile

WithUserAndGroup ==
    /\ pc = "user" /\ request.group # Unset /\ KnownUser /\ KnownGroup
    /\ spec' = [spec EXCEPT !.uid = Uid, !.gid = Gid,
                    !.additional = GroupsOf(Uid).additional]
    /\ Goto("rootfs") /\ NoFile

\* A user or group that does not exist, or too many colons.
WithUserFails ==
    /\ pc = "user"
    /\ ~ KnownUser \/ (request.group # Unset /\ ~ KnownGroup)
    /\ Fail

WithRootFS ==
    /\ pc = "rootfs"
    /\ spec' = [spec EXCEPT !.readonly = TRUE]
    /\ Goto("cpu") /\ NoFile

\* FromRunFunctionConfig and its three options.
WithCPULimit ==
    /\ pc = "cpu" /\ request.cpu # Malformed
    /\ IF request.cpu = Unset THEN UNCHANGED spec
       ELSE \E milli \in MilliValue(request.cpu) :
                spec' = [spec EXCEPT !.shares = Shares(milli), !.quota = Quota(milli)]
    /\ Goto("memory") /\ NoFile

WithMemoryLimit ==
    /\ pc = "memory" /\ request.memory # Malformed
    /\ IF request.memory = Unset THEN UNCHANGED spec
       ELSE \E limit \in Value(request.memory) : spec' = [spec EXCEPT !.memory = limit]
    /\ Goto("network") /\ NoFile

BadLimit ==
    /\ \/ pc = "cpu" /\ request.cpu = Malformed
       \/ pc = "memory" /\ request.memory = Malformed
    /\ Fail

\* Mutant of WithHostNetwork: isolated by name only.
HostByDefault ==
    /\ pc = "network"
    /\ spec' = IF request.network = "isolated" THEN spec
               ELSE [spec EXCEPT !.resolv = TRUE, !.namespaces = @ \ {"network"}]
    /\ Goto("write") /\ NoFile

WithHostNetwork ==
    /\ pc = "network"
    /\ spec' = IF request.network # "runner" THEN spec
               ELSE [spec EXCEPT !.resolv = TRUE, !.namespaces = @ \ {"network"}]
    /\ Goto("write") /\ NoFile

Write ==
    /\ pc = "write"
    /\ pc' = "done" /\ outcome' = "written"
    /\ UNCHANGED <<request, spec>> /\ NoFile

Next ==
    \/ ImageConfig \/ NoArgs \/ OpenFiles
    \/ \E r \in PasswdRows : PasswdRow(r)
    \/ PasswdEnds
    \/ \E r \in GroupRows : GroupRow(r)
    \/ GroupEnds \/ BadRow
    \/ WithUserOnly \/ WithUserAndGroup \/ WithUserFails
    \/ WithRootFS \/ WithCPULimit \/ WithMemoryLimit \/ BadLimit
    \/ WithHostNetwork \/ Write

Spec == Init /\ [][Next]_vars

-----------------------------------------------------------------------------
(* What should be true of it.                                              *)

Written == outcome = "written"
Rows    == {passwd[i] : i \in DOMAIN passwd}
Members == {group[i] : i \in DOMAIN group}

\* A name has one row, and so has a UID: where two users share a UID, as
\* the files may have it, both get the primary group of the later row.
Unambiguous ==
    \A i, j \in DOMAIN passwd :
        passwd[i].name = passwd[j].name \/ passwd[i].uid = passwd[j].uid
            => i = j

\* The names of a user, and the groups that list one of them.
NamesOf(u) == {r.name : r \in {q \in Rows : q.uid = u}}
Listing(u) == {g \in Members : g.users \cap NamesOf(u) # {}}

\* The container's process runs as the user the image names, with that
\* user's primary group unless the image names another, and in all other
\* groups that list the user, whatever the order of the rows.
ResolvedUser ==
    Written /\ request.user # Unset /\ Unambiguous =>
        LET primary == {r.gid : r \in {q \in Rows : q.uid = spec.uid}}
        IN  /\ spec.uid = request.user \/ request.user \in NamesOf(spec.uid)
            /\ request.group = Unset =>
                  spec.gid \in IF primary = {} THEN {0} ELSE primary
            /\ request.group # Unset =>
                  \/ spec.gid = request.group
                  \/ \E g \in Members : g.name = request.group /\ g.gid = spec.gid
            /\ spec.additional = {g.gid : g \in Listing(spec.uid)} \ primary

\* No user is mistaken for root: a name that is not in the passwd file, or
\* a file that is not there, is an error.
RootOnlyIfNamed ==
    Written /\ spec.uid = 0 =>
        \/ request.user \in {Unset, 0}
        \/ \E r \in Rows : r.name = request.user /\ r.uid = 0

\* The kernel accepts the limits whatever the request says, also if a
\* product overflows or the quantity is negative.  Of a CPU limit other than
\* zero only one whose conversion overflows has no quota ...
CpuInRange ==
    Written /\ request.cpu # Unset =>
        /\ spec.shares \in MinShares .. MaxShares
        /\ spec.quota \in Int
        /\ spec.quota = 0 \/ spec.quota >= MinQuota
        /\ Exact(request.cpu, Fine) => (spec.quota = 0 <=> request.cpu.amount = 0)

\* ... and unless the conversion or a product overflows, the container gets
\* what was asked for: less than a microsecond a period less, and more only
\* by a rounded thousandth or up to the minimum.  Memory is rounded to a
\* byte, away from zero, unless the conversion overflows.
AsAsked ==
    Written /\ request.cpu # Unset
    /\ Exact(request.cpu, Fine) /\ Fits(Away(request.cpu.amount, Fine) * QuotaPeriod) =>
        LET asked == request.cpu.amount
        IN  /\ asked * QuotaPeriod < (spec.quota + 1) * (Fine * Milli)
            /\ \/ spec.quota * (Fine * Milli) < (asked + Fine) * QuotaPeriod
               \/ spec.quota = MinQuota
MemoryAsAsked ==
    Written /\ request.memory # Unset /\ Exact(request.memory, Fine * Milli) =>
        LET asked == request.memory.amount
            byte  == Fine * Milli
        IN  IF asked >= 0 THEN spec.memory * byte \in asked .. asked + byte - 1
            ELSE spec.memory * byte \in asked - byte + 1 .. asked
LimitsHold == CpuInRange /\ AsAsked /\ MemoryAsAsked

\* The function shares the runner's network if and only if the request says
\* so, with its resolv.conf; no policy at all is isolation.
NetworkAsAsked ==
    Written => /\ "network" \notin spec.namespaces <=> request.network = "runner"
               /\ spec.resolv <=> request.network = "runner"

-----------------------------------------------------------------------------
(* The inductive invariant of RuntimeSpecProofs.                           *)

UserPending    == pc \in {"idle", "files", "passwd", "group", "user"}
CpuPending     == UserPending \/ pc \in {"rootfs", "cpu"}
NetworkPending == CpuPending \/ pc \in {"memory", "network"}

SpecType ==
    [uid : Nat, gid : Nat, additional : SUBSET Nat, readonly : BOOLEAN,
     shares : Int \cup {Unset}, quota : Int \cup {Unset},
     memory : Int \cup {Unset}, namespaces : SUBSET Namespaces, resolv : BOOLEAN]

TypeOK ==
    /\ NetworkPending \/ pc \in {"write", "done"}
    /\ request \in Requests
    /\ outcome \in {"none", "error", "written"}
    /\ outcome = "none" <=> pc # "done"
    /\ missing \in BOOLEAN
    /\ passwd \in Seq(PasswdRows \ {Malformed})
    /\ group \in Seq(GroupRows \ {Malformed})
    /\ \A n \in DOMAIN gids : gids[n] \in Nat
    /\ \A u \in DOMAIN groups :
          groups[u] \in [primary : Nat, additional : SUBSET Nat]
    /\ spec \in SpecType

\* Every UID that is known is that of a row.
UidsOfRows ==
    \A n \in DOMAIN uids : \E r \in Rows : r.name = n /\ r.uid = uids[n]

\* Unless the passwd file is ambiguous, the maps hold what its rows say ...
PasswdParsed ==
    Unambiguous =>
        /\ \A r \in Rows :
              /\ r.name \in DOMAIN uids /\ uids[r.name] = r.uid
              /\ r.uid \in DOMAIN groups /\ groups[r.uid].primary = r.gid
        /\ \A u \in DOMAIN groups : \E r \in Rows : r.uid = u

\* ... and what the rows of the group file do, so far as they are read.
GroupParsed ==
    /\ pc \in {"idle", "files", "passwd"} => group = <<>>
    /\ \A n \in DOMAIN gids : \E g \in Members : g.name = n /\ g.gid = gids[n]
    /\ Unambiguous =>
          \A u \in DOMAIN groups :
              groups[u].additional =
                  {g.gid : g \in Listing(u)} \ {groups[u].primary}

\* What the spec holds when, from which the properties follow.
Running == outcome # "error"
UserSet ==
    /\ UserPending => spec.uid = 0
    /\ Running /\ spec.uid = 0 /\ ~ UserPending =>
          \/ request.user \in {Unset, 0}
          \/ \E r \in Rows : r.name = request.user /\ r.uid = 0
UserFound ==
    Running /\ ~ UserPending /\ request.user # Unset =>
        /\ KnownUser /\ spec.uid = Uid
        /\ spec.additional = GroupsOf(Uid).additional
        /\ IF request.group = Unset THEN spec.gid = GroupsOf(Uid).primary
                                    ELSE KnownGroup /\ spec.gid = Gid
CpuSet ==
    Running /\ ~ CpuPending /\ request.cpu # Unset =>
        /\ request.cpu # Malformed
        /\ \E milli \in MilliValue(request.cpu) :
              spec.shares = Shares(milli) /\ spec.quota = Quota(milli)
MemorySet ==
    Running /\ ~ CpuPending /\ pc # "memory" /\ request.memory # Unset =>
        request.memory # Malformed /\ spec.memory \in Value(request.memory)
NetworkSet ==
    /\ NetworkPending => "network" \in spec.namespaces /\ ~ spec.resolv
    /\ Running /\ ~ NetworkPending =>
          /\ "network" \notin spec.namespaces <=> request.network = "runner"
          /\ spec.resolv <=> request.network = "runner"

Inv ==
    /\ TypeOK /\ UidsOfRows /\ PasswdParsed /\ GroupParsed
    /\ UserSet /\ UserFound /\ CpuSet /\ MemorySet /\ NetworkSet
=============================================================================
