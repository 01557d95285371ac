-------------------------- MODULE RuntimeSpecProofs --------------------------
(***************************************************************************)
(* What is proved of RuntimeSpec, for any files, requests and constants.   *)
(***************************************************************************)
EXTENDS RuntimeSpec, TLAPS

-----------------------------------------------------------------------------
(* Numbers.                                                                *)

\* Division rounds down.
LEMMA Division ==
    ASSUME NEW a \in Int, NEW b \in Nat, b > 0
    PROVE  a \div b \in Int /\ (a \div b) * b <= a /\ a < (a \div b + 1) * b
  OBVIOUS

\* What does not overflow stays.
LEMMA WrapFits ==
    ASSUME NEW n \in Int, Fits(n)
    PROVE  Wrap(n) = n
  <1>1. 2 * Half \in Nat /\ 2 * Half > 0 /\ Half \in Nat
    BY NumberAssumption
  <1>2. CASE n >= 0
    <2>1. n % (2 * Half) = n
      BY <1>1, <1>2 DEF Fits
    <2> QED
      BY <1>1, <1>2, <2>1 DEF Fits, Wrap
  <1>3. CASE n < 0
    <2>1. n % (2 * Half) = n + 2 * Half
      BY <1>1, <1>3 DEF Fits
    <2> QED
      BY <1>1, <1>3, <2>1 DEF Fits, Wrap
  <1> QED
    BY <1>2, <1>3

LEMMA WrapType ==
    ASSUME NEW n \in Int
    PROVE  Wrap(n) \in Int
  BY NumberAssumption DEF Wrap

LEMMA QuotType ==
    ASSUME NEW n \in Int
    PROVE  Quot(n, Milli) \in Int
  BY NumberAssumption DEF Quot

\* A CPU limit is a number of shares that the kernel accepts, whether or not
\* the product overflows.
LEMMA SharesInRange ==
    ASSUME NEW milli \in Int
    PROVE  Shares(milli) \in MinShares .. MaxShares
  <1>1. milli * SharesPerCPU \in Int
    BY NumberAssumption
  <1>2. Quot(Wrap(milli * SharesPerCPU), Milli) \in Int
    BY <1>1, WrapType, QuotType
  <1> QED
    BY <1>2, NumberAssumption DEF Shares

\* And no quota, if it is zero, or one of at least the minimum.
LEMMA QuotaInRange ==
    ASSUME NEW milli \in Int
    PROVE  /\ Quota(milli) \in Int
           /\ IF milli = 0 THEN Quota(milli) = 0 ELSE Quota(milli) >= MinQuota
  <1>1. milli * QuotaPeriod \in Int
    BY NumberAssumption
  <1>2. Quot(Wrap(milli * QuotaPeriod), Milli) \in Int
    BY <1>1, WrapType, QuotType
  <1> QED
    BY <1>2, NumberAssumption DEF Quota

\* A conversion that is exact rounds away from zero.
LEMMA AwayRounds ==
    ASSUME NEW a \in Int, NEW d \in Nat, d > 0
    PROVE  /\ Away(a, d) \in Int
           /\ a >= 0 => a <= Away(a, d) * d /\ Away(a, d) * d < a + d
           /\ a < 0 => a - d < Away(a, d) * d /\ Away(a, d) * d <= a
           /\ a < 0 => Away(a, d) < 0
           /\ Away(a, d) = 0 <=> a = 0
  <1>1. CASE a >= 0
    <2> DEFINE q == (- a) \div d
    <2>1. q \in Int /\ q * d <= - a /\ - a < (q + 1) * d
      BY Division
    <2>2. Away(a, d) = - q
      BY <1>1 DEF Away
    <2> HIDE DEF q
    <2>3. (- q) * d = - (q * d) /\ (q + 1) * d = q * d + d /\ q * d \in Int
      BY <2>1
    <2>4. a <= (- q) * d /\ (- q) * d < a + d
      BY <2>1, <2>3
    <2>5. q = 0 => a = 0
      <3>1. q = 0 => q * d = 0
        OBVIOUS
      <3> QED
        BY <1>1, <2>1, <3>1
    <2>6. a = 0 => q = 0
      <3>1. q > 0 => q * d >= d
        BY <2>1
      <3>2. q < 0 => (q + 1) * d <= 0
        BY <2>1
      <3> QED
        BY <2>1, <2>3, <3>1, <3>2
    <2> QED
      BY <1>1, <2>1, <2>2, <2>4, <2>5, <2>6
  <1>2. CASE a < 0
    <2> DEFINE q == a \div d
    <2>1. q \in Int /\ q * d <= a /\ a < (q + 1) * d
      BY Division
    <2>2. Away(a, d) = q
      BY <1>2 DEF Away
    <2> HIDE DEF q
    <2>3. (q + 1) * d = q * d + d /\ q * d \in Int
      BY <2>1
    <2>4. q < 0
      <3>1. q >= 0 => q * d >= 0
        BY <2>1
      <3> QED
        BY <1>2, <2>1, <2>3, <3>1
    <2> QED
      BY <1>2, <2>1, <2>2, <2>3, <2>4
  <1> QED
    BY <1>1, <1>2

\* A conversion yields an integer, the rounded amount if it is exact.
LEMMA ScaledType ==
    ASSUME NEW q, IsQuantity(q), NEW d \in Nat, d > 0, NEW n \in Scaled(q, d)
    PROVE  n \in Int /\ (Exact(q, d) => n = Away(q.amount, d))
  <1>1. /\ Away(q.amount, d) \in Int
        /\ \A k \in - Half .. Half - 1 : k \in Int
    <2>1. q.amount \in Int
      BY DEF IsQuantity
    <2>2. Away(q.amount, d) \in Int
      BY <2>1, AwayRounds
    <2>3. - Half \in Int /\ Half - 1 \in Int
      BY NumberAssumption
    <2> QED
      BY <2>2, <2>3
  <1>2. CASE Exact(q, d)
    BY <1>1, <1>2 DEF Scaled
  <1>3. CASE ~ Exact(q, d) /\ q.long
    BY <1>1, <1>3 DEF Scaled
  <1>4. CASE ~ Exact(q, d) /\ ~ q.long
    BY <1>4 DEF Scaled
  <1> QED
    BY <1>2, <1>3, <1>4

\* The quota is what was asked for, but for the fraction that is cut off and
\* the minimum.
LEMMA QuotaAsAsked ==
    ASSUME NEW milli \in Int, Fits(milli * QuotaPeriod)
    PROVE  /\ milli * QuotaPeriod < (Quota(milli) + 1) * Milli
           /\ \/ Quota(milli) * Milli <= milli * QuotaPeriod
              \/ Quota(milli) = MinQuota
  <1> DEFINE n == milli * QuotaPeriod
  <1> DEFINE q == Quot(n, Milli)
  <1>1. n \in Int /\ (milli = 0 => n = 0)
    BY NumberAssumption
  <1>2. Fits(n)
    OBVIOUS
  <1>3. Quota(milli) = IF milli = 0 THEN 0 ELSE IF q < MinQuota THEN MinQuota ELSE q
    BY <1>1, <1>2, WrapFits DEF Quota
  <1> HIDE DEF n
  <1>4. q \in Int
    BY <1>1, QuotType
  <1>5. n >= 0 => q * Milli <= n /\ n < (q + 1) * Milli
    BY <1>1, Division, NumberAssumption DEF Quot
  <1>6. n < 0 => q <= 0
    <2>1. ASSUME n < 0 PROVE (- n) \div Milli \in Int /\ (- n) \div Milli >= 0
      BY <1>1, <2>1, NumberAssumption
    <2> QED
      BY <1>1, <2>1 DEF Quot
  <1> HIDE DEF q
  <1>7. CASE milli = 0
    BY <1>1, <1>3, <1>7, NumberAssumption DEF n
  <1>8. CASE milli # 0 /\ n < 0
    <2>1. Quota(milli) = MinQuota
      BY <1>3, <1>4, <1>6, <1>8, NumberAssumption
    <2>2. (MinQuota + 1) * Milli > 0
      BY NumberAssumption
    <2> QED
      BY <1>1, <1>8, <2>1, <2>2, NumberAssumption DEF n
  <1>9. CASE milli # 0 /\ n >= 0 /\ q < MinQuota
    <2>1. Quota(milli) = MinQuota
      BY <1>3, <1>9
    <2>2. (q + 1) * Milli <= (MinQuota + 1) * Milli
      BY <1>4, <1>9, NumberAssumption
    <2>3. (q + 1) * Milli \in Int /\ (MinQuota + 1) * Milli \in Int
      BY <1>4, NumberAssumption
    <2> QED
      BY <1>1, <1>5, <1>9, <2>1, <2>2, <2>3 DEF n
  <1>10. CASE milli # 0 /\ n >= 0 /\ ~ (q < MinQuota)
    BY <1>3, <1>5, <1>10 DEF n
  <1> QED
    BY <1>1, <1>7, <1>8, <1>9, <1>10, <1>4

\* The same in the finest unit, for a limit that was rounded to thousandths.
LEMMA QuotaScaled ==
    ASSUME NEW asked \in Int, NEW milli \in Int, NEW quota \in Int, quota >= 0,
           milli * QuotaPeriod < (quota + 1) * Milli,
           quota * Milli <= milli * QuotaPeriod \/ quota = MinQuota,
           asked >= 0 => asked <= milli * Fine /\ milli * Fine < asked + Fine,
           asked < 0 => quota = MinQuota
    PROVE  /\ asked * QuotaPeriod < (quota + 1) * (Fine * Milli)
           /\ \/ quota * (Fine * Milli) < (asked + Fine) * QuotaPeriod
              \/ quota = MinQuota
  <1> DEFINE rounded == milli * Fine
  <1>1. /\ rounded \in Int /\ Fine \in Nat /\ Fine > 0 /\ Milli \in Nat /\ Milli > 0
        /\ QuotaPeriod \in Nat /\ QuotaPeriod > 0
    BY NumberAssumption
  <1>2. rounded * QuotaPeriod = (milli * QuotaPeriod) * Fine
    BY <1>1
  <1>3. /\ (quota + 1) * (Fine * Milli) = ((quota + 1) * Milli) * Fine
        /\ quota * (Fine * Milli) = (quota * Milli) * Fine
    BY <1>1
  <1>4. ASSUME NEW x \in Int, NEW y \in Int, NEW k \in Nat, k > 0
        PROVE  (x < y => x * k < y * k) /\ (x <= y => x * k <= y * k)
    BY <1>4
  <1>5. rounded * QuotaPeriod < (quota + 1) * (Fine * Milli)
    <2>1. milli * QuotaPeriod \in Int /\ (quota + 1) * Milli \in Int
      BY <1>1
    <2> QED
      BY <1>1, <1>2, <1>3, <1>4, <2>1
  <1>6. asked * QuotaPeriod < (quota + 1) * (Fine * Milli)
    <2>1. (quota + 1) * (Fine * Milli) \in Int /\ (quota + 1) * (Fine * Milli) >= 0
      BY <1>1
    <2>2. rounded * QuotaPeriod \in Int /\ asked * QuotaPeriod \in Int
      BY <1>1
    <2>3. CASE asked >= 0
      <3>1. asked * QuotaPeriod <= rounded * QuotaPeriod
        BY <1>1, <1>4, <2>3
      <3> QED
        BY <1>5, <2>1, <2>2, <3>1
    <2>4. CASE asked < 0
      <3>1. asked * QuotaPeriod < 0
        BY <1>1, <2>4
      <3> QED
        BY <2>1, <2>2, <3>1
    <2> QED
      BY <2>3, <2>4
  <1>7. ASSUME asked >= 0, quota * Milli <= milli * QuotaPeriod
        PROVE  quota * (Fine * Milli) < (asked + Fine) * QuotaPeriod
    <2>1. quota * Milli \in Int /\ milli * QuotaPeriod \in Int
      BY <1>1
    <2>2. quota * (Fine * Milli) <= rounded * QuotaPeriod
      BY <1>1, <1>2, <1>3, <1>4, <1>7, <2>1
    <2>3. rounded * QuotaPeriod < (asked + Fine) * QuotaPeriod
      BY <1>1, <1>4, <1>7
    <2>4. /\ quota * (Fine * Milli) \in Int /\ rounded * QuotaPeriod \in Int
          /\ (asked + Fine) * QuotaPeriod \in Int
      BY <1>1
    <2> QED
      BY <2>2, <2>3, <2>4
  <1> QED
    BY <1>6, <1>7

-----------------------------------------------------------------------------
(* Types.                                                                  *)

\* A request is what it should be, a row that was read too.
LEMMA RequestType == TypeOK => IsRequest(request)
  BY InputAssumption DEF TypeOK

LEMMA RowType == TypeOK => \A r \in Rows : r \in PasswdRows /\ IsRow(r)
  BY InputAssumption DEF TypeOK, Rows

\* The IDs a user and a group resolve to are IDs.
LEMMA UidType == TypeOK /\ UidsOfRows /\ KnownUser => Uid \in Nat
  BY RowType DEF UidsOfRows, KnownUser, Uid, IsRow

LEMMA GidType == TypeOK /\ KnownGroup => Gid \in Nat
  BY DEF TypeOK, KnownGroup, Gid

LEMMA GroupsType ==
    ASSUME TypeOK, NEW u
    PROVE  GroupsOf(u) \in [primary : Nat, additional : SUBSET Nat]
  BY DEF TypeOK, GroupsOf, NoGroups

LEMMA InvInit == Init => Inv
  <1> SUFFICES ASSUME Init PROVE Inv
    OBVIOUS
  <1>1. TypeOK
    <2>1. spec \in SpecType
      <3>1. 0 \in Nat /\ {} \in SUBSET Nat /\ Unset \in Int \cup {Unset}
        OBVIOUS
      <3> QED
        BY <3>1 DEF Init, NewSpec, SpecType
    <2>2. passwd \in Seq(PasswdRows \ {Malformed}) /\ group \in Seq(GroupRows \ {Malformed})
      BY DEF Init
    <2>3. DOMAIN gids = {} /\ DOMAIN groups = {}
      BY DEF Init, NoMap
    <2> QED
      BY <2>1, <2>2, <2>3 DEF Init, TypeOK, UserPending, CpuPending, NetworkPending
  <1>2. UidsOfRows
    BY DEF Init, UidsOfRows, NoMap
  <1>3. UserSet /\ UserFound /\ CpuSet /\ MemorySet /\ NetworkSet
    BY DEF Init, NewSpec, Namespaces, UserSet, UserFound, CpuSet, MemorySet, NetworkSet,
       UserPending, CpuPending, NetworkPending
  <1>4. PasswdParsed /\ GroupParsed
    BY DEF Init, NoMap, PasswdParsed, GroupParsed, Rows
  <1> QED
    BY <1>1, <1>2, <1>3, <1>4 DEF Inv

LEMMA TypeNext == Inv /\ [Next]_vars => TypeOK'
  <1> SUFFICES ASSUME Inv, [Next]_vars PROVE TypeOK'
    OBVIOUS
  <1> USE DEF UserPending, CpuPending, NetworkPending
  <1>0. TypeOK /\ UidsOfRows
    BY DEF Inv
  <1>1. CASE ImageConfig
    BY <1>0, <1>1 DEF TypeOK, ImageConfig, Goto, NoFile, file_vars, passwd_vars
  <1>2. CASE NoArgs
    BY <1>0, <1>2 DEF TypeOK, NoArgs, Fail, file_vars, passwd_vars
  <1>3. CASE OpenFiles
    BY <1>0, <1>3 DEF TypeOK, OpenFiles, Goto, passwd_vars
  <1>4. ASSUME NEW r \in PasswdRows, PasswdRow(r) PROVE TypeOK'
    <2>1. IsRow(r)
      BY <1>4, InputAssumption DEF PasswdRow
    <2>2. \A u \in DOMAIN groups' :
             groups'[u] \in [primary : Nat, additional : SUBSET Nat]
      BY <1>0, <1>4, <2>1 DEF TypeOK, PasswdRow, Set, IsRow, NoGroups
    <2>3. passwd' \in Seq(PasswdRows \ {Malformed})
      BY <1>0, <1>4 DEF TypeOK, PasswdRow
    <2> QED
      BY <1>0, <1>4, <2>2, <2>3 DEF TypeOK, PasswdRow, Goto
  <1>5. CASE PasswdEnds
    BY <1>0, <1>5 DEF TypeOK, PasswdEnds, Goto, NoFile, file_vars, passwd_vars
  <1>6. ASSUME NEW r \in GroupRows, GroupRow(r) PROVE TypeOK'
    <2>1. IsGroupRow(r)
      BY <1>6, InputAssumption DEF GroupRow
    <2>2. \A n \in DOMAIN gids' : gids'[n] \in Nat
      BY <1>0, <1>6, <2>1 DEF TypeOK, GroupRow, Set, IsGroupRow
    <2>3. \A u \in DOMAIN groups' :
             groups'[u] \in [primary : Nat, additional : SUBSET Nat]
      <3> DEFINE members == {uids[n] : n \in r.users \cap DOMAIN uids}
      <3>1. groups' = [u \in DOMAIN groups |->
                         IF u \in members /\ groups[u].primary # r.gid
                         THEN [groups[u] EXCEPT !.additional = @ \cup {r.gid}]
                         ELSE groups[u]]
        BY <1>6 DEF GroupRow
      <3> HIDE DEF members
      <3> QED
        BY <1>0, <2>1, <3>1 DEF TypeOK, IsGroupRow
    <2>4. group' \in Seq(GroupRows \ {Malformed})
      BY <1>0, <1>6 DEF TypeOK, GroupRow
    <2> QED
      BY <1>0, <1>6, <2>2, <2>3, <2>4 DEF TypeOK, GroupRow, Goto
  <1>7. CASE GroupEnds
    BY <1>0, <1>7 DEF TypeOK, GroupEnds, Goto, NoFile, file_vars, passwd_vars
  <1>8. CASE BadRow
    BY <1>0, <1>8 DEF TypeOK, BadRow, Fail, file_vars, passwd_vars
  <1>9. CASE WithUserOnly
    <2>1. Uid \in Nat /\ GroupsOf(Uid) \in [primary : Nat, additional : SUBSET Nat]
      BY <1>0, <1>9, UidType, GroupsType DEF WithUserOnly
    <2>2. spec' \in SpecType
      BY <1>0, <1>9, <2>1 DEF TypeOK, WithUserOnly, SpecType
    <2> QED
      BY <1>0, <1>9, <2>2 DEF TypeOK, WithUserOnly, Goto, NoFile, file_vars, passwd_vars
  <1>10. CASE WithUserAndGroup
    <2>1. Uid \in Nat /\ GroupsOf(Uid) \in [primary : Nat, additional : SUBSET Nat]
      BY <1>0, <1>10, UidType, GroupsType DEF WithUserAndGroup
    <2>2. Gid \in Nat
      BY <1>0, <1>10, GidType DEF WithUserAndGroup
    <2>3. spec' \in SpecType
      BY <1>0, <1>10, <2>1, <2>2 DEF TypeOK, WithUserAndGroup, SpecType
    <2> QED
      BY <1>0, <1>10, <2>3 DEF TypeOK, WithUserAndGroup, Goto, NoFile, file_vars, passwd_vars
  <1>11. CASE WithUserFails
    BY <1>0, <1>11 DEF TypeOK, WithUserFails, Fail, file_vars, passwd_vars
  <1>12. CASE WithRootFS
    <2>1. spec' \in SpecType
      BY <1>0, <1>12 DEF TypeOK, WithRootFS, SpecType
    <2> QED
      BY <1>0, <1>12, <2>1 DEF TypeOK, WithRootFS, Goto, NoFile, file_vars, passwd_vars
  <1>13. CASE WithCPULimit
    <2>1. ASSUME request.cpu # Unset, NEW milli \in MilliValue(request.cpu)
          PROVE  Shares(milli) \in Int /\ Quota(milli) \in Int
      <3>1. milli \in Int
        BY <1>0, <1>13, <2>1, RequestType, ScaledType, NumberAssumption
        DEF WithCPULimit, IsRequest, MilliValue
      <3> QED
        BY <3>1, SharesInRange, QuotaInRange, NumberAssumption
    <2>2. spec' \in SpecType
      <3>1. CASE request.cpu = Unset
        BY <1>0, <1>13, <3>1 DEF TypeOK, WithCPULimit
      <3>2. CASE request.cpu # Unset
        <4>1. PICK milli \in MilliValue(request.cpu) :
                 spec' = [spec EXCEPT !.shares = Shares(milli), !.quota = Quota(milli)]
          BY <1>13, <3>2 DEF WithCPULimit
        <4>2. Shares(milli) \in Int /\ Quota(milli) \in Int
          BY <2>1, <3>2
        <4> QED
          BY <1>0, <4>1, <4>2 DEF TypeOK, SpecType
      <3> QED
        BY <3>1, <3>2
    <2> QED
      BY <1>0, <1>13, <2>2 DEF TypeOK, WithCPULimit, Goto, NoFile, file_vars, passwd_vars
  <1>14. CASE WithMemoryLimit
    <2>1. ASSUME request.memory # Unset, NEW limit \in Value(request.memory)
          PROVE  limit \in Int
      <3>1. Fine * Milli \in Nat /\ Fine * Milli > 0
        BY NumberAssumption
      <3> QED
        BY <1>0, <1>14, <2>1, <3>1, RequestType, ScaledType
        DEF WithMemoryLimit, IsRequest, Value
    <2>2. spec' \in SpecType
      <3>1. CASE request.memory = Unset
        BY <1>0, <1>14, <3>1 DEF TypeOK, WithMemoryLimit
      <3>2. CASE request.memory # Unset
        <4>1. PICK limit \in Value(request.memory) :
                 spec' = [spec EXCEPT !.memory = limit]
          BY <1>14, <3>2 DEF WithMemoryLimit
        <4>2. limit \in Int
          BY <2>1, <3>2
        <4> QED
          BY <1>0, <4>1, <4>2 DEF TypeOK, SpecType
      <3> QED
        BY <3>1, <3>2
    <2> QED
      BY <1>0, <1>14, <2>2 DEF TypeOK, WithMemoryLimit, Goto, NoFile, file_vars, passwd_vars
  <1>15. CASE BadLimit
    BY <1>0, <1>15 DEF TypeOK, BadLimit, Fail, file_vars, passwd_vars
  <1>16. CASE WithHostNetwork
    <2>1. spec' \in SpecType
      BY <1>0, <1>16 DEF TypeOK, WithHostNetwork, SpecType
    <2> QED
      BY <1>0, <1>16, <2>1 DEF TypeOK, WithHostNetwork, Goto, NoFile, file_vars, passwd_vars
  <1>17. CASE Write
    BY <1>0, <1>17 DEF TypeOK, Write, NoFile, file_vars, passwd_vars
  <1>18. CASE UNCHANGED vars
    BY <1>0, <1>18 DEF TypeOK, vars, file_vars, passwd_vars
  <1> QED
    BY <1>1, <1>2, <1>3, <1>4, <1>5, <1>6, <1>7, <1>8, <1>9, <1>10, <1>11,
       <1>12, <1>13, <1>14, <1>15, <1>16, <1>17, <1>18 DEF Next

-----------------------------------------------------------------------------
(* The other conjuncts.                                                    *)

\* A row that has been read stays.
LEMMA RowsNext == TypeOK /\ [Next]_vars => \A r \in Rows : r \in Rows'
  <1> SUFFICES ASSUME TypeOK, [Next]_vars PROVE \A r \in Rows : r \in Rows'
    OBVIOUS
  <1>1. ASSUME NEW q \in PasswdRows, PasswdRow(q) PROVE \A r \in Rows : r \in Rows'
    <2>1. passwd \in Seq(PasswdRows) /\ passwd' = Append(passwd, q)
      BY <1>1 DEF TypeOK, PasswdRow
    <2>2. \A i \in DOMAIN passwd : i \in DOMAIN passwd' /\ passwd'[i] = passwd[i]
      BY <2>1
    <2> QED
      BY <2>2 DEF Rows
  <1>2. ASSUME passwd' = passwd PROVE \A r \in Rows : r \in Rows'
    BY <1>2 DEF Rows
  <1> QED
    BY <1>1, <1>2 DEF Next, ImageConfig, NoArgs, OpenFiles, PasswdEnds, GroupRow,
       GroupEnds, BadRow, WithUserOnly, WithUserAndGroup, WithUserFails, WithRootFS,
       WithCPULimit, WithMemoryLimit, BadLimit, WithHostNetwork, Write, Fail, NoFile,
       vars, file_vars

LEMMA UidsNext == Inv /\ [Next]_vars => UidsOfRows'
  <1> SUFFICES ASSUME Inv, [Next]_vars PROVE UidsOfRows'
    OBVIOUS
  <1>1. \A r \in Rows : r \in Rows'
    BY RowsNext DEF Inv
  <1>2. ASSUME NEW q \in PasswdRows, PasswdRow(q) PROVE UidsOfRows'
    <2>1. q \in Rows'
      <3>1. passwd \in Seq(PasswdRows) /\ passwd' = Append(passwd, q)
        BY <1>2 DEF Inv, TypeOK, PasswdRow
      <3>2. Len(passwd) + 1 \in DOMAIN passwd' /\ passwd'[Len(passwd) + 1] = q
        BY <3>1
      <3> QED
        BY <3>2 DEF Rows
    <2>2. uids' = Set(uids, q.name, q.uid)
      BY <1>2 DEF PasswdRow
    <2>3. ASSUME NEW n \in DOMAIN uids' PROVE \E r \in Rows' : r.name = n /\ r.uid = uids'[n]
      <3>1. CASE n = q.name
        BY <2>1, <2>2, <3>1 DEF Set
      <3>2. CASE n # q.name
        <4>1. n \in DOMAIN uids /\ uids'[n] = uids[n]
          BY <2>2, <2>3, <3>2 DEF Set
        <4> QED
          BY <1>1, <4>1 DEF Inv, UidsOfRows
      <3> QED
        BY <3>1, <3>2
    <2> QED
      BY <2>3 DEF UidsOfRows
  <1>3. ASSUME uids' = uids PROVE UidsOfRows'
    BY <1>1, <1>3 DEF Inv, UidsOfRows
  <1> QED
    BY <1>2, <1>3 DEF Next, ImageConfig, NoArgs, OpenFiles, PasswdEnds, GroupRow,
       GroupEnds, BadRow, WithUserOnly, WithUserAndGroup, WithUserFails, WithRootFS,
       WithCPULimit, WithMemoryLimit, BadLimit, WithHostNetwork, Write, Fail, NoFile,
       vars, passwd_vars

-----------------------------------------------------------------------------
(* What the files say.                                                     *)

\* A row that is read is one more; if it is not ambiguous, no other has its
\* name or its UID.
LEMMA RowRead ==
    ASSUME TypeOK, NEW q \in PasswdRows, PasswdRow(q)
    PROVE  /\ Rows' = Rows \cup {q}
           /\ Unambiguous' =>
                /\ Unambiguous
                /\ \A r \in Rows : r.name # q.name /\ r.uid # q.uid
  <1> DEFINE n == Len(passwd) + 1
  <1>1. passwd \in Seq(PasswdRows) /\ passwd' = Append(passwd, q)
    BY DEF TypeOK, PasswdRow
  <1>2. \A i \in DOMAIN passwd : i \in DOMAIN passwd' /\ passwd'[i] = passwd[i] /\ i # n
    BY <1>1
  <1>3. n \in DOMAIN passwd' /\ passwd'[n] = q
    BY <1>1
  <1>4. \A i \in DOMAIN passwd' : i \in DOMAIN passwd \/ i = n
    BY <1>1
  <1> HIDE DEF n
  <1>5. Rows' = Rows \cup {q}
    <2>1. \A r \in Rows \cup {q} : r \in Rows'
      BY <1>2, <1>3 DEF Rows
    <2>2. \A r \in Rows' : r \in Rows \cup {q}
      BY <1>2, <1>3, <1>4 DEF Rows
    <2> QED
      BY <2>1, <2>2
  <1>6. ASSUME Unambiguous'
        PROVE  /\ Unambiguous
               /\ \A r \in Rows : r.name # q.name /\ r.uid # q.uid
    <2>1. Unambiguous
      BY <1>2, <1>6 DEF Unambiguous
    <2>2. ASSUME NEW i \in DOMAIN passwd
          PROVE  passwd[i].name # q.name /\ passwd[i].uid # q.uid
      BY <1>2, <1>3, <1>6, <2>2 DEF Unambiguous
    <2> QED
      BY <2>1, <2>2 DEF Rows
  <1> QED
    BY <1>5, <1>6

LEMMA GroupRowRead ==
    ASSUME TypeOK, NEW r \in GroupRows, GroupRow(r)
    PROVE  Members' = Members \cup {r}
  <1> DEFINE n == Len(group) + 1
  <1>1. group \in Seq(GroupRows) /\ group' = Append(group, r)
    BY DEF TypeOK, GroupRow
  <1>2. \A i \in DOMAIN group : i \in DOMAIN group' /\ group'[i] = group[i]
    BY <1>1
  <1>3. n \in DOMAIN group' /\ group'[n] = r
    BY <1>1
  <1>4. \A i \in DOMAIN group' : i \in DOMAIN group \/ i = n
    BY <1>1
  <1> HIDE DEF n
  <1>5. \A g \in Members \cup {r} : g \in Members'
    BY <1>2, <1>3 DEF Members
  <1>6. \A g \in Members' : g \in Members \cup {r}
    BY <1>2, <1>3, <1>4 DEF Members
  <1> QED
    BY <1>5, <1>6

\* A user is a member of a group that lists one of its names, that is, one
\* whose row has its UID.
LEMMA MembersAreListed ==
    ASSUME Inv, Unambiguous, NEW r, NEW u
    PROVE  u \in {uids[n] : n \in r.users \cap DOMAIN uids}
              <=> r.users \cap NamesOf(u) # {}
  <1>1. ASSUME NEW n \in r.users \cap DOMAIN uids, u = uids[n]
        PROVE  n \in NamesOf(u)
    BY <1>1 DEF Inv, UidsOfRows, NamesOf
  <1>2. ASSUME NEW n \in r.users \cap NamesOf(u)
        PROVE  n \in DOMAIN uids /\ uids[n] = u
    BY <1>2 DEF Inv, PasswdParsed, NamesOf
  <1> QED
    BY <1>1, <1>2

\* All options but these leave the files alone.
LEMMA FilesKept ==
    ASSUME [Next]_vars
    PROVE  \/ \E r \in PasswdRows : PasswdRow(r)
           \/ \E r \in GroupRows : GroupRow(r)
           \/ UNCHANGED <<passwd, group, passwd_vars>>
  BY DEF Next, ImageConfig, NoArgs, OpenFiles, PasswdEnds, GroupEnds, BadRow,
     WithUserOnly, WithUserAndGroup, WithUserFails, WithRootFS, WithCPULimit,
     WithMemoryLimit, BadLimit, WithHostNetwork, Write, Fail, NoFile, vars,
     file_vars, passwd_vars

\* Parsing begins with the passwd file.
LEMMA PhaseKept ==
    ASSUME [Next]_vars, pc' \in {"idle", "files", "passwd"}
    PROVE  /\ pc \in {"idle", "files", "passwd"}
           /\ \A r \in GroupRows : ~ GroupRow(r)
  BY DEF Next, ImageConfig, NoArgs, OpenFiles, PasswdRow, PasswdEnds, GroupRow,
     GroupEnds, BadRow, WithUserOnly, WithUserAndGroup, WithUserFails, WithRootFS,
     WithCPULimit, WithMemoryLimit, BadLimit, WithHostNetwork, Write, Fail, Goto, vars

LEMMA PasswdNext == Inv /\ [Next]_vars => PasswdParsed'
  <1> SUFFICES ASSUME Inv, [Next]_vars, Unambiguous'
               PROVE  /\ \A r \in Rows' :
                            /\ r.name \in DOMAIN uids' /\ uids'[r.name] = r.uid
                            /\ r.uid \in DOMAIN groups' /\ groups'[r.uid].primary = r.gid
                      /\ \A u \in DOMAIN groups' : \E r \in Rows' : r.uid = u
    BY DEF PasswdParsed
  <1>1. ASSUME NEW q \in PasswdRows, PasswdRow(q)
        PROVE  /\ \A r \in Rows' :
                     /\ r.name \in DOMAIN uids' /\ uids'[r.name] = r.uid
                     /\ r.uid \in DOMAIN groups' /\ groups'[r.uid].primary = r.gid
               /\ \A u \in DOMAIN groups' : \E r \in Rows' : r.uid = u
    <2>1. /\ Rows' = Rows \cup {q} /\ Unambiguous
          /\ \A r \in Rows : r.name # q.name /\ r.uid # q.uid
      BY <1>1, RowRead DEF Inv
    <2>2. /\ uids' = Set(uids, q.name, q.uid)
          /\ groups' = Set(groups, q.uid, [NoGroups EXCEPT !.primary = q.gid])
      BY <1>1 DEF PasswdRow
    <2>3. /\ \A r \in Rows :
               /\ r.name \in DOMAIN uids /\ uids[r.name] = r.uid
               /\ r.uid \in DOMAIN groups /\ groups[r.uid].primary = r.gid
          /\ \A u \in DOMAIN groups : \E r \in Rows : r.uid = u
      BY <2>1 DEF Inv, PasswdParsed
    <2>4. ASSUME NEW r \in Rows
          PROVE  /\ r.name \in DOMAIN uids' /\ uids'[r.name] = r.uid
                 /\ r.uid \in DOMAIN groups' /\ groups'[r.uid].primary = r.gid
      BY <2>1, <2>2, <2>3 DEF Set
    <2>5. /\ q.name \in DOMAIN uids' /\ uids'[q.name] = q.uid
          /\ q.uid \in DOMAIN groups' /\ groups'[q.uid].primary = q.gid
      BY <2>2 DEF Set, NoGroups
    <2>6. \A u \in DOMAIN groups' : u = q.uid \/ u \in DOMAIN groups
      BY <2>2 DEF Set
    <2> QED
      BY <2>1, <2>3, <2>4, <2>5, <2>6
  <1>2. ASSUME NEW g \in GroupRows, GroupRow(g)
        PROVE  /\ Rows' = Rows /\ uids' = uids /\ DOMAIN groups' = DOMAIN groups
               /\ \A u \in DOMAIN groups : groups'[u].primary = groups[u].primary
    <2>1. Rows' = Rows /\ uids' = uids
      BY <1>2 DEF GroupRow, Rows
    <2>2. \A u \in DOMAIN groups :
             groups[u] \in [primary : Nat, additional : SUBSET Nat]
      BY DEF Inv, TypeOK
    <2> DEFINE members == {uids[n] : n \in g.users \cap DOMAIN uids}
    <2>3. groups' = [u \in DOMAIN groups |->
                       IF u \in members /\ groups[u].primary # g.gid
                       THEN [groups[u] EXCEPT !.additional = @ \cup {g.gid}]
                       ELSE groups[u]]
      BY <1>2 DEF GroupRow
    <2> HIDE DEF members
    <2> QED
      BY <2>1, <2>2, <2>3
  <1>3. ASSUME Rows' = Rows, uids' = uids, DOMAIN groups' = DOMAIN groups,
               \A u \in DOMAIN groups : groups'[u].primary = groups[u].primary,
               Unambiguous
        PROVE  /\ \A r \in Rows' :
                     /\ r.name \in DOMAIN uids' /\ uids'[r.name] = r.uid
                     /\ r.uid \in DOMAIN groups' /\ groups'[r.uid].primary = r.gid
               /\ \A u \in DOMAIN groups' : \E r \in Rows' : r.uid = u
    BY <1>3 DEF Inv, PasswdParsed
  <1>4. ASSUME passwd' = passwd PROVE Rows' = Rows /\ Unambiguous
    BY <1>4 DEF Rows, Unambiguous
  <1>5. CASE \E r \in GroupRows : GroupRow(r)
    <2>1. passwd' = passwd
      BY <1>5 DEF GroupRow
    <2> QED
      BY <1>2, <1>3, <1>4, <1>5, <2>1
  <1>6. CASE UNCHANGED <<passwd, group, passwd_vars>>
    BY <1>3, <1>4, <1>6 DEF passwd_vars
  <1> QED
    BY <1>1, <1>5, <1>6, FilesKept

LEMMA GroupNext == Inv /\ [Next]_vars => GroupParsed'
  <1> SUFFICES ASSUME Inv, [Next]_vars PROVE GroupParsed'
    OBVIOUS
  <1>0. TypeOK /\ GroupParsed
    BY DEF Inv
  <1>1. (pc \in {"idle", "files", "passwd"} => group = <<>>)'
    <2>1. ASSUME pc' \in {"idle", "files", "passwd"}, group' = group PROVE group' = <<>>
      BY <1>0, <2>1, PhaseKept DEF GroupParsed
    <2>2. ASSUME NEW q \in PasswdRows, PasswdRow(q) PROVE group' = group
      BY <2>2 DEF PasswdRow
    <2> QED
      BY <2>1, <2>2, FilesKept, PhaseKept
  <1>2. ASSUME NEW q \in PasswdRows, PasswdRow(q) PROVE GroupParsed'
    <2>1. group = <<>> /\ group' = <<>> /\ gids' = gids
      BY <1>0, <1>2 DEF GroupParsed, PasswdRow
    <2>2. Members = {} /\ Members' = {}
      BY <2>1 DEF Members
    <2>3. \A n \in DOMAIN gids' : \E g \in Members' : g.name = n /\ g.gid = gids'[n]
      BY <1>0, <2>1, <2>2 DEF GroupParsed
    <2>4. ASSUME Unambiguous', NEW u \in DOMAIN groups'
          PROVE  groups'[u].additional = {}
      <3>1. groups' = Set(groups, q.uid, [NoGroups EXCEPT !.primary = q.gid])
        BY <1>2 DEF PasswdRow
      <3>2. CASE u = q.uid
        BY <3>1, <3>2 DEF Set, NoGroups
      <3>3. CASE u # q.uid
        <4>1. u \in DOMAIN groups /\ groups'[u] = groups[u]
          BY <2>4, <3>1, <3>3 DEF Set
        <4>2. Unambiguous /\ Listing(u) = {}
          BY <1>2, <2>2, <2>4, RowRead DEF Inv, Listing
        <4> QED
          BY <1>0, <4>1, <4>2 DEF GroupParsed
      <3> QED
        BY <3>2, <3>3
    <2>5. \A u : Listing(u)' = {}
      BY <2>2 DEF Listing
    <2>6. ASSUME Unambiguous', NEW u \in DOMAIN groups'
          PROVE  groups'[u].additional = {g.gid : g \in Listing(u)'} \ {groups'[u].primary}
      BY <2>4, <2>5, <2>6
    <2> QED
      BY <1>1, <2>3, <2>6 DEF GroupParsed
  <1>3. ASSUME NEW r \in GroupRows, GroupRow(r) PROVE GroupParsed'
    <2>1. /\ Members' = Members \cup {r} /\ Rows' = Rows
          /\ gids' = Set(gids, r.name, r.gid) /\ (Unambiguous' <=> Unambiguous)
      BY <1>0, <1>3, GroupRowRead DEF GroupRow, Rows, Unambiguous
    <2>2. ASSUME NEW n \in DOMAIN gids'
          PROVE  \E g \in Members' : g.name = n /\ g.gid = gids'[n]
      <3>1. CASE n = r.name
        BY <2>1, <3>1 DEF Set
      <3>2. CASE n # r.name
        <4>1. n \in DOMAIN gids /\ gids'[n] = gids[n]
          BY <2>1, <2>2, <3>2 DEF Set
        <4> QED
          BY <1>0, <2>1, <4>1 DEF GroupParsed
      <3> QED
        BY <3>1, <3>2
    <2>3. ASSUME Unambiguous', NEW u \in DOMAIN groups'
          PROVE  groups'[u].additional = {g.gid : g \in Listing(u)'} \ {groups'[u].primary}
      <3> DEFINE members == {uids[n] : n \in r.users \cap DOMAIN uids}
      <3>1. groups' = [v \in DOMAIN groups |->
                         IF v \in members /\ groups[v].primary # r.gid
                         THEN [groups[v] EXCEPT !.additional = @ \cup {r.gid}]
                         ELSE groups[v]]
        BY <1>3 DEF GroupRow
      <3>2. u \in members <=> r.users \cap NamesOf(u) # {}
        BY <2>1, <2>3, MembersAreListed
      <3>3. Listing(u)' = IF u \in members THEN Listing(u) \cup {r} ELSE Listing(u)
        BY <2>1, <3>2 DEF Listing, NamesOf
      <3> HIDE DEF members
      <3>4. u \in DOMAIN groups /\ groups[u] \in [primary : Nat, additional : SUBSET Nat]
        BY <1>0, <2>3, <3>1 DEF TypeOK
      <3>5. groups[u].additional = {g.gid : g \in Listing(u)} \ {groups[u].primary}
        BY <1>0, <2>1, <2>3, <3>4 DEF GroupParsed
      <3>6. CASE u \in members
        <4>1. {g.gid : g \in Listing(u)'} = {g.gid : g \in Listing(u)} \cup {r.gid}
          BY <3>3, <3>6
        <4>2. groups'[u].primary = groups[u].primary
          BY <3>1, <3>4
        <4>3. groups'[u].additional = IF groups[u].primary # r.gid
                                      THEN groups[u].additional \cup {r.gid}
                                      ELSE groups[u].additional
          BY <3>1, <3>4, <3>6
        <4> QED
          BY <3>5, <4>1, <4>2, <4>3
      <3>7. CASE u \notin members
        BY <3>1, <3>3, <3>4, <3>5, <3>7
      <3> QED
        BY <3>6, <3>7
    <2> QED
      BY <1>1, <2>2, <2>3 DEF GroupParsed
  <1>4. CASE UNCHANGED <<passwd, group, passwd_vars>>
    <2>1. /\ Members' = Members /\ (Unambiguous' <=> Unambiguous)
          /\ gids' = gids /\ groups' = groups
          /\ \A u : Listing(u)' = Listing(u)
      BY <1>4 DEF passwd_vars, Members, Unambiguous, Listing, NamesOf, Rows
    <2> QED
      BY <1>0, <1>1, <2>1 DEF GroupParsed
  <1> QED
    BY <1>2, <1>3, <1>4, FilesKept

-----------------------------------------------------------------------------
(* What the options set.                                                   *)

\* Only two options change the user.
LEMMA UserNext == Inv /\ [Next]_vars => UserSet'
  <1> SUFFICES ASSUME Inv, [Next]_vars PROVE UserSet'
    OBVIOUS
  <1> USE DEF UserPending
  <1>0. TypeOK /\ UserSet /\ \A r \in Rows : r \in Rows'
    BY RowsNext DEF Inv
  <1>1. ASSUME Uid = 0, KnownUser, request' = request, Rows' = Rows
        PROVE  \/ request'.user \in {Unset, 0}
               \/ \E r \in Rows' : r.name = request'.user /\ r.uid = 0
    BY <1>1 DEF Inv, UidsOfRows, Uid, KnownUser
  <1>2. ASSUME spec'.uid = Uid, pc = "user", pc' = "rootfs", KnownUser,
               request' = request, passwd' = passwd
        PROVE  UserSet'
    <2>1. Rows' = Rows
      BY <1>2 DEF Rows
    <2> QED
      BY <1>1, <1>2, <2>1 DEF UserSet
  <1>3. CASE WithUserOnly
    <2>1. spec'.uid = Uid
      BY <1>0, <1>3 DEF WithUserOnly, TypeOK, SpecType
    <2> QED
      BY <1>2, <1>3, <2>1 DEF WithUserOnly, Goto, NoFile, file_vars
  <1>4. CASE WithUserAndGroup
    <2>1. spec'.uid = Uid
      BY <1>0, <1>4 DEF WithUserAndGroup, TypeOK, SpecType
    <2> QED
      BY <1>2, <1>4, <2>1 DEF WithUserAndGroup, Goto, NoFile, file_vars
  <1>5. ASSUME Fail PROVE UserSet'
    BY <1>5 DEF Fail, UserSet, Running
  <1>6. ASSUME spec'.uid = spec.uid, request' = request,
               UserPending => UserPending' \/ request.user = Unset,
               UserPending' => UserPending, Running' => Running
        PROVE  UserSet'
    BY <1>0, <1>6 DEF UserSet
  <1>7. ASSUME spec' = spec, UserPending, UserPending' PROVE UserSet'
    BY <1>0, <1>7 DEF UserSet
  <1>8. CASE ImageConfig
    BY <1>0, <1>6, <1>8 DEF ImageConfig, Goto, TypeOK, Running
  <1>9. CASE OpenFiles
    BY <1>7, <1>9 DEF OpenFiles, Goto
  <1>10. ASSUME NEW r \in PasswdRows, PasswdRow(r) PROVE UserSet'
    BY <1>7, <1>10 DEF PasswdRow, Goto
  <1>11. ASSUME NEW r \in GroupRows, GroupRow(r) PROVE UserSet'
    BY <1>7, <1>11 DEF GroupRow, Goto
  <1>12. CASE PasswdEnds \/ GroupEnds
    BY <1>7, <1>12 DEF PasswdEnds, GroupEnds, Goto
  <1>13. CASE WithRootFS \/ WithCPULimit \/ WithMemoryLimit \/ WithHostNetwork
    <2>1. spec'.uid = spec.uid
      BY <1>0, <1>13 DEF WithRootFS, WithCPULimit, WithMemoryLimit, WithHostNetwork,
         TypeOK, SpecType
    <2> QED
      BY <1>6, <1>13, <2>1 DEF WithRootFS, WithCPULimit, WithMemoryLimit,
         WithHostNetwork, Goto, Running
  <1>14. CASE Write
    BY <1>0, <1>6, <1>14 DEF Write, Running, TypeOK
  <1>15. CASE UNCHANGED vars
    BY <1>6, <1>15 DEF vars, Running
  <1> QED
    BY <1>3, <1>4, <1>5, <1>8, <1>9, <1>10, <1>11, <1>12, <1>13, <1>14, <1>15
    DEF Next, NoArgs, BadRow, WithUserFails, BadLimit

LEMMA FoundNext == Inv /\ [Next]_vars => UserFound'
  <1> SUFFICES ASSUME Inv, [Next]_vars PROVE UserFound'
    OBVIOUS
  <1> USE DEF UserPending
  <1>0. TypeOK /\ UserFound
    BY DEF Inv
  <1>1. ASSUME UNCHANGED <<request, passwd_vars>>
        PROVE  /\ KnownUser' = KnownUser /\ KnownGroup' = KnownGroup
               /\ Uid' = Uid /\ Gid' = Gid /\ GroupsOf(Uid)' = GroupsOf(Uid)
    BY <1>1 DEF KnownUser, KnownGroup, Uid, Gid, GroupsOf, passwd_vars
  <1>2. CASE WithUserOnly
    <2>1. /\ spec'.uid = Uid /\ spec'.additional = GroupsOf(Uid).additional
          /\ spec'.gid = GroupsOf(Uid).primary
      BY <1>0, <1>2 DEF WithUserOnly, TypeOK, SpecType
    <2>2. UNCHANGED <<request, passwd_vars>> /\ KnownUser /\ request.group = Unset
      BY <1>2 DEF WithUserOnly, Goto, NoFile
    <2> QED
      BY <1>1, <2>1, <2>2 DEF UserFound
  <1>3. CASE WithUserAndGroup
    <2>1. /\ spec'.uid = Uid /\ spec'.additional = GroupsOf(Uid).additional
          /\ spec'.gid = Gid
      BY <1>0, <1>3 DEF WithUserAndGroup, TypeOK, SpecType
    <2>2. /\ UNCHANGED <<request, passwd_vars>>
          /\ KnownUser /\ KnownGroup /\ request.group # Unset
      BY <1>3 DEF WithUserAndGroup, Goto, NoFile
    <2> QED
      BY <1>1, <2>1, <2>2 DEF UserFound
  <1>4. ASSUME Fail PROVE UserFound'
    BY <1>4 DEF Fail, UserFound, Running
  <1>5. ASSUME UserPending' PROVE UserFound'
    BY <1>5 DEF UserFound
  <1>6. CASE ImageConfig
    BY <1>6 DEF ImageConfig, Goto, UserFound
  <1>7. ASSUME UNCHANGED <<request, passwd_vars>>, Running' => Running, ~ UserPending,
               spec'.uid = spec.uid, spec'.gid = spec.gid,
               spec'.additional = spec.additional
        PROVE  UserFound'
    BY <1>0, <1>1, <1>7 DEF UserFound
  <1>8. CASE WithRootFS \/ WithCPULimit \/ WithMemoryLimit \/ WithHostNetwork
    <2>1. /\ spec'.uid = spec.uid /\ spec'.gid = spec.gid
          /\ spec'.additional = spec.additional
      BY <1>0, <1>8 DEF WithRootFS, WithCPULimit, WithMemoryLimit, WithHostNetwork,
         TypeOK, SpecType
    <2> QED
      BY <1>7, <1>8, <2>1 DEF WithRootFS, WithCPULimit, WithMemoryLimit,
         WithHostNetwork, Goto, NoFile, Running
  <1>9. CASE Write
    BY <1>0, <1>7, <1>9 DEF Write, NoFile, Running, TypeOK
  <1>10. CASE UNCHANGED vars
    BY <1>5, <1>7, <1>10 DEF vars, Running
  <1> QED
    BY <1>2, <1>3, <1>4, <1>5, <1>6, <1>8, <1>9, <1>10 DEF Next, NoArgs, OpenFiles,
       PasswdRow, PasswdEnds, GroupRow, GroupEnds, BadRow, WithUserFails, BadLimit, Goto

\* Only one option changes the CPU limits.
LEMMA CpuNext == Inv /\ [Next]_vars => CpuSet'
  <1> SUFFICES ASSUME Inv, [Next]_vars PROVE CpuSet'
    OBVIOUS
  <1> USE DEF CpuPending, UserPending
  <1>0. TypeOK /\ CpuSet
    BY DEF Inv
  <1>1. CASE WithCPULimit
    BY <1>0, <1>1 DEF WithCPULimit, CpuSet, Goto, TypeOK, SpecType
  <1>2. CASE WithMemoryLimit \/ WithHostNetwork
    <2>1. spec'.shares = spec.shares /\ spec'.quota = spec.quota
      BY <1>0, <1>2 DEF WithMemoryLimit, WithHostNetwork, TypeOK, SpecType
    <2> QED
      BY <1>0, <1>2, <2>1 DEF WithMemoryLimit, WithHostNetwork, CpuSet, Goto, Running
  <1>3. CASE Write
    BY <1>0, <1>3 DEF Write, CpuSet, Running, TypeOK
  <1>4. ASSUME Fail PROVE CpuSet'
    BY <1>4 DEF Fail, CpuSet, Running
  <1>5. ASSUME CpuPending' PROVE CpuSet'
    BY <1>5 DEF CpuSet
  <1>6. CASE UNCHANGED vars
    BY <1>0, <1>6 DEF CpuSet, Running, vars
  <1> QED
    BY <1>1, <1>2, <1>3, <1>4, <1>5, <1>6 DEF Next, NoArgs, BadRow, WithUserFails,
       BadLimit, ImageConfig, OpenFiles, PasswdRow, PasswdEnds, GroupRow, GroupEnds,
       WithUserOnly, WithUserAndGroup, WithRootFS, Goto

\* One the memory limit.
LEMMA MemoryNext == Inv /\ [Next]_vars => MemorySet'
  <1> SUFFICES ASSUME Inv, [Next]_vars PROVE MemorySet'
    OBVIOUS
  <1> USE DEF CpuPending, UserPending
  <1>0. TypeOK /\ MemorySet
    BY DEF Inv
  <1>1. CASE WithMemoryLimit
    BY <1>0, <1>1 DEF WithMemoryLimit, MemorySet, Goto, TypeOK, SpecType
  <1>2. CASE WithHostNetwork
    <2>1. spec'.memory = spec.memory
      BY <1>0, <1>2 DEF WithHostNetwork, TypeOK, SpecType
    <2> QED
      BY <1>0, <1>2, <2>1 DEF WithHostNetwork, MemorySet, Goto, Running
  <1>3. CASE Write
    BY <1>0, <1>3 DEF Write, MemorySet, Running, TypeOK
  <1>4. ASSUME Fail PROVE MemorySet'
    BY <1>4 DEF Fail, MemorySet, Running
  <1>5. ASSUME CpuPending' \/ pc' = "memory" PROVE MemorySet'
    BY <1>5 DEF MemorySet
  <1>6. CASE UNCHANGED vars
    BY <1>0, <1>6 DEF MemorySet, Running, vars
  <1> QED
    BY <1>1, <1>2, <1>3, <1>4, <1>5, <1>6 DEF Next, NoArgs, BadRow, WithUserFails,
       BadLimit, ImageConfig, OpenFiles, PasswdRow, PasswdEnds, GroupRow, GroupEnds,
       WithUserOnly, WithUserAndGroup, WithRootFS, WithCPULimit, Goto

\* And one the network.
LEMMA NetworkNext == Inv /\ [Next]_vars => NetworkSet'
  <1> SUFFICES ASSUME Inv, [Next]_vars PROVE NetworkSet'
    OBVIOUS
  <1> USE DEF NetworkPending, CpuPending, UserPending
  <1>0. TypeOK /\ NetworkSet
    BY DEF Inv
  <1>1. ASSUME spec'.namespaces = spec.namespaces, spec'.resolv = spec.resolv,
               NetworkPending, NetworkPending'
        PROVE  NetworkSet'
    BY <1>0, <1>1 DEF NetworkSet
  <1>2. CASE WithHostNetwork
    BY <1>0, <1>2 DEF WithHostNetwork, NetworkSet, Goto, TypeOK, SpecType
  <1>3. CASE Write
    BY <1>0, <1>3 DEF Write, NetworkSet, Running, TypeOK
  <1>4. ASSUME Fail PROVE NetworkSet'
    BY <1>4 DEF Fail, NetworkSet, Running
  <1>5. CASE UNCHANGED vars
    BY <1>0, <1>5 DEF NetworkSet, Running, vars
  <1>6. CASE \/ WithUserOnly \/ WithUserAndGroup \/ WithRootFS \/ WithCPULimit
             \/ WithMemoryLimit
    <2>1. spec'.namespaces = spec.namespaces /\ spec'.resolv = spec.resolv
      BY <1>0, <1>6 DEF WithUserOnly, WithUserAndGroup, WithRootFS, WithCPULimit,
         WithMemoryLimit, TypeOK, SpecType
    <2> QED
      BY <1>1, <1>6, <2>1 DEF WithUserOnly, WithUserAndGroup, WithRootFS,
         WithCPULimit, WithMemoryLimit, Goto
  <1>7. ASSUME spec' = spec, NetworkPending, NetworkPending' PROVE NetworkSet'
    BY <1>1, <1>7
  <1> QED
    BY <1>2, <1>3, <1>4, <1>5, <1>6, <1>7 DEF Next, NoArgs, BadRow, WithUserFails,
       BadLimit, ImageConfig, OpenFiles, PasswdRow, PasswdEnds, GroupRow, GroupEnds,
       Goto

-----------------------------------------------------------------------------
(* The theorems.                                                           *)

\* What the spec holds after which option.
THEOREM Invariance == Spec => []Inv
  <1>1. Inv /\ [Next]_vars => Inv'
    BY TypeNext, UidsNext, PasswdNext, GroupNext, UserNext, FoundNext, CpuNext,
       MemoryNext, NetworkNext DEF Inv
  <1> QED
    BY <1>1, InvInit, PTL DEF Spec

\* A container runs as root only if its image says so, or names no user
\* (WithUserOnly, WithUserAndGroup).
THEOREM RootNamed == Spec => []RootOnlyIfNamed
  <1>1. Inv => RootOnlyIfNamed
    BY DEF Inv, TypeOK, UserSet, RootOnlyIfNamed, Written, Running, UserPending
  <1> QED
    BY <1>1, Invariance, PTL

\* A container runs as the user its image names, in that user's groups, as
\* the rows of the passwd and group files say (ParsePasswd, ParseGroup,
\* WithUserOnly, WithUserAndGroup).
THEOREM UserIsResolved == Spec => []ResolvedUser
  <1>1. ASSUME Inv, Written, request.user # Unset, Unambiguous
        PROVE  LET primary == {r.gid : r \in {q \in Rows : q.uid = spec.uid}}
               IN  /\ spec.uid = request.user \/ request.user \in NamesOf(spec.uid)
                   /\ request.group = Unset =>
                         spec.gid \in IF primary = {} THEN {0} ELSE primary
                   /\ request.group # Unset =>
                         \/ spec.gid = request.group
                         \/ \E g \in Members :
                               g.name = request.group /\ g.gid = spec.gid
                   /\ spec.additional = {g.gid : g \in Listing(spec.uid)} \ primary
    <2> DEFINE primary == {r.gid : r \in {q \in Rows : q.uid = spec.uid}}
    <2>1. /\ KnownUser /\ spec.uid = Uid
          /\ spec.additional = GroupsOf(Uid).additional
          /\ IF request.group = Unset THEN spec.gid = GroupsOf(Uid).primary
                                      ELSE KnownGroup /\ spec.gid = Gid
      BY <1>1 DEF Inv, TypeOK, UserFound, Written, Running, UserPending
    <2>2. /\ \A r \in Rows : r.uid \in DOMAIN groups /\ groups[r.uid].primary = r.gid
          /\ \A u \in DOMAIN groups : \E r \in Rows : r.uid = u
      BY <1>1 DEF Inv, PasswdParsed
    <2>3. spec.uid = request.user \/ request.user \in NamesOf(spec.uid)
      BY <1>1, <2>1 DEF Inv, UidsOfRows, KnownUser, Uid, NamesOf
    <2>4. request.group # Unset =>
             \/ spec.gid = request.group
             \/ \E g \in Members : g.name = request.group /\ g.gid = spec.gid
      BY <1>1, <2>1 DEF Inv, GroupParsed, KnownGroup, Gid
    <2>5. CASE spec.uid \in DOMAIN groups
      <3>1. primary = {groups[spec.uid].primary}
        BY <2>2, <2>5
      <3>2. spec.additional = {g.gid : g \in Listing(spec.uid)} \ primary
        BY <1>1, <2>1, <2>5, <3>1 DEF Inv, GroupParsed, GroupsOf
      <3>3. request.group = Unset => spec.gid \in primary
        BY <2>1, <2>5, <3>1 DEF GroupsOf
      <3> QED
        BY <2>3, <2>4, <3>2, <3>3
    <2>6. CASE spec.uid \notin DOMAIN groups
      <3>1. primary = {} /\ NamesOf(spec.uid) = {}
        BY <2>2, <2>6 DEF NamesOf
      <3>2. Listing(spec.uid) = {}
        BY <3>1 DEF Listing
      <3>3. GroupsOf(Uid) = NoGroups
        BY <2>1, <2>6 DEF GroupsOf
      <3>4. spec.additional = {} /\ (request.group = Unset => spec.gid = 0)
        BY <2>1, <3>3 DEF NoGroups
      <3>5. spec.additional = {g.gid : g \in Listing(spec.uid)} \ primary
        BY <3>1, <3>2, <3>4
      <3> HIDE DEF primary
      <3> QED
        BY <2>3, <2>4, <3>1, <3>4, <3>5 DEF primary
    <2> QED
      BY <2>5, <2>6
  <1>2. Inv => ResolvedUser
    BY <1>1 DEF ResolvedUser
  <1> QED
    BY <1>2, Invariance, PTL

\* A container shares the network if and only if its request says so
\* (FromRunFunctionConfig, WithHostNetwork).
THEOREM NetworkRight == Spec => []NetworkAsAsked
  <1>1. Inv => NetworkAsAsked
    BY DEF Inv, TypeOK, NetworkSet, NetworkAsAsked, Written, Running, UserPending,
       CpuPending, NetworkPending
  <1> QED
    BY <1>1, Invariance, PTL

\* Shares and quota are within the kernel's bounds, whatever overflows, and
\* limits are what was asked for, unless a conversion or a product overflows
\* (MilliValue, Value, milliCPUToShares, milliCPUToQuota).
THEOREM LimitsRight == Spec => []LimitsHold
  <1>0. Fine * Milli \in Nat /\ Fine * Milli > 0
    BY NumberAssumption
  <1>1. ASSUME Inv, Written, request.cpu # Unset
        PROVE  /\ IsQuantity(request.cpu)
               /\ \E milli \in Int :
                     /\ spec.shares = Shares(milli) /\ spec.quota = Quota(milli)
                     /\ Exact(request.cpu, Fine) =>
                           milli = Away(request.cpu.amount, Fine)
    <2>1. request.cpu # Malformed /\ IsQuantity(request.cpu)
      BY <1>1, RequestType DEF Inv, IsRequest, TypeOK, CpuSet, Written, Running,
         UserPending, CpuPending
    <2>2. PICK milli \in MilliValue(request.cpu) :
             spec.shares = Shares(milli) /\ spec.quota = Quota(milli)
      BY <1>1 DEF Inv, TypeOK, CpuSet, Written, Running, UserPending, CpuPending
    <2>3. milli \in Int /\ (Exact(request.cpu, Fine) => milli = Away(request.cpu.amount, Fine))
      BY <2>1, <2>2, ScaledType, NumberAssumption DEF MilliValue
    <2> QED
      BY <2>1, <2>2, <2>3
  <1>2. ASSUME Inv PROVE CpuInRange
    <2> SUFFICES ASSUME Written, request.cpu # Unset
                 PROVE  /\ spec.shares \in MinShares .. MaxShares
                        /\ spec.quota \in Int
                        /\ spec.quota = 0 \/ spec.quota >= MinQuota
                        /\ Exact(request.cpu, Fine) =>
                              (spec.quota = 0 <=> request.cpu.amount = 0)
      BY DEF CpuInRange
    <2>1. PICK milli \in Int :
             /\ spec.shares = Shares(milli) /\ spec.quota = Quota(milli)
             /\ Exact(request.cpu, Fine) => milli = Away(request.cpu.amount, Fine)
      BY <1>1, <1>2
    <2>2. /\ Quota(milli) \in Int
          /\ IF milli = 0 THEN Quota(milli) = 0 ELSE Quota(milli) >= MinQuota
      BY QuotaInRange
    <2>3. Exact(request.cpu, Fine) => (milli = 0 <=> request.cpu.amount = 0)
      BY <1>1, <1>2, <2>1, AwayRounds, NumberAssumption DEF IsQuantity
    <2>4. Shares(milli) \in MinShares .. MaxShares
      BY SharesInRange
    <2>5. spec.quota = 0 <=> milli = 0
      BY <2>1, <2>2, NumberAssumption
    <2> QED
      BY <2>1, <2>2, <2>3, <2>4, <2>5
  <1>3. ASSUME Inv PROVE AsAsked
    <2> DEFINE asked == request.cpu.amount
    <2> SUFFICES ASSUME Written, request.cpu # Unset, Exact(request.cpu, Fine),
                        Fits(Away(asked, Fine) * QuotaPeriod)
                 PROVE  /\ asked * QuotaPeriod < (spec.quota + 1) * (Fine * Milli)
                        /\ \/ spec.quota * (Fine * Milli) < (asked + Fine) * QuotaPeriod
                           \/ spec.quota = MinQuota
      BY DEF AsAsked
    <2> DEFINE milli == Away(asked, Fine)
    <2>1. asked \in Int /\ milli \in Int /\ spec.quota = Quota(milli)
      BY <1>1, <1>3, AwayRounds, NumberAssumption DEF IsQuantity
    <2>2. /\ milli * QuotaPeriod < (Quota(milli) + 1) * Milli
          /\ Quota(milli) * Milli <= milli * QuotaPeriod \/ Quota(milli) = MinQuota
      BY <2>1, QuotaAsAsked
    <2>3. /\ asked >= 0 => asked <= milli * Fine /\ milli * Fine < asked + Fine
          /\ asked < 0 => asked - Fine < milli * Fine /\ milli * Fine <= asked
          /\ asked < 0 => milli < 0
      BY <2>1, AwayRounds, NumberAssumption
    <2>4. Quota(milli) \in Int /\ Quota(milli) >= 0 /\ (milli < 0 => Quota(milli) >= MinQuota)
      BY <2>1, QuotaInRange, NumberAssumption
    <2>5. asked < 0 => Quota(milli) = MinQuota
      <3>1. SUFFICES ASSUME asked < 0, Quota(milli) * Milli <= milli * QuotaPeriod
                     PROVE  FALSE
        BY <2>2
      <3>2. milli * QuotaPeriod < 0
        BY <2>1, <2>3, <3>1, NumberAssumption
      <3>3. Quota(milli) * Milli >= 0
        BY <2>4, NumberAssumption
      <3> QED
        BY <2>1, <2>4, <3>1, <3>2, <3>3, NumberAssumption
    <2> DEFINE quota == spec.quota
    <2>6. /\ quota \in Int /\ quota >= 0
          /\ milli * QuotaPeriod < (quota + 1) * Milli
          /\ quota * Milli <= milli * QuotaPeriod \/ quota = MinQuota
          /\ asked < 0 => quota = MinQuota
      BY <2>1, <2>2, <2>4, <2>5
    <2> HIDE DEF asked, milli, quota
    <2>7. /\ asked * QuotaPeriod < (quota + 1) * (Fine * Milli)
          /\ quota * (Fine * Milli) < (asked + Fine) * QuotaPeriod \/ quota = MinQuota
      BY <2>1, <2>3, <2>6, QuotaScaled
    <2> QED
      BY <2>7 DEF asked, quota
  <1>4. ASSUME Inv PROVE MemoryAsAsked
    <2> SUFFICES ASSUME Written, request.memory # Unset,
                        Exact(request.memory, Fine * Milli)
                 PROVE  LET asked == request.memory.amount
                            byte  == Fine * Milli
                        IN  IF asked >= 0
                            THEN spec.memory * byte \in asked .. asked + byte - 1
                            ELSE spec.memory * byte \in asked - byte + 1 .. asked
      BY DEF MemoryAsAsked
    <2>1. IsQuantity(request.memory) /\ spec.memory \in Value(request.memory)
      BY <1>4, RequestType DEF Inv, IsRequest, TypeOK, MemorySet, Written, Running,
         UserPending, CpuPending
    <2>2. spec.memory = Away(request.memory.amount, Fine * Milli)
      BY <1>0, <2>1, ScaledType DEF Value
    <2> DEFINE asked == request.memory.amount
    <2> DEFINE byte == Fine * Milli
    <2>3. asked \in Int /\ byte \in Nat /\ byte > 0
      BY <1>0, <2>1 DEF IsQuantity
    <2>4. spec.memory = Away(asked, byte)
      BY <2>2
    <2> HIDE DEF asked, byte
    <2>5. /\ spec.memory \in Int
          /\ asked >= 0 => asked <= spec.memory * byte /\ spec.memory * byte < asked + byte
          /\ asked < 0 => asked - byte < spec.memory * byte /\ spec.memory * byte <= asked
      BY <2>3, <2>4, AwayRounds
    <2>6. spec.memory * byte \in Int
      BY <2>3, <2>5
    <2>7. IF asked >= 0 THEN spec.memory * byte \in asked .. asked + byte - 1
          ELSE spec.memory * byte \in asked - byte + 1 .. asked
      BY <2>3, <2>5, <2>6
    <2> QED
      BY <2>7 DEF asked, byte
  <1>5. Inv => LimitsHold
    BY <1>2, <1>3, <1>4 DEF LimitsHold
  <1> QED
    BY <1>5, Invariance, PTL
=============================================================================
