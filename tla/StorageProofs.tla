----------------------------- MODULE StorageProofs -----------------------------
(* How far a guild can overrun its storage limit, for any limit, number of     *)
(* writes per check, number of writes under way and number of keys.            *)
EXTENDS Storage, FiniteSetTheorems, TLAPS

Types ==
  /\ now \in Nat /\ rows \in [Keys -> Int]
  /\ requests_until_limit_check \in Nat
  /\ used_storage \in Int /\ used_storage >= Failed
  /\ waiting \in Nat /\ admitted \in Nat /\ grace \in Nat

\* The two flags as numbers.
Checking == IF doing_limit_check THEN 1 ELSE 0
Refusing == IF hit_limit THEN 1 ELSE 0

\* What the quota is overrun by at most, and by how much more after refusals were lifted.
Most == Limit + CheckEvery + 2 * MaxTasks - 2
Lifted == grace * (MaxTasks - 1)

\* The strengthening that makes the bound inductive: what is stored, what is
\* admitted and what may still be admitted without a check is bounded together.
QuotaInv ==
  /\ Types
  /\ waiting <= MaxTasks - 1 /\ waiting + admitted + Checking <= MaxTasks
  /\ Checking = 1 <=> used_storage # NotChecking
  /\ Checking = 1 => Refusing = 0
  /\ Checking = 1 \/ Refusing = 1 => requests_until_limit_check = 0
  /\ Usage + admitted <= Most + Lifted
  /\ Checking = 0 /\ Refusing = 0
       => Usage + admitted + waiting + requests_until_limit_check <= Most + Lifted
  /\ used_storage >= 0 /\ used_storage < Limit
       => Usage + admitted <= (Limit - 1) + (MaxTasks - 1)

LEMMA FlagsType ==
  /\ Checking \in {0, 1} /\ Refusing \in {0, 1}
  /\ Checking' \in {0, 1} /\ Refusing' \in {0, 1}
BY DEF Checking, Refusing

LEMMA UsageType ==
  IsFiniteSet(LiveKeys) /\ IsFiniteSet(LiveKeys') /\ Usage \in Nat /\ Usage' \in Nat
<1>1. NumKeys \in Nat /\ IsFiniteSet(Keys)
  BY StorageAssumption, FS_Interval DEF Keys
<1>2. LiveKeys \subseteq Keys /\ LiveKeys' \subseteq Keys
  BY DEF LiveKeys
<1>3. IsFiniteSet(LiveKeys) /\ IsFiniteSet(LiveKeys')
  BY <1>1, <1>2, FS_Subset
<1> QED BY <1>3, FS_CardinalityType DEF Usage

LEMMA UsageShrinks ==
  ASSUME LiveKeys' \subseteq LiveKeys
  PROVE  Usage' <= Usage
<1>1. Cardinality(LiveKeys') <= Cardinality(LiveKeys)
  BY UsageType, FS_Subset
<1> QED BY <1>1 DEF Usage

LEMMA UsageGrows ==
  ASSUME NEW k, LiveKeys' \subseteq LiveKeys \cup {k}
  PROVE  Usage' <= Usage + 1
<1> DEFINE both == LiveKeys \cup {k}
<1>1. /\ IsFiniteSet(both) /\ Cardinality(both) \in Nat
      /\ Cardinality(both) = Cardinality(LiveKeys) \/ Cardinality(both) = Cardinality(LiveKeys) + 1
  BY UsageType, FS_AddElement, FS_CardinalityType
<1>2. Cardinality(LiveKeys') <= Cardinality(both)
  BY <1>1, FS_Subset
<1>3. Cardinality(LiveKeys) \in Nat /\ Cardinality(LiveKeys') \in Nat
  BY UsageType DEF Usage
<1> QED BY <1>1, <1>2, <1>3 DEF Usage

LEMMA LiftedType ==
  ASSUME Types
  PROVE  /\ Lifted \in Nat /\ Most \in Int
         /\ grace' = grace => Lifted' = Lifted
         /\ grace' = grace + 1 => Lifted' = Lifted + (MaxTasks - 1)
<1>1. grace \in Nat /\ MaxTasks - 1 \in Nat
  BY StorageAssumption DEF Types
<1>2. grace * (MaxTasks - 1) \in Nat
  BY <1>1
<1>3. (grace + 1) * (MaxTasks - 1) = grace * (MaxTasks - 1) + (MaxTasks - 1)
  BY <1>1
<1>4. Most \in Int
  BY StorageAssumption DEF Most
<1> QED BY <1>2, <1>3, <1>4 DEF Lifted

\* The steps of check_validate_storage_usage leave the rows alone.
LEMMA SameUsage ==
  ASSUME UNCHANGED store
  PROVE  Usage' = Usage
BY DEF store, Usage, LiveKeys, Live

LEMMA WriteQuota ==
  ASSUME QuotaInv, Write
  PROVE  QuotaInv'
<1>0. /\ Types /\ Usage' = Usage /\ Usage \in Nat /\ Lifted' = Lifted /\ Lifted \in Nat
      /\ Most' = Most /\ Most \in Int
  BY SameUsage, UsageType, LiftedType DEF QuotaInv, Write, Most
<1>1. MaxTasks \in Nat \ {0} /\ Limit \in Nat \ {0}
  BY StorageAssumption
<1>2. waiting + admitted + Checking < MaxTasks
  BY DEF Write, UnderWay, Checking
<1>3. now' = now /\ rows' = rows /\ grace' = grace
  BY DEF Write, store
<1>4. CASE Checking = 0 /\ Refusing = 1 /\ UNCHANGED <<state, tasks>>
  <2>1. Checking' = Checking /\ Refusing' = Refusing
    BY <1>4, Zenon DEF Checking, Refusing, state
  <2> QED BY <1>0, <1>1, <1>3, <1>4, <2>1, SMTT(30) DEF QuotaInv, Types, state, tasks
<1>5. CASE /\ Checking = 0 /\ Refusing = 0 /\ requests_until_limit_check >= 1
           /\ requests_until_limit_check' = requests_until_limit_check - 1
           /\ admitted' = admitted + 1
           /\ UNCHANGED <<doing_limit_check, hit_limit, used_storage, waiting>>
  <2>1. Checking' = Checking /\ Refusing' = Refusing
    BY <1>5, Zenon DEF Checking, Refusing
  <2>2. Types'
    BY <1>0, <1>3, <1>5 DEF Types
  <2>3. Usage + admitted + waiting + requests_until_limit_check <= Most + Lifted
    BY <1>5 DEF QuotaInv
  <2>4. used_storage = NotChecking
    BY <1>5 DEF QuotaInv
  <2> QED BY <1>0, <1>1, <1>2, <1>3, <1>5, <2>1, <2>2, <2>3, <2>4, SMTT(30)
          DEF QuotaInv, Types, NotChecking
<1>6. CASE /\ Checking = 0 /\ Refusing = 0 /\ requests_until_limit_check = 0
           /\ doing_limit_check' = TRUE /\ used_storage' = Sent
           /\ UNCHANGED <<requests_until_limit_check, hit_limit, waiting, admitted>>
  <2>1. Checking' = 1 /\ Refusing' = Refusing
    BY <1>6, Zenon DEF Checking, Refusing
  <2> QED BY <1>0, <1>1, <1>2, <1>3, <1>6, <2>1, SMTT(30)
          DEF QuotaInv, Types, Sent, Failed, NotChecking
<1>7. CASE Checking = 1 /\ waiting' = waiting + 1 /\ UNCHANGED <<state, used_storage, admitted>>
  <2>1. Checking' = Checking /\ Refusing' = Refusing
    BY <1>7, Zenon DEF Checking, Refusing, state
  <2> QED BY <1>0, <1>1, <1>2, <1>3, <1>7, <2>1, SMTT(30) DEF QuotaInv, Types, state
<1> QED BY <1>4, <1>5, <1>6, <1>7, Zenon DEF Write, Checking, Refusing, tasks

LEMMA UsageReadQuota ==
  ASSUME QuotaInv, UsageRead
  PROVE  QuotaInv'
<1>0. /\ Types /\ Usage' = Usage /\ Usage \in Nat /\ Lifted' = Lifted /\ Lifted \in Nat
      /\ Most' = Most /\ Most \in Int
  BY SameUsage, UsageType, LiftedType DEF QuotaInv, UsageRead, Most
<1>1. MaxTasks \in Nat \ {0} /\ Limit \in Nat \ {0}
  BY StorageAssumption
<1>2. Checking' = Checking /\ Refusing' = Refusing
  BY Zenon DEF UsageRead, Checking, Refusing, state
<1>3. /\ used_storage = Sent /\ used_storage' \in {Usage, Failed}
      /\ UNCHANGED <<store, requests_until_limit_check, waiting, admitted, grace>>
  BY Zenon DEF UsageRead, state
<1> QED BY <1>0, <1>1, <1>2, <1>3, FlagsType, SMTT(30)
        DEF QuotaInv, Types, store, Sent, Failed, NotChecking

LEMMA CheckDoneQuota ==
  ASSUME QuotaInv, CheckDone
  PROVE  QuotaInv'
<1>0. /\ Types /\ Usage' = Usage /\ Usage \in Nat /\ Lifted \in Nat /\ Most' = Most /\ Most \in Int
      /\ grace' = grace => Lifted' = Lifted
      /\ grace' = grace + 1 => Lifted' = Lifted + (MaxTasks - 1)
  BY SameUsage, UsageType, LiftedType DEF QuotaInv, CheckDone, Most
<1>1. MaxTasks \in Nat \ {0} /\ Limit \in Nat \ {0} /\ CheckEvery \in Nat
  BY StorageAssumption
<1>2. Checking' = 0 /\ now' = now /\ rows' = rows /\ waiting' = waiting
  BY Zenon DEF CheckDone, Checking, store
<1>3. /\ used_storage' = NotChecking /\ Checking = 1 /\ Refusing = 0
      /\ requests_until_limit_check = 0
      /\ used_storage # Failed => used_storage >= 0
  BY <1>0, FlagsType DEF CheckDone, QuotaInv, Types, Failed, Sent, NotChecking
<1>4. CASE /\ used_storage = Failed /\ grace' = grace + 1
           /\ UNCHANGED <<hit_limit, requests_until_limit_check, admitted>>
  <2>1. Refusing' = Refusing
    BY <1>4, Zenon DEF Refusing
  <2> QED BY <1>0, <1>1, <1>2, <1>3, <1>4, <2>1, SMTT(30)
          DEF QuotaInv, Types, Failed, NotChecking
<1>5. CASE /\ used_storage # Failed /\ used_storage >= Limit /\ hit_limit' = TRUE
           /\ UNCHANGED <<requests_until_limit_check, admitted, grace>>
  <2>1. Refusing' = 1
    BY <1>5, Zenon DEF Refusing
  <2> QED BY <1>0, <1>1, <1>2, <1>3, <1>5, <2>1, SMTT(30)
          DEF QuotaInv, Types, Failed, NotChecking
<1>6. CASE /\ used_storage # Failed /\ used_storage < Limit
           /\ requests_until_limit_check' = CheckEvery /\ admitted' = admitted + 1
           /\ UNCHANGED <<hit_limit, grace>>
  <2>1. Usage + admitted <= (Limit - 1) + (MaxTasks - 1)
    BY <1>3, <1>6 DEF QuotaInv
  <2>2. Refusing' = Refusing
    BY <1>6, Zenon DEF Refusing
  <2> QED BY <1>0, <1>1, <1>2, <1>3, <1>6, <2>1, <2>2, SMTT(30)
          DEF QuotaInv, Types, Failed, NotChecking, Most
<1> QED BY <1>4, <1>5, <1>6, Zenon DEF CheckDone

LEMMA WaiterQuota ==
  ASSUME QuotaInv, WaiterWakes
  PROVE  QuotaInv'
<1>0. /\ Types /\ Usage' = Usage /\ Usage \in Nat /\ Lifted' = Lifted /\ Lifted \in Nat
      /\ Most' = Most /\ Most \in Int
  BY SameUsage, UsageType, LiftedType DEF QuotaInv, WaiterWakes, Most, bounds
<1>1. MaxTasks \in Nat \ {0} /\ Limit \in Nat \ {0}
  BY StorageAssumption
<1>2. Checking = 0 /\ Checking' = Checking /\ Refusing' = Refusing
  BY Zenon DEF WaiterWakes, Checking, Refusing, state
<1>3. /\ waiting > 0 /\ waiting' = waiting - 1
      /\ admitted' = IF Refusing = 1 THEN admitted ELSE admitted + 1
      /\ UNCHANGED <<store, requests_until_limit_check, used_storage, grace>>
  BY DEF WaiterWakes, Refusing, state, bounds
<1> QED BY <1>0, <1>1, <1>2, <1>3, FlagsType, SMTT(30)
        DEF QuotaInv, Types, store, NotChecking

\* A statement adds at most the row it was admitted for.
LEMMA StatementQuota ==
  ASSUME QuotaInv, NEW k \in Keys, NEW row \in Int, Statement(k, row)
  PROVE  QuotaInv'
<1>0. Types /\ Usage \in Nat /\ Usage' \in Nat /\ Lifted' = Lifted /\ Lifted \in Nat
      /\ Most' = Most /\ Most \in Int
  BY UsageType, LiftedType DEF QuotaInv, Statement, Most, bounds
<1>1. LiveKeys' \subseteq LiveKeys \cup {k}
  <2>1. \A j \in Keys \ {k} : rows'[j] = rows[j] /\ now' = now
    BY <1>0 DEF Types, Statement
  <2> QED BY <2>1 DEF LiveKeys, Live
<1>2. Usage' <= Usage + 1
  BY <1>1, UsageGrows
<1>3. rows' \in [Keys -> Int]
  BY <1>0 DEF Types, Statement
<1>4. MaxTasks \in Nat \ {0} /\ Limit \in Nat \ {0}
  BY StorageAssumption
<1>5. Checking' = Checking /\ Refusing' = Refusing
  BY Zenon DEF Statement, Checking, Refusing, state
<1>6. /\ admitted > 0 /\ admitted' = admitted - 1
      /\ UNCHANGED <<now, requests_until_limit_check, used_storage, waiting, grace>>
  BY Zenon DEF Statement, state, bounds
<1>7. Types'
  BY <1>0, <1>3, <1>6 DEF Types
<1>8. /\ Usage' + admitted' <= Usage + admitted
      /\ Usage' + admitted' + waiting' + requests_until_limit_check'
           <= Usage + admitted + waiting + requests_until_limit_check
      /\ Usage + admitted \in Nat /\ Usage' + admitted' \in Nat
      /\ Usage + admitted + waiting + requests_until_limit_check \in Nat
      /\ Usage' + admitted' + waiting' + requests_until_limit_check' \in Nat
      /\ waiting' + admitted' + Checking' <= waiting + admitted + Checking
      /\ waiting' + admitted' + Checking' \in Nat /\ waiting + admitted + Checking \in Nat
  BY <1>0, <1>2, <1>5, <1>6, FlagsType DEF Types, Usage
<1> QED BY <1>0, <1>4, <1>5, <1>6, <1>7, <1>8, FlagsType, SMTT(30) DEF QuotaInv

\* Nothing but a statement adds rows.
LEMMA ShrinkQuota ==
  ASSUME QuotaInv, now' \in Nat, rows' \in [Keys -> Int], Usage' <= Usage,
         UNCHANGED <<state, used_storage, waiting, admitted, grace>>
  PROVE  QuotaInv'
<1>0. /\ Types /\ Usage \in Nat /\ Usage' \in Nat /\ Lifted' = Lifted /\ Lifted \in Nat
      /\ Most' = Most /\ Most \in Int
  BY UsageType, LiftedType DEF QuotaInv, Most
<1>1. MaxTasks \in Nat \ {0} /\ Limit \in Nat \ {0}
  BY StorageAssumption
<1>2. Checking' = Checking /\ Refusing' = Refusing
  BY Zenon DEF Checking, Refusing, state
<1>3. requests_until_limit_check' = requests_until_limit_check
  BY Zenon DEF state
<1>4. Types'
  BY <1>0, <1>3, Zenon DEF Types
<1>5. /\ Usage' + admitted' <= Usage + admitted
      /\ Usage' + admitted' + waiting' + requests_until_limit_check'
           <= Usage + admitted + waiting + requests_until_limit_check
      /\ Usage + admitted \in Nat /\ Usage' + admitted' \in Nat
      /\ Usage + admitted + waiting + requests_until_limit_check \in Nat
      /\ Usage' + admitted' + waiting' + requests_until_limit_check' \in Nat
  BY <1>0, <1>3 DEF Types, Usage
<1> QED BY <1>0, <1>1, <1>2, <1>3, <1>4, <1>5, FlagsType, SMTT(30) DEF QuotaInv

LEMMA DelQuota ==
  ASSUME QuotaInv, NEW ks, Del(ks)
  PROVE  QuotaInv'
<1>1. now' \in Nat /\ rows' \in [Keys -> Int]
  BY DEF QuotaInv, Types, Del, NoRow
<1>2. LiveKeys' \subseteq LiveKeys
  BY DEF Del, LiveKeys, Live, NoRow, Never, QuotaInv, Types
<1> QED BY <1>1, <1>2, UsageShrinks, ShrinkQuota DEF Del

LEMMA DelResumesQuota ==
  ASSUME QuotaInv, DelResumes
  PROVE  QuotaInv'
<1>0. /\ Types /\ Usage' = Usage /\ Usage \in Nat /\ Lifted \in Nat /\ Most' = Most /\ Most \in Int
      /\ grace' = grace => Lifted' = Lifted
      /\ grace' = grace + 1 => Lifted' = Lifted + (MaxTasks - 1)
  BY SameUsage, UsageType, LiftedType DEF QuotaInv, DelResumes, Most
<1>1. MaxTasks \in Nat \ {0} /\ Limit \in Nat \ {0}
  BY StorageAssumption
<1>2. Checking' = Checking /\ Refusing' = 0
  BY Zenon DEF DelResumes, Checking, Refusing
<1>3. /\ grace' = IF Refusing = 1 THEN grace + 1 ELSE grace
      /\ UNCHANGED <<store, requests_until_limit_check, used_storage, waiting, admitted>>
  BY DEF DelResumes, Refusing
<1> QED BY <1>0, <1>1, <1>2, <1>3, FlagsType, SMTT(30) DEF QuotaInv, Types, store

LEMMA RestartQuota ==
  ASSUME QuotaInv, VmRestarts
  PROVE  QuotaInv'
<1>0. /\ Types /\ Usage' = Usage /\ Usage \in Nat /\ Lifted' = Lifted /\ Lifted \in Nat
      /\ Most' = Most /\ Most \in Int
  BY SameUsage, UsageType, LiftedType DEF QuotaInv, VmRestarts, Most
<1>1. MaxTasks \in Nat \ {0} /\ Limit \in Nat \ {0}
  BY StorageAssumption
<1>2. PICK n \in 0..admitted : admitted' = n
  BY DEF VmRestarts
<1>3. admitted \in Nat /\ waiting \in Nat /\ n \in Nat /\ n <= admitted
  BY <1>0 DEF Types
<1>4. Checking' = 0 /\ Refusing' = 0
  BY Zenon DEF VmRestarts, Checking, Refusing
<1>5. /\ requests_until_limit_check' = 0 /\ used_storage' = NotChecking /\ waiting' = 0
      /\ UNCHANGED <<store, grace>>
  BY Zenon DEF VmRestarts
<1>6. Types'
  BY <1>0, <1>2, <1>3, <1>5 DEF Types, store, NotChecking, Failed
<1>7. waiting + admitted + Checking <= MaxTasks /\ Usage + admitted <= Most + Lifted
  BY DEF QuotaInv
<1>8. n <= MaxTasks /\ Usage + n <= Most + Lifted
  BY <1>0, <1>1, <1>3, <1>7, FlagsType
<1> QED BY <1>0, <1>1, <1>2, <1>3, <1>4, <1>5, <1>6, <1>8, SMTT(30) DEF QuotaInv, NotChecking

LEMMA QuotaStep == QuotaInv /\ [Next]_vars => QuotaInv'
<1> SUFFICES ASSUME QuotaInv, [Next]_vars
             PROVE  QuotaInv'
  OBVIOUS
<1>0. Types /\ now \in Nat /\ TTL \in Nat
  BY StorageAssumption DEF QuotaInv, Types
<1>1. CASE Write \/ UsageRead \/ CheckDone \/ WaiterWakes \/ DelResumes \/ VmRestarts
  BY <1>1, WriteQuota, UsageReadQuota, CheckDoneQuota, WaiterQuota, DelResumesQuota, RestartQuota
<1>2. ASSUME NEW k \in Keys, NEW ttl \in BOOLEAN,
             Incr(k) \/ Set(k, ttl) \/ SetIfExists(k, ttl) \/ SetIfNotExists(k, ttl)
      PROVE  QuotaInv'
  <2>1. ExpiresAt(ttl) \in Int /\ Never \in Int /\ rows[k] \in Int
    BY <1>0 DEF ExpiresAt, Never, Types
  <2> QED BY <1>2, <2>1, StatementQuota DEF Incr, Set, SetIfExists, SetIfNotExists
<1>3. ASSUME NEW ks \in SUBSET Keys, Del(ks)
      PROVE  QuotaInv'
  BY <1>3, DelQuota
<1>4. CASE DeleteGuildData
  <2>1. now' \in Nat /\ rows' \in [Keys -> Int]
    BY <1>0, <1>4 DEF Types, DeleteGuildData, NoRow
  <2>2. LiveKeys' \subseteq LiveKeys
    BY <1>0, <1>4 DEF DeleteGuildData, LiveKeys, Live, NoRow, Never
  <2> QED BY <1>4, <2>1, <2>2, UsageShrinks, ShrinkQuota DEF DeleteGuildData, tasks
<1>5. CASE Tick
  <2>1. now' \in Nat /\ rows' \in [Keys -> Int]
    BY <1>0, <1>5 DEF Types, Tick
  <2>2. LiveKeys' \subseteq LiveKeys
    BY <1>0, <1>5 DEF Tick, LiveKeys, Live, Types
  <2> QED BY <1>5, <2>1, <2>2, UsageShrinks, ShrinkQuota DEF Tick, tasks, bounds
<1>6. CASE ListStarts \/ List \/ UNCHANGED vars
  <2>1. UNCHANGED <<store, state, used_storage, waiting, admitted, grace>>
    BY <1>6 DEF ListStarts, List, vars, tasks, bounds
  <2>2. now' \in Nat /\ rows' \in [Keys -> Int] /\ Usage' = Usage /\ Usage \in Nat
    BY <1>0, <2>1, SameUsage, UsageType DEF Types, store
  <2> QED BY <2>1, <2>2, ShrinkQuota
<1>7. CASE \E k \in Keys : \/ Incr(k)
                           \/ \E ttl \in BOOLEAN : Set(k, ttl) \/ SetIfExists(k, ttl) \/ SetIfNotExists(k, ttl)
  BY <1>2, <1>7
<1> QED BY <1>1, <1>3, <1>4, <1>5, <1>6, <1>7 DEF Next

\* However the writes, checks, deletes, restarts and failures of a guild interleave,
\* its storage limit is overrun by no more than what one check admits, two rounds of
\* the writes under way, and one more round for each refusal that was lifted.
THEOREM StorageQuotaBounded == Spec => []QuotaBounded
<1>1. Init => QuotaInv
  <2> SUFFICES ASSUME Init
               PROVE  QuotaInv
    OBVIOUS
  <2>1. Types /\ Checking = 0 /\ Refusing = 0
    BY DEF Init, Types, NoRow, NotChecking, Failed, Checking, Refusing
  <2>2. LiveKeys = {}
    BY DEF Init, LiveKeys, Live, NoRow, Never
  <2>3. Usage = 0
    BY <2>2, FS_EmptySet DEF Usage
  <2>4. Lifted = 0
    BY StorageAssumption DEF Init, Lifted
  <2> QED BY <2>1, <2>3, <2>4, StorageAssumption, SMTT(30)
          DEF Init, QuotaInv, Most, NotChecking
<1>2. QuotaInv => QuotaBounded
  <2> SUFFICES ASSUME QuotaInv
               PROVE  QuotaBounded
    OBVIOUS
  <2>1. Usage \in Nat /\ admitted \in Nat /\ Lifted \in Nat /\ Most \in Int
    BY UsageType, LiftedType DEF QuotaInv, Types
  <2>2. Usage <= Most + Lifted
    BY <2>1 DEF QuotaInv
  <2>3. Most + Lifted < Limit + CheckEvery + 2 * MaxTasks - 1 + Lifted
    BY <2>1, StorageAssumption DEF Most
  <2>4. Limit + CheckEvery + 2 * MaxTasks - 1 + Lifted \in Int
    BY <2>1, StorageAssumption
  <2>5. Usage < Limit + CheckEvery + 2 * MaxTasks - 1 + Lifted
    BY <2>1, <2>2, <2>3, <2>4
  <2> QED BY <2>5 DEF QuotaBounded, Lifted
<1> QED BY <1>1, <1>2, QuotaStep, PTL DEF Spec
=============================================================================
