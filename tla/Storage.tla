------------------------------- MODULE Storage -------------------------------
(***************************************************************************)
(* The bucket storage of one guild: the storage ops of the runtime         *)
(* (components/runtime/src/extensions/storage.rs), which a script calls    *)
(* without waiting for the one before, over the bucket_store table         *)
(* (components/stores/src/postgres/bucketstore.rs).                        *)
(*                                                                         *)
(* A row is what the properties tell apart: whether it is there and when   *)
(* it expires.  Every row counts as one unit of storage, (bucket, key) is  *)
(* one key, and the writes under way in the vm are counted, not named.     *)
(***************************************************************************)
EXTENDS Integers, FiniteSets

CONSTANTS
  NumKeys,
  TTL,         \* the time to live an entry may be given
  Limit,       \* limits::storage_total_size of the guild's tier
  CheckEvery,  \* 10 in the code: writes admitted by one check
  MaxTasks,    \* bound on the writes of the vm under way at once
  PageSize,    \* the limit of a list call
  MaxOps, MaxNow, MaxFails, MaxRestarts  \* bounds of the exploration

Keys == 1..NumKeys

ASSUME StorageAssumption ==
  /\ NumKeys \in Nat /\ TTL \in Nat \ {0}
  /\ Limit \in Nat \ {0} /\ CheckEvery \in Nat /\ MaxTasks \in Nat \ {0}
  /\ PageSize \in Nat \ {0}
  /\ MaxOps \in Nat /\ MaxNow \in Nat /\ MaxFails \in Nat /\ MaxRestarts \in Nat

VARIABLES
  now,
  rows,       \* per key: NoRow, Never, or the time the row expires at
  requests_until_limit_check, doing_limit_check, hit_limit,  \* StorageState
  used_storage,  \* the checking write: NotChecking, Sent, Failed, or the usage it was told
  waiting,       \* writes that poll for the end of another write's check
  admitted,      \* writes past the check whose statement has not run
  deleting,      \* delete ops whose statement removed rows and that have to resume
  listing,       \* a script reading a bucket page by page
  ops, fails, restarts,
  grace          \* how often writes that waited were let in without a check

store == <<now, rows>>
state == <<requests_until_limit_check, doing_limit_check, hit_limit>>
tasks == <<used_storage, waiting, admitted, deleting>>
bounds == <<ops, fails, restarts, grace>>
vars == <<store, state, tasks, listing, bounds>>

NoRow == -2
Never == -1
NotChecking == -1
Sent == -2
Failed == -3
NotListing == [after |-> 0, owed |-> {}, on |-> FALSE]

\* "expires_at IS NULL OR expires_at > now()"
Live(k) == rows[k] = Never \/ rows[k] > now
LiveKeys == {k \in Keys : Live(k)}

\* guild_storage_usage_bytes
Usage == Cardinality(LiveKeys)

ExpiresAt(ttl) == IF ttl THEN now + TTL ELSE Never

Init ==
  /\ now = 0 /\ rows = [k \in Keys |-> NoRow]
  /\ requests_until_limit_check = 0 /\ doing_limit_check = FALSE /\ hit_limit = FALSE
  /\ used_storage = NotChecking /\ waiting = 0 /\ admitted = 0 /\ deleting = 0
  /\ listing = NotListing
  /\ ops = 0 /\ fails = 0 /\ restarts = 0 /\ grace = 0

\* What is owed to the reader is what has been there since it began.
Owed == listing' = [listing EXCEPT !.owed = {k \in @ : rows'[k] = Never \/ rows'[k] > now'}]

-----------------------------------------------------------------------------
(* check_validate_storage_usage *)

UnderWay == waiting + admitted + (IF doing_limit_check THEN 1 ELSE 0)

\* Slip: the fast path does not count down.
WriteUncounted ==
  /\ ops < MaxOps /\ ops' = ops + 1
  /\ UnderWay < MaxTasks
  /\ \/ /\ ~doing_limit_check /\ hit_limit
        /\ UNCHANGED <<state, tasks>>
     \/ /\ ~doing_limit_check /\ ~hit_limit /\ requests_until_limit_check >= 1
        /\ admitted' = admitted + 1
        /\ UNCHANGED <<state, used_storage, waiting, deleting>>
     \/ /\ ~doing_limit_check /\ ~hit_limit /\ requests_until_limit_check = 0
        /\ doing_limit_check' = TRUE /\ used_storage' = Sent
        /\ UNCHANGED <<requests_until_limit_check, hit_limit, waiting, admitted, deleting>>
     \/ /\ doing_limit_check
        /\ waiting' = waiting + 1
        /\ UNCHANGED <<state, used_storage, admitted, deleting>>
  /\ UNCHANGED <<store, listing, fails, restarts, grace>>

\* op_botloader_bucket_storage_set, set_if or incr, to its first await: refused,
\* admitted on the fast path, the one that checks, or one that waits for it.
Write ==
  /\ ops < MaxOps /\ ops' = ops + 1
  /\ UnderWay < MaxTasks
  /\ \/ /\ ~doing_limit_check /\ hit_limit
        /\ UNCHANGED <<state, tasks>>
     \/ /\ ~doing_limit_check /\ ~hit_limit /\ requests_until_limit_check >= 1
        /\ requests_until_limit_check' = requests_until_limit_check - 1
        /\ admitted' = admitted + 1
        /\ UNCHANGED <<doing_limit_check, hit_limit, used_storage, waiting, deleting>>
     \/ /\ ~doing_limit_check /\ ~hit_limit /\ requests_until_limit_check = 0
        /\ doing_limit_check' = TRUE /\ used_storage' = Sent
        /\ UNCHANGED <<requests_until_limit_check, hit_limit, waiting, admitted, deleting>>
     \/ /\ doing_limit_check
        /\ waiting' = waiting + 1
        /\ UNCHANGED <<state, used_storage, admitted, deleting>>
  /\ UNCHANGED <<store, listing, fails, restarts, grace>>

\* The store answers guild_storage_usage_bytes, or fails to.
UsageRead ==
  /\ used_storage = Sent
  /\ \/ used_storage' = Usage /\ UNCHANGED fails
     \/ fails < MaxFails /\ fails' = fails + 1 /\ used_storage' = Failed
  /\ UNCHANGED <<store, state, waiting, admitted, deleting, listing, ops, restarts, grace>>

\* The checking write resumes: it fails, is refused, or is admitted.
CheckDone ==
  /\ used_storage \notin {NotChecking, Sent}
  /\ used_storage' = NotChecking /\ doing_limit_check' = FALSE
  /\ \/ /\ used_storage = Failed
        /\ grace' = grace + 1
        /\ UNCHANGED <<hit_limit, requests_until_limit_check, admitted>>
     \/ /\ used_storage # Failed /\ used_storage >= Limit
        /\ hit_limit' = TRUE
        /\ UNCHANGED <<requests_until_limit_check, admitted, grace>>
     \/ /\ used_storage # Failed /\ used_storage < Limit
        /\ requests_until_limit_check' = CheckEvery /\ admitted' = admitted + 1
        /\ UNCHANGED <<hit_limit, grace>>
  /\ UNCHANGED <<store, waiting, deleting, listing, ops, fails, restarts>>

\* A waiting write wakes up after 100 ms and finds no check under way: it goes by
\* hit_limit alone.
WaiterWakes ==
  /\ waiting > 0 /\ ~doing_limit_check
  /\ waiting' = waiting - 1
  /\ admitted' = IF hit_limit THEN admitted ELSE admitted + 1
  /\ UNCHANGED <<store, state, used_storage, deleting, listing, bounds>>

-----------------------------------------------------------------------------
(* The statements *)

Statement(k, row) ==
  /\ admitted > 0 /\ admitted' = admitted - 1
  /\ rows' = [rows EXCEPT ![k] = row] /\ UNCHANGED now
  /\ Owed
  /\ UNCHANGED <<state, used_storage, waiting, deleting, bounds>>

\* BucketStore::set
Set(k, ttl) == Statement(k, ExpiresAt(ttl))

\* BucketStore::set_if, with its two conditions; one that does not hold leaves the
\* row alone.  A row that expires now is neither there nor gone.
SetIfExists(k, ttl) ==
  Statement(k, IF Live(k) THEN ExpiresAt(ttl) ELSE rows[k])

SetIfNotExists(k, ttl) ==
  Statement(k, IF rows[k] = NoRow \/ (rows[k] # Never /\ rows[k] < now)
                 THEN ExpiresAt(ttl) ELSE rows[k])

\* BucketStore::incr: the entry never expires afterwards.
Incr(k) == Statement(k, Never)

\* BucketStore::del and del_many on the live rows among ks; the op resumes later.
Del(ks) ==
  /\ ops < MaxOps /\ ops' = ops + 1
  /\ LET removed == ks \cap LiveKeys
     IN /\ rows' = [k \in Keys |-> IF k \in removed THEN NoRow ELSE rows[k]]
        /\ deleting' = IF removed # {} THEN deleting + 1 ELSE deleting
  /\ UNCHANGED now /\ Owed
  /\ UNCHANGED <<state, used_storage, waiting, admitted, fails, restarts, grace>>

\* The op resumes: "re-check in case were at the limti".
DelResumes ==
  /\ deleting > 0 /\ deleting' = deleting - 1
  /\ hit_limit' = FALSE
  /\ grace' = IF hit_limit THEN grace + 1 ELSE grace
  /\ UNCHANGED <<store, requests_until_limit_check, doing_limit_check, used_storage,
                 waiting, admitted, listing, ops, fails, restarts>>

\* The job that clears left guilds calls delete_guild_bucket_store_data.
DeleteGuildData ==
  /\ ops < MaxOps /\ ops' = ops + 1
  /\ rows' = [k \in Keys |-> NoRow]
  /\ UNCHANGED now /\ Owed
  /\ UNCHANGED <<state, tasks, fails, restarts, grace>>

Rank(k) == Cardinality({j \in LiveKeys : j <= k})

\* Slip: the pages go by the number of rows to skip.
PageByOffset(after) == {k \in LiveKeys : Rank(k) \in (after + 1)..(after + PageSize)}

\* BucketStore::get_many: "key > $4 ... ORDER BY ... LIMIT"
Page(after) ==
  {k \in LiveKeys : k > after /\ Cardinality({j \in LiveKeys : after < j /\ j <= k}) <= PageSize}

ListStarts ==
  /\ ops < MaxOps /\ ops' = ops + 1
  /\ ~listing.on
  /\ listing' = [after |-> 0, owed |-> LiveKeys, on |-> TRUE]
  /\ UNCHANGED <<store, state, tasks, fails, restarts, grace>>

\* op_botloader_bucket_storage_list: the script gives the last key it got, and stops
\* at a page that is not full.
List ==
  LET page == Page(listing.after)
  IN /\ listing.on
     /\ listing' = [after |-> IF page = {} THEN listing.after
                              ELSE CHOOSE k \in page : \A j \in page : j <= k,
                    owed |-> listing.owed \ page,
                    on |-> Cardinality(page) = PageSize]
     /\ UNCHANGED <<store, state, tasks, bounds>>

-----------------------------------------------------------------------------

Tick ==
  /\ now < MaxNow /\ now' = now + 1
  /\ UNCHANGED rows /\ Owed
  /\ UNCHANGED <<state, tasks, bounds>>

\* The vm restarts: its isolate is dropped with the ops in it and the extension's
\* state is made anew; statements on their way to the database may still run.
VmRestarts ==
  /\ restarts < MaxRestarts /\ restarts' = restarts + 1
  /\ requests_until_limit_check' = 0 /\ doing_limit_check' = FALSE /\ hit_limit' = FALSE
  /\ used_storage' = NotChecking /\ waiting' = 0 /\ deleting' = 0
  /\ admitted' \in 0..admitted
  /\ listing' = NotListing
  /\ UNCHANGED <<store, ops, fails, grace>>

Next ==
  \/ Write \/ UsageRead \/ CheckDone \/ WaiterWakes
  \/ \E k \in Keys : \/ Incr(k)
                     \/ \E ttl \in BOOLEAN : Set(k, ttl) \/ SetIfExists(k, ttl) \/ SetIfNotExists(k, ttl)
  \/ \E ks \in SUBSET Keys : Del(ks)
  \/ DelResumes \/ DeleteGuildData
  \/ ListStarts \/ List
  \/ Tick \/ VmRestarts

Spec == Init /\ [][Next]_vars

-----------------------------------------------------------------------------
(* Properties *)

\* Every variable stays in its range; in particular a check never leaves more
\* admissions than CheckEvery behind, and no counter of writes goes below zero.
TypeOK ==
  /\ now \in Nat
  /\ rows \in [Keys -> {NoRow, Never} \cup Nat]
  /\ requests_until_limit_check \in 0..CheckEvery
  /\ doing_limit_check \in BOOLEAN /\ hit_limit \in BOOLEAN
  /\ used_storage \in {NotChecking, Sent, Failed} \cup Nat
  /\ waiting \in Nat /\ admitted \in Nat /\ deleting \in Nat
  /\ listing \in [after : Keys \cup {0}, owed : SUBSET Keys, on : BOOLEAN]
  /\ ops \in Nat /\ fails \in Nat /\ restarts \in Nat /\ grace \in Nat

\* The storage limit is overrun by no more than what one check admits and two
\* rounds of the writes under way; a failed check, and a delete that lifts a
\* refusal, each let in the writes that wait at that moment once more.
QuotaBounded ==
  Usage < Limit + CheckEvery + 2 * MaxTasks - 1 + grace * (MaxTasks - 1)

\* A script that reads a bucket page by page gets every entry that is there from
\* the first page to the last, whatever is written and deleted between the pages.
ListComplete ==
  \A k \in listing.owed : listing.on /\ k > listing.after

=============================================================================
