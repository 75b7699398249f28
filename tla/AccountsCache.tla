--------------------------- MODULE AccountsCache ---------------------------
(***************************************************************************)
(* src/src/accounts_cache.rs: the map from account keys to the last state  *)
(* fetched for them, and the broadcast channel that tells the providers    *)
(* which key was written.  The keys are the ones interactive_cli.rs puts   *)
(* together at start-up: four per market, the cypher group and the user.   *)
(*                                                                         *)
(* The state of an account is the account's key and the number of the RPC  *)
(* answer it came from; its bytes are not modelled.                        *)
(***************************************************************************)
EXTENDS BroadcastChannel

CONSTANTS
  Markets,        \* the markets that were prepared at start-up
  GroupKey,       \* cypher_group_pk
  UserKey,        \* cypher_user_pk
  MarketKey,      \* MarketKey[m]: dex_market_pk of market m
  BidsKey,        \* BidsKey[m]
  AsksKey,        \* AsksKey[m]
  OpenOrdersKey,  \* OpenOrdersKey[m]: the user's open orders account on m
  Providers,      \* the provider tasks that listen for keys
  KeyCap,         \* messages the key channel retains (65536 in the build)
  None

Key == {GroupKey, UserKey}
         \cup {MarketKey[m] : m \in Markets} \cup {OpenOrdersKey[m] : m \in Markets}
         \cup {BidsKey[m] : m \in Markets} \cup {AsksKey[m] : m \in Markets}

AccountState == [key : Key, snap : Nat \ {0}]

ASSUME CacheAssumption ==
  /\ KeyCap \in Nat \ {0}
  /\ None \notin Key /\ None \notin AccountState

VARIABLES
  cache,   \* cache[k]: the AccountState stored under k, or None
  keyRx    \* keyRx[p]: provider p's Receiver of written keys

cacheVars == <<cache, keyRx>>

CacheTypeOK ==
  /\ cache \in [Key -> AccountState \cup {None}]
  /\ keyRx \in [Providers -> RxOf(Key)]

CacheInit ==
  /\ cache = [k \in Key |-> None]
  /\ keyRx = [p \in Providers |-> EmptyRx]

\* insert(): the two statements of the function.  The map is written whatever
\* it held before (the slots are not compared); the DashMap shard is locked
\* for the write only, so a provider may run between the two.
MapInsert(k, account) == cache' = [cache EXCEPT ![k] = account]

Notify(k) == keyRx' = [p \in Providers |-> Push(keyRx[p], k, KeyCap)]
============================================================================
