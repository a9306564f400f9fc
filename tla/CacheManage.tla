----------------------------- MODULE CacheManage -----------------------------
(***************************************************************************)
(* cache_manage: a pool of objects, each in use by one track or free, as   *)
(* operators on a record: the object of each track (0 for none), the free  *)
(* ones in the order they were given back, and how many were ever made.    *)
(***************************************************************************)
EXTENDS Naturals, Sequences

CONSTANTS Track,         \* the url ids
          MaxCacheCount  \* _max_cache_count: objects kept for reuse

ASSUME MaxCacheAssumption == MaxCacheCount \in Nat

NoPool == [used |-> [t \in Track |-> 0], free |-> <<>>, made |-> 0]

PoolType(n) == [used : [Track -> 0 .. n], free : Seq(1 .. n), made : 0 .. n]

is_in_cache(pool, t) == pool.used[t] # 0

\* get_cache_helper(): a free object, or a new one
get_cache_helper(pool) == IF pool.free = <<>> THEN pool.made + 1 ELSE Head(pool.free)

\* get_from_cache() with a function to create: the pool in which t has an object.
get_from_cache(pool, t) ==
  IF is_in_cache(pool, t) THEN pool
    ELSE [used |-> [pool.used EXCEPT ![t] = get_cache_helper(pool)],
          free |-> IF pool.free = <<>> THEN <<>> ELSE Tail(pool.free),
          made |-> IF pool.free = <<>> THEN pool.made + 1 ELSE pool.made]

\* put_cache_back(): the object is free again, or dropped.
put_cache_back(pool, t) ==
  IF ~is_in_cache(pool, t) THEN pool
    ELSE [pool EXCEPT !.used[t] = 0,
                      !.free = IF Len(@) < MaxCacheCount THEN Append(@, pool.used[t]) ELSE @]

\* reset(): every object is dropped.
reset(pool) == [NoPool EXCEPT !.made = pool.made]
=============================================================================
