------------------------------- MODULE TdsMap -------------------------------
(***************************************************************************)
(* The arrays of tinycsocket: tds_ulist, an array that grows by doubling   *)
(* and shrinks with hysteresis, and tds_map, two of them that share one    *)
(* count and one capacity.  Elements are removed by moving the last one    *)
(* into their place.                                                       *)
(*                                                                         *)
(* An operation returns [sts, to]: its status and what it leaves behind,   *)
(* also when it fails half way.  works says whether realloc succeeds,      *)
(* should it be called.                                                    *)
(***************************************************************************)
EXTENDS Integers, Sequences

CONSTANT MinimumCapacity        \* MINIMUM_CAPACITY

MinimumCapacityAssumption == MinimumCapacity \in Nat \ {0}

Returns(sts, to) == [sts |-> sts, to |-> to]

\* The least of the capacities that is enough, or the old one if it is twice
\* that.
tds_ulist_best_capacity_fit(old, new) ==
    LET fit == CHOOSE c \in {MinimumCapacity * 2^k : k \in 0 .. new} :
                  c >= new /\ (c > MinimumCapacity => c \div 2 < new)
    IN  IF 2 * fit = old THEN old ELSE fit

\* An array: its elements, the capacity its owner knows, and the room it has.
NewList == [data |-> << >>, capacity |-> MinimumCapacity, room |-> MinimumCapacity]

With(list, data) == [data |-> data, capacity |-> list.capacity, room |-> list.room]

tds_ulist_reserve(list, requested, works) ==
    LET capacity == tds_ulist_best_capacity_fit(list.capacity, requested)
    IN  IF capacity = list.capacity THEN Returns(0, list)
        ELSE IF works THEN Returns(0, [data |-> list.data, capacity |-> capacity, room |-> capacity])
        ELSE Returns(-1, list)

tds_ulist_add(list, x, works) ==
    LET count == Len(list.data)
        reserved == IF count + 1 > list.capacity THEN tds_ulist_reserve(list, count + 1, works)
                    ELSE Returns(0, list)
    IN  IF reserved.sts # 0 THEN reserved
        ELSE Returns(0, With(reserved.to, Append(list.data, x)))

\* The last element takes the place of the one at i.
Moved(data, i) == SubSeq([data EXCEPT ![i] = data[Len(data)]], 1, Len(data) - 1)

tds_ulist_remove(list, i, works) ==
    IF i \notin DOMAIN list.data THEN Returns(-1, list)
    ELSE LET moved == With(list, Moved(list.data, i))
             count == Len(moved.data)
         IN  IF count < list.capacity \div 2 THEN tds_ulist_reserve(moved, count, works)
             ELSE Returns(0, moved)

-----------------------------------------------------------------------------
\* A map: keys and values are the elements up to count.
NewMap ==
    [keys |-> << >>, values |-> << >>, capacity |-> MinimumCapacity,
     key_room |-> MinimumCapacity, value_room |-> MinimumCapacity]

Keys(map) == [data |-> map.keys, capacity |-> map.capacity, room |-> map.key_room]
Values(map) == [data |-> map.values, capacity |-> map.capacity, room |-> map.value_room]

\* What a call that fails leaves of the map, and one that does not.
WithRooms(map, keys, values) ==
    [keys |-> map.keys, values |-> map.values, capacity |-> map.capacity,
     key_room |-> keys.room, value_room |-> values.room]

MapOf(keys, values) ==
    [keys |-> keys.data, values |-> values.data, capacity |-> keys.capacity,
     key_room |-> keys.room, value_room |-> values.room]

tds_map_add(map, key, value, key_works, value_works) ==
    LET keys == tds_ulist_add(Keys(map), key, key_works)
        values == tds_ulist_add(Values(map), value, value_works)
    IN  IF keys.sts # 0 \/ values.sts # 0 \/ keys.to.capacity # values.to.capacity
        THEN Returns(-1, WithRooms(map, keys.to, values.to))
        ELSE Returns(0, MapOf(keys.to, values.to))

\* After a failure the count is the old one: the moved element is there twice.
tds_map_remove(map, i, key_works, value_works) ==
    IF i \notin DOMAIN map.keys THEN Returns(-1, map)
    ELSE LET keys == tds_ulist_remove(Keys(map), i, key_works)
             values == tds_ulist_remove(Values(map), i, value_works)
             left == WithRooms(map, keys.to, values.to)
             n == Len(map.keys)
         IN  IF keys.sts # 0 \/ values.sts # 0
             THEN Returns(-2, [left EXCEPT !.keys[i] = map.keys[n], !.values[i] = map.values[n]])
             ELSE Returns(0, MapOf(keys.to, values.to))

=============================================================================
