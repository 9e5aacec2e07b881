----------------------------- MODULE LinearSet ------------------------------
(***************************************************************************)
(* linear_set.h and linear_map.h: a set, or a map, kept as a sorted vector. *)
(* An element is a pair <<key, value>> compared by its key, as linear_map  *)
(* does; a linear_set has one value.                                       *)
(*                                                                         *)
(* Two ghosts: map is what std::set or std::map would hold, which keep the *)
(* element they have when an equal one is inserted; again is where the     *)
(* vector does not, the elements a merged range put in place of others.    *)
(***************************************************************************)
EXTENDS Naturals, Sequences

CONSTANTS
  MaxKey,       \* the keys are 1..MaxKey
  Values,
  Ranges,       \* what may be inserted as a range, or be made a container of
  Orders,       \* the permutations of the positions of each of them
  MaxOther      \* bound: the elements of the second container

VARIABLES
  data,         \* the vector
  other,        \* that of another container of the type
  call,         \* "none", or the loop of insert(first, last) that runs: "each", "merge"
  tmp, newvect, \* of that function
  l, r,         \* where it is in data and in tmp
  map, again,   \* ghosts: what std::set would hold, and what replaced some of it
  result        \* the last call of insert(): <<position returned, key>>

loop == <<call, tmp, newvect, l, r>>
vars == <<data, other, loop, map, again, result>>

Keys == 1..MaxKey
Element(k, v) == <<k, v>>
less(a, b) == a[1] < b[1]
None == <<0, 0>>

Init ==
  /\ data = <<>> /\ other = <<>> /\ map = {} /\ again = {} /\ result = None
  /\ call = "none" /\ tmp = <<>> /\ newvect = <<>> /\ l = 1 /\ r = 1

Contents(s) == {s[i] : i \in DOMAIN s}
End(s) == Len(s) + 1
\* The vector is partitioned by any key, and binary search finds the boundaries.
Boundary(s, Before(_)) ==
  CHOOSE i \in 1..End(s) : (\A j \in 1..(i - 1) : Before(s[j])) /\ \A j \in i..Len(s) : ~Before(s[j])
lower_bound(s, k) == LET Before(e) == e[1] < k IN Boundary(s, Before)
upper_bound(s, k) == LET Before(e) == e[1] <= k IN Boundary(s, Before)
equal_range(s, k) == <<lower_bound(s, k), upper_bound(s, k)>>
find(s, k) ==
  LET f == lower_bound(s, k) IN IF f # End(s) /\ ~(k < s[f][1]) THEN f ELSE End(s)
contains(s, k) == find(s, k) # End(s)
count(s, k) == IF contains(s, k) THEN 1 ELSE 0

InsertAt(s, i, e) == SubSeq(s, 1, i - 1) \o <<e>> \o SubSeq(s, i, Len(s))

\* <<position, whether the key is new>>
find_exists(s, e) ==
  LET where == lower_bound(s, e[1]) IN <<where, where = End(s) \/ less(e, s[where])>>
\* Fault: the new element goes behind the one the search ended at.
WithBehind(s, e) ==
  LET f == find_exists(s, e)
      at == IF f[1] = End(s) THEN f[1] ELSE f[1] + 1
  IN IF f[2] THEN InsertAt(s, at, e) ELSE s

\* insert() of one element: an existing one is kept.
With(s, e) == LET f == find_exists(s, e) IN IF f[2] THEN InsertAt(s, f[1], e) ELSE s

\* What set and map semantics make of new elements, and of keys that are erased.
Keeping(m, new) == m \cup {e \in new : \A d \in m : d[1] # e[1]}
Replacing(m, new) == Keeping(new, m)
Without(m, keys) == {e \in m : e[1] \notin keys}
\* The ghosts when elements are inserted, keys erased, and all is set anew.
Gain(new) == map' = Keeping(map, new) /\ UNCHANGED again
Forget(keys) == map' = Without(map, keys) /\ again' = Without(again, keys)
Become(m) == map' = m /\ again' = {}

Insert(e) ==
  /\ data' = With(data, e) /\ Gain({e})
  /\ result' = <<find_exists(data, e)[1], e[1]>> /\ UNCHANGED other

\* operator[] of the map inserts a default and the caller assigns to it.
Default == CHOOSE v \in Values : TRUE
Assign(e) ==
  LET f == find_exists(data, Element(e[1], Default))
  IN /\ data' = [With(data, Element(e[1], Default)) EXCEPT ![f[1]] = e]
     /\ map' = Replacing(map, {e}) /\ again' = Without(again, {e[1]})
     /\ result' = <<f[1], e[1]>> /\ UNCHANGED other

\* What std::sort() may make of a vector: equal elements in any order.
Permuted(s) == {[i \in 1..Len(s) |-> s[p[i]]] : p \in {q \in Orders : DOMAIN q = DOMAIN s}}
Sorts(s) == {u \in Permuted(s) : \A i, j \in DOMAIN u : i < j => ~less(u[j], u[i])}

Few == 5
\* insert(first, last): short ranges one by one, others by a merge into a new vector.
RangeInsert(s) ==
  /\ IF Len(s) < Few
     THEN call' = "each" /\ tmp' = s /\ UNCHANGED again
     ELSE /\ call' = "merge" /\ tmp' \in Sorts(s)
          /\ again' = Without(again, {e[1] : e \in Contents(s)})
                        \cup {e \in Contents(s) \ map : \E d \in map : d[1] = e[1]}
  /\ map' = Keeping(map, Contents(s))
  /\ result' = None /\ UNCHANGED <<data, other, newvect, l, r>>

InsertNext ==
  /\ call = "each" /\ r <= Len(tmp)
  /\ data' = With(data, tmp[r]) /\ r' = r + 1
  /\ UNCHANGED <<other, call, tmp, newvect, l, map, again, result>>

MoreOld == l <= Len(data)
MoreNew == r <= Len(tmp)
TakeOld ==
  /\ call = "merge" /\ MoreOld /\ (MoreNew => less(data[l], tmp[r]))
  /\ newvect' = Append(newvect, data[l]) /\ l' = l + 1
  /\ UNCHANGED <<data, other, call, tmp, r, map, again, result>>
\* Of two equal elements that of the range is taken.
TakeNew ==
  /\ call = "merge" /\ MoreNew /\ (MoreOld => ~less(data[l], tmp[r]))
  /\ newvect' = Append(newvect, tmp[r]) /\ r' = r + 1
  /\ l' = IF MoreOld /\ ~less(tmp[r], data[l]) THEN l + 1 ELSE l
  /\ UNCHANGED <<data, other, call, tmp, map, again, result>>

RangeDone ==
  /\ call # "none" /\ ~MoreNew /\ (call = "merge" => ~MoreOld)
  /\ data' = IF call = "merge" THEN newvect ELSE data
  /\ call' = "none" /\ tmp' = <<>> /\ newvect' = <<>> /\ l' = 1 /\ r' = 1
  /\ UNCHANGED <<other, map, again, result>>

\* erase() of an iterator, of two, and of a key.
EraseFrom(i, n) == data' = SubSeq(data, 1, i - 1) \o SubSeq(data, i + n, Len(data))
EraseRange(i, n) ==
  EraseFrom(i, n) /\ Forget({data[j][1] : j \in i..(i + n - 1)}) /\ result' = None /\ UNCHANGED other
EraseKey(k) ==
  /\ IF contains(data, k) THEN EraseFrom(lower_bound(data, k), 1) ELSE UNCHANGED data
  /\ Forget({k}) /\ result' = None /\ UNCHANGED other

Clear == data' = <<>> /\ Become({}) /\ result' = None /\ UNCHANGED other

\* Construction from a range, an initializer list or a vector, and swap() with a vector: sorted only.
FromVector(s) == data' \in Sorts(s) /\ Become(Contents(s)) /\ result' = None /\ UNCHANGED other

SwapOther ==
  /\ Len(data) <= MaxOther
  /\ data' = other /\ other' = data /\ Become(Contents(other)) /\ result' = None
CopyToOther == Len(data) <= MaxOther /\ other' = data /\ UNCHANGED <<data, map, again>> /\ result' = None
\* Move construction and assignment: the vector changes hands.
MoveFromOther == data' = other /\ other' = <<>> /\ Become(Contents(other)) /\ result' = None

Call ==
  \/ \E k \in Keys, v \in Values :
       \/ Insert(Element(k, v))
       \/ Assign(Element(k, v))
  \/ \E k \in Keys : EraseKey(k)
  \/ \E s \in Ranges : FromVector(s)
  \/ \E i \in DOMAIN data : \E n \in 1..(Len(data) - i + 1) : EraseRange(i, n)
  \/ Clear
  \/ SwapOther
  \/ CopyToOther
  \/ MoveFromOther

Next ==
  \/ call = "none" /\ Call /\ UNCHANGED loop
  \/ call = "none" /\ \E s \in Ranges : RangeInsert(s)
  \/ InsertNext
  \/ TakeOld
  \/ TakeNew
  \/ RangeDone

Spec == Init /\ [][Next]_vars

-----------------------------------------------------------------------------
\* What the vector holds in the place of std::set's elements.
Held == Replacing(map, again)

\* After any calls the vector is sorted without an equal pair and holds what
\* std::set or std::map would, except that an element of a merged range replaced
\* the one of its key: every lookup agrees with that, and what insert() returned
\* is the element of its key.  That needs ranges without equal elements: those of
\* five or more, and what a constructor is given, are not freed of them.
Ordered(s) == \A i, j \in DOMAIN s : i < j => less(s[i], s[j])
LookupsAgree ==
  \A k \in Keys :
    LET here == {e \in Held : e[1] = k}
        range == equal_range(data, k)
    IN /\ count(data, k) = IF here = {} THEN 0 ELSE 1
       /\ {data[i] : i \in range[1]..(range[2] - 1)} = here
       /\ here # {} => data[find(data, k)] \in here
SetAgrees ==
  call = "none" =>
    /\ Ordered(data) /\ Contents(data) = Held /\ LookupsAgree
    /\ result # None => data[result[1]][1] = result[2]

\* "Implements std::set but all items are sorted in a vector" (linear_set.h:21):
\* the vector holds what std::set would.
ImplementsSet == call = "none" => Contents(data) = map
=============================================================================
