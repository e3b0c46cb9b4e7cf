------------------------------ MODULE Listing ------------------------------
(***************************************************************************)
(* What the workspace's lists have in common: sorting by one key after     *)
(* another, and cutting into pages.                                        *)
(***************************************************************************)
EXTENDS Integers, Sequences, FiniteSets

AtMost(m, n) == IF m < n THEN m ELSE n

AtLeast(m, n) == IF m < n THEN n ELSE m

\* The first difference decides.
Precedes(s, t) ==
  \E i \in DOMAIN s : s[i] < t[i] /\ \A k \in 1..(i - 1) : s[k] = t[k]

\* The members of S in the order of their keys, which all differ.
InOrder(S, key) ==
  LET before == [x \in S |-> Cardinality({y \in S : Precedes(key[y], key[x])})] IN
  [k \in 1..Cardinality(S) |-> CHOOSE x \in S : before[x] = k - 1]

\* The items of a list at some of its places.
PartOf(list, places) ==
  LET at == InOrder(places, [i \in places |-> <<i>>]) IN [k \in DOMAIN at |-> list[at[k]]]

FirstOf(list, n) == SubSeq(list, 1, AtMost(n, Len(list)))

MembersOf(list) == {list[i] : i \in DOMAIN list}

PageItems(list, limit, page) ==
  LET start == (page - 1) * limit
  IN {list[i] : i \in (start + 1)..AtMost(start + limit, Len(list))}

PageCount(list, limit) == AtLeast(1, (Len(list) + limit - 1) \div limit)
=============================================================================
