-------------------------- MODULE MemoryCapability --------------------------
(***************************************************************************)
(* lion_capability/src/model/memory.rs: address ranges, kept in a BTreeMap *)
(* under their base address; a second range with the same base replaces    *)
(* the first.  Addresses are small enough that base + size does not wrap.  *)
(***************************************************************************)
EXTENDS Naturals, Sequences, SequencesExt

MemoryRange(base, size, ops) == [base |-> base, size |-> size, mops |-> ops]

Cap(ranges) == [kind |-> "memory", ranges |-> ranges]

End(r) == r.base + r.size

overlaps(r, s) == r.base < End(s) /\ s.base < End(r)

contains_range(r, s) == r.base <= s.base /\ End(r) >= End(s)

intersect(r, s) ==
  LET base == IF r.base > s.base THEN r.base ELSE s.base
      end  == IF End(r) < End(s) THEN End(r) ELSE End(s)
  IN  IF overlaps(r, s) /\ r.mops \cap s.mops # {}
        THEN {MemoryRange(base, end - base, r.mops \cap s.mops)}
        ELSE {}

(* BTreeMap::insert under the base, and the values in the order of keys. *)
insert(ranges, r) == {s \in ranges : s.base # r.base} \cup {r}

Ordered(ranges) == SetToSortSeq(ranges, LAMBDA r, s : r.base < s.base)

FromVec(vec) == Cap(FoldLeft(insert, {}, vec))

(* The ranges that touch the request are gone through by base until they   *)
(* reach its end: one that starts beyond what is covered so far or lacks   *)
(* an operation refuses the request, even where another range has it.      *)
Permits(c, r) ==
  LET request == MemoryRange(r.addr, r.size, r.mops)
      touched == Ordered({s \in c.ranges : overlaps(s, request)})
      covered == [n \in 0..Len(touched) |->
                    FoldLeft(LAMBDA e, s : IF End(s) > e THEN End(s) ELSE e,
                             r.addr, SubSeq(touched, 1, n))]
      Accepts(n) == touched[n].base <= covered[n - 1] /\ r.mops \subseteq touched[n].mops
  IN  /\ r.kind = "memory"
      /\ \/ r.size = 0
         \/ \E n \in 1..Len(touched) :
              covered[n] >= End(request) /\ \A m \in 1..n : Accepts(m)

Constrain(c, k) ==
  LET request  == MemoryRange(k.base, k.size, k.mops)
      touched  == Ordered({s \in c.ranges : overlaps(s, request)})
      narrowed == FlattenSeq([n \in 1..Len(touched) |->
                                SetToSeq(intersect(touched[n], request))])
  IN  IF narrowed = <<>> THEN {} ELSE {FromVec(narrowed)}

Split(c) == {Cap({r}) : r \in c.ranges}

(* Every range of d replaces the ranges it overlaps, one by one, by the    *)
(* hull of the two with the operations of both; two hulls with the same    *)
(* base leave the second.                                                  *)
Hull(r, s) ==
  LET base == IF r.base < s.base THEN r.base ELSE s.base
      end  == IF End(r) > End(s) THEN End(r) ELSE End(s)
  IN  MemoryRange(base, end - base, r.mops \cup s.mops)

Merge(ranges, r) ==
  LET found == Ordered({s \in ranges : overlaps(s, r)})
      Absorb(rs, s) == IF s.base \in {q.base : q \in rs}
                         THEN LET q == CHOOSE q \in rs : q.base = s.base
                              IN  insert(rs \ {q}, Hull(q, r))
                         ELSE rs
  IN  IF found = <<>> THEN insert(ranges, r) ELSE FoldLeft(Absorb, ranges, found)

Join(c, d) == {Cap(FoldLeft(Merge, c.ranges, Ordered(d.ranges)))}

Leq(c, d) ==
  \A r \in c.ranges : \E s \in d.ranges : contains_range(s, r) /\ r.mops \subseteq s.mops

Meet(c, d) ==
  LET cs == Ordered(c.ranges)
      ds == Ordered(d.ranges)
      both == FlattenSeq([i \in 1..Len(cs) |->
                FlattenSeq([j \in 1..Len(ds) |-> SetToSeq(intersect(cs[i], ds[j]))])])
  IN  IF both = <<>> THEN {} ELSE {FromVec(both)}
=============================================================================
