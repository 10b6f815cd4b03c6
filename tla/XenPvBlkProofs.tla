--------------------------- MODULE XenPvBlkProofs ---------------------------
(***************************************************************************)
(* The safety of the Xen block frontend over the grant table, for every    *)
(* size of the table, of the ring, of a page and of a request: an          *)
(* inductive invariant of XenPvBlk and the theorems that follow from it.   *)
(***************************************************************************)
EXTENDS XenPvBlk, FiniteSetTheorems, SequenceTheorems, WellFoundedInduction, TLAPS

-----------------------------------------------------------------------------
(* Induction up to a bound, over a set and for recursive functions.        *)

\* A nonempty set of naturals has a least member.
LEMMA LeastNat ==
    ASSUME NEW S, S \subseteq Nat, S # {}
    PROVE  \E x \in S : \A y \in S : x <= y
  <1>1. \E x \in S : \A y \in S : ~ (<<y, x>> \in OpToRel(<, Nat))
    BY WFMin, NatLessThanWellFounded, Zenon
  <1>2. \A x, y \in Nat : (<<y, x>> \in OpToRel(<, Nat)) <=> y < x
    BY DEF OpToRel
  <1>3. \E x \in S : \A y \in S : ~ (y < x)
    BY <1>1, <1>2, Zenon
  <1>. QED
    BY <1>3

\* A set that is closed under the successor contains everything up to the bound.
LEMMA UpTo ==
    ASSUME NEW n \in Nat, NEW S, 0 \in S, \A k \in 1 .. n : k - 1 \in S => k \in S
    PROVE  \A k \in 0 .. n : k \in S
  <1>. DEFINE missing == {k \in 0 .. n : k \notin S}
  <1>1. SUFFICES ASSUME missing # {} PROVE FALSE
    OBVIOUS
  <1>2. PICK x \in missing : \A y \in missing : x <= y
    <2>1. missing \subseteq Nat
      OBVIOUS
    <2>. HIDE DEF missing
    <2>. QED
      BY <1>1, <2>1, LeastNat
  <1>3. x \in 1 .. n /\ x - 1 \in 0 .. n /\ x \notin S
    BY <1>2
  <1>4. x - 1 \in S
    BY <1>2, <1>3
  <1>. QED
    BY <1>3, <1>4

\* A function whose values are computed from the one before exists.
Recursive(G, g0, n, step) == g0 \in G /\ n \in Nat /\ step \in [1 .. n -> [G -> G]]
Computed(G, g0, n, step) ==
    \E f \in [0 .. n -> G] : f[0] = g0 /\ \A k \in 1 .. n : f[k] = step[k][f[k - 1]]

LEMMA Recursion ==
    ASSUME NEW G, NEW g0, NEW n, NEW step, Recursive(G, g0, n, step)
    PROVE  Computed(G, g0, n, step)
  <1>. USE DEF Recursive, Computed
  <1>. DEFINE Good(f, m) == f \in [0 .. m -> G] /\ f[0] = g0
                            /\ \A k \in 1 .. m : f[k] = step[k][f[k - 1]]
              S == {m \in 0 .. n : \E f : Good(f, m)}
  <1>1. 0 \in S
    <2>1. Good([k \in 0 .. 0 |-> g0], 0)
      OBVIOUS
    <2>. HIDE DEF Good
    <2>. QED
      BY <2>1
  <1>2. ASSUME NEW m \in 1 .. n, m - 1 \in S PROVE m \in S
    <2>1. PICK f : Good(f, m - 1)
      BY <1>2
    <2>. DEFINE h == [k \in 0 .. m |-> IF k = m THEN step[m][f[m - 1]] ELSE f[k]]
    <2>2. m - 1 \in 0 .. m - 1 /\ f[m - 1] \in G
      BY <2>1
    <2>3. step[m][f[m - 1]] \in G
      BY <2>2
    <2>4. /\ h \in [0 .. m -> G] /\ h[0] = g0 /\ h[m] = step[m][f[m - 1]]
          /\ \A k \in 0 .. m - 1 : h[k] = f[k]
      BY <2>1, <2>3
    <2>. HIDE DEF h
    <2>5. ASSUME NEW k \in 1 .. m PROVE h[k] = step[k][h[k - 1]]
      <3>1. CASE k = m
        BY <2>4, <3>1
      <3>2. CASE k # m
        <4>1. k \in 1 .. m - 1 /\ k \in 0 .. m - 1 /\ k - 1 \in 0 .. m - 1
          BY <3>2
        <4>. QED
          BY <2>1, <2>4, <4>1
      <3>. QED
        BY <3>1, <3>2
    <2>6. Good(h, m)
      BY <2>4, <2>5
    <2>. HIDE DEF Good
    <2>. QED
      BY <2>6
  <1>3. n \in S
    <2>. HIDE DEF S
    <2>1. \A k \in 0 .. n : k \in S
      BY <1>1, <1>2, UpTo
    <2>. QED
      BY <2>1
  <1>. QED
    BY <1>3

-----------------------------------------------------------------------------
(* The grant table: the free list and the entries in use.                  *)

Entries == 0 .. NR_GRANT_ENTRIES - 1
Entry   == [frame : Int, permit : BOOLEAN, mapped : BOOLEAN]
Grants  == [list : [Entries -> Entries], entry : [Refs -> Entry]]

Permitted(g) == {ref \in Refs : g.entry[ref].permit}

\* s is the free list from its head on; what follows its last element does not matter.
FreeList(g, s) ==
    /\ s \in Seq(Refs)
    /\ \A i, j \in 1 .. Len(s) : s[i] = s[j] => i = j
    /\ Len(s) > 0 => g.list[0] = s[1]
    /\ \A i \in 1 .. Len(s) - 1 : g.list[s[i]] = s[i + 1]

\* The free list has the references that are not in use, each once.
Listed(g) ==
    \E s : FreeList(g, s) /\ \A ref \in Refs : ref \notin Permitted(g) <=>
                                                  \E i \in 1 .. Len(s) : s[i] = ref

\* References are entries, and 0, the head of the list, is none.
LEMMA RefsAre ==
    /\ Refs \subseteq Entries /\ 0 \in Entries /\ 0 \notin Refs
    /\ \A ref \in Refs : ref \in Nat /\ ref > 0
    /\ IsFiniteSet(Refs) /\ Cardinality(Refs) = NR_GRANT_ENTRIES - NR_RESERVED_ENTRIES
  <1>1. /\ NR_RESERVED_ENTRIES \in Int /\ NR_GRANT_ENTRIES - 1 \in Int
        /\ ~(NR_RESERVED_ENTRIES > NR_GRANT_ENTRIES - 1)
        /\ NR_GRANT_ENTRIES - 1 - NR_RESERVED_ENTRIES + 1 = NR_GRANT_ENTRIES - NR_RESERVED_ENTRIES
    BY GrantAssumption
  <1>2. IsFiniteSet(Refs) /\ Cardinality(Refs) = NR_GRANT_ENTRIES - NR_RESERVED_ENTRIES
    BY <1>1, FS_Interval DEF Refs
  <1>. QED
    BY <1>2, GrantAssumption DEF Refs, Entries

\* XenGrantTableGrantAccess(), field by field.
LEMMA GrantAccess ==
    ASSUME NEW g \in Grants, NEW frame \in Int
    PROVE  LET h   == XenGrantTableGrantAccess(g, frame)
               ref == NextFree(g)
           IN  /\ h \in Grants
               /\ h.list[0] = g.list[ref] /\ \A i \in Entries \ {0} : h.list[i] = g.list[i]
               /\ \A r \in Refs \ {ref} : h.entry[r] = g.entry[r]
               /\ ref \in Refs =>
                     h.entry[ref] = [frame |-> frame, permit |-> TRUE, mapped |-> FALSE]
  <1>. DEFINE ref == NextFree(g)
              h   == XenGrantTableGrantAccess(g, frame)
              e   == [frame |-> frame, permit |-> TRUE, mapped |-> FALSE]
  <1>1. /\ g.list \in [Entries -> Entries] /\ g.entry \in [Refs -> Entry]
        /\ g.list[0] \in Entries /\ ref = g.list[0] /\ g.list[ref] \in Entries
    BY RefsAre DEF Grants, NextFree
  <1>2. h = [list |-> [g.list EXCEPT ![0] = g.list[ref]], entry |-> [g.entry EXCEPT ![ref] = e]]
    BY DEF XenGrantTableGrantAccess
  <1>3. h.list = [g.list EXCEPT ![0] = g.list[ref]] /\ h.entry = [g.entry EXCEPT ![ref] = e]
    BY <1>2
  <1>. HIDE DEF h, ref
  <1>4. e \in Entry
    BY DEF Entry
  <1>. HIDE DEF e
  <1>5. h.list \in [Entries -> Entries]
    BY <1>1, <1>3
  <1>6. h.entry \in [Refs -> Entry]
    BY <1>1, <1>3, <1>4
  <1>7. h \in Grants
    BY <1>2, <1>3, <1>5, <1>6 DEF Grants
  <1>8. h.list[0] = g.list[ref] /\ \A i \in Entries \ {0} : h.list[i] = g.list[i]
    BY <1>1, <1>3, RefsAre
  <1>9. (\A r \in Refs \ {ref} : h.entry[r] = g.entry[r]) /\ (ref \in Refs => h.entry[ref] = e)
    BY <1>1, <1>3
  <1>. QED
    BY <1>7, <1>8, <1>9 DEF h, ref, e

\* XenGrantTableEndAccess() of an entry that is not mapped, field by field.
LEMMA EndAccess ==
    ASSUME NEW g \in Grants, NEW ref \in Refs
    PROVE  LET h == XenGrantTableEndAccess(g, ref)
           IN  /\ h \in Grants
               /\ g.entry[ref].mapped => h = g
               /\ ~g.entry[ref].mapped =>
                     /\ h.list[0] = ref /\ h.list[ref] = g.list[0]
                     /\ \A i \in Entries \ {0, ref} : h.list[i] = g.list[i]
                     /\ h.entry[ref] = Unused
                     /\ \A r \in Refs \ {ref} : h.entry[r] = g.entry[r]
  <1>. DEFINE h == XenGrantTableEndAccess(g, ref)
              m == [g EXCEPT !.entry[ref] = Unused]
  <1>1. CASE g.entry[ref].mapped
    BY <1>1 DEF XenGrantTableEndAccess
  <1>2. CASE ~g.entry[ref].mapped
    <2>1. /\ g.list \in [Entries -> Entries] /\ g.entry \in [Refs -> Entry]
          /\ g.list[0] \in Entries /\ ref \in Entries /\ ref # 0 /\ 0 \in Entries
      BY RefsAre DEF Grants
    <2>2. m.list = g.list /\ m.entry = [g.entry EXCEPT ![ref] = Unused]
          /\ m = [list |-> m.list, entry |-> m.entry]
      BY DEF Grants
    <2>3. h = [m EXCEPT !.list[ref] = m.list[0], !.list[0] = ref]
      BY <1>2 DEF XenGrantTableEndAccess, XenGrantTablePutFreeEntry
    <2>. HIDE DEF h, m
    <2>4. /\ h.list = [[g.list EXCEPT ![ref] = g.list[0]] EXCEPT ![0] = ref]
          /\ h.entry = m.entry /\ h = [list |-> h.list, entry |-> h.entry]
      BY <2>2, <2>3
    <2>5. h.list \in [Entries -> Entries]
      BY <2>1, <2>4
    <2>6. Unused \in Entry
      BY DEF Unused, Entry, NoFrame
    <2>7. h.entry \in [Refs -> Entry]
      BY <2>1, <2>2, <2>4, <2>6
    <2>8. h \in Grants
      BY <2>4, <2>5, <2>7 DEF Grants
    <2>9. /\ h.list[0] = ref /\ h.list[ref] = g.list[0]
          /\ \A i \in Entries \ {0, ref} : h.list[i] = g.list[i]
      BY <2>1, <2>4
    <2>10. h.entry[ref] = Unused /\ \A r \in Refs \ {ref} : h.entry[r] = g.entry[r]
      BY <2>1, <2>2, <2>4
    <2>. QED
      BY <1>2, <2>8, <2>9, <2>10 DEF h
  <1>. QED
    BY <1>1, <1>2

\* A free reference is taken from the list, and it was not in use.
LEMMA ListedAccess ==
    ASSUME NEW g \in Grants, NEW frame \in Int, Listed(g), Permitted(g) # Refs
    PROVE  LET h == XenGrantTableGrantAccess(g, frame)
           IN  /\ NextFree(g) \in Refs \ Permitted(g)
               /\ Listed(h) /\ Permitted(h) = Permitted(g) \cup {NextFree(g)}
  <1>. DEFINE h   == XenGrantTableGrantAccess(g, frame)
              ref == NextFree(g)
  <1>1. PICK s : FreeList(g, s) /\ \A r \in Refs : r \notin Permitted(g) <=>
                                                      \E i \in 1 .. Len(s) : s[i] = r
    BY DEF Listed
  <1>2. /\ s \in Seq(Refs) /\ Len(s) \in Nat
        /\ \A i, j \in 1 .. Len(s) : s[i] = s[j] => i = j
        /\ \A i \in 1 .. Len(s) : s[i] \in Refs
        /\ \A i \in 1 .. Len(s) - 1 : g.list[s[i]] = s[i + 1]
    BY <1>1 DEF FreeList
  <1>3. Len(s) > 0
    <2>1. PICK r \in Refs : r \notin Permitted(g)
      BY DEF Permitted
    <2>2. PICK i \in 1 .. Len(s) : s[i] = r
      BY <1>1, <2>1
    <2>. QED
      BY <1>2, <2>2
  <1>4. ref = s[1] /\ ref \in Refs \ Permitted(g)
    <2>1. 1 \in 1 .. Len(s)
      BY <1>2, <1>3
    <2>. QED
      BY <1>1, <1>2, <1>3, <2>1 DEF FreeList, NextFree
  <1>5. /\ h \in Grants
        /\ h.list[0] = g.list[ref] /\ \A i \in Entries \ {0} : h.list[i] = g.list[i]
        /\ \A r \in Refs \ {ref} : h.entry[r] = g.entry[r]
        /\ h.entry[ref].permit
    <2>1. /\ h \in Grants
          /\ h.list[0] = g.list[ref] /\ \A i \in Entries \ {0} : h.list[i] = g.list[i]
          /\ \A r \in Refs \ {ref} : h.entry[r] = g.entry[r]
          /\ h.entry[ref] = [frame |-> frame, permit |-> TRUE, mapped |-> FALSE]
      BY <1>4, GrantAccess, Zenon
    <2>. HIDE DEF h, ref
    <2>. QED
      BY <2>1
  <1>. DEFINE t == Tail(s)
  <1>6. /\ t \in Seq(Refs) /\ Len(t) = Len(s) - 1
        /\ \A i \in 1 .. Len(s) - 1 : t[i] = s[i + 1]
    BY <1>2, <1>3
  <1>. HIDE DEF h, ref, t
  <1>7. Permitted(h) = Permitted(g) \cup {ref}
    BY <1>4, <1>5 DEF Permitted
  <1>8. FreeList(h, t)
    <2>1. \A i, j \in 1 .. Len(t) : t[i] = t[j] => i = j
      <3>. SUFFICES ASSUME NEW i \in 1 .. Len(t), NEW j \in 1 .. Len(t), t[i] = t[j] PROVE i = j
        OBVIOUS
      <3>1. i + 1 \in 1 .. Len(s) /\ j + 1 \in 1 .. Len(s) /\ s[i + 1] = s[j + 1]
        BY <1>2, <1>6
      <3>2. i + 1 = j + 1
        BY <1>2, <3>1
      <3>. QED
        BY <3>2
    <2>2. Len(t) > 0 => h.list[0] = t[1]
      <3>. SUFFICES ASSUME Len(t) > 0 PROVE h.list[0] = t[1]
        OBVIOUS
      <3>1. 1 \in 1 .. Len(s) - 1
        BY <1>2, <1>6
      <3>. QED
        BY <1>2, <1>4, <1>5, <1>6, <3>1
    <2>3. ASSUME NEW i \in 1 .. Len(t) - 1 PROVE h.list[t[i]] = t[i + 1]
      <3>1. /\ i + 1 \in 1 .. Len(s) - 1 /\ i + 1 \in 1 .. Len(s) /\ i \in 1 .. Len(s) - 1
            /\ i + 1 \in 1 .. Len(s) - 1
        BY <1>2, <1>6, <2>3
      <3>2. t[i] = s[i + 1] /\ t[i + 1] = s[i + 1 + 1] /\ g.list[s[i + 1]] = s[i + 1 + 1]
        BY <1>2, <1>6, <3>1
      <3>3. s[i + 1] \in Entries \ {0}
        BY <1>2, <3>1, RefsAre
      <3>. QED
        BY <1>5, <3>2, <3>3
    <2>. QED
      BY <1>6, <2>1, <2>2, <2>3 DEF FreeList
  <1>9. ASSUME NEW r \in Refs
        PROVE  r \notin Permitted(h) <=> \E i \in 1 .. Len(t) : t[i] = r
    <2>1. ASSUME r \notin Permitted(h) PROVE \E i \in 1 .. Len(t) : t[i] = r
      <3>1. r \notin Permitted(g) /\ r # s[1]
        BY <1>4, <1>7, <2>1
      <3>2. PICK i \in 1 .. Len(s) : s[i] = r
        BY <1>1, <3>1
      <3>3. i # 1
        BY <3>1, <3>2
      <3>4. i - 1 \in 1 .. Len(s) - 1 /\ (i - 1) + 1 = i
        BY <1>2, <3>3
      <3>5. t[i - 1] = r
        BY <1>6, <3>2, <3>4
      <3>. QED
        BY <1>6, <3>4, <3>5
    <2>2. ASSUME NEW i \in 1 .. Len(t), t[i] = r PROVE r \notin Permitted(h)
      <3>1. i + 1 \in 1 .. Len(s) /\ s[i + 1] = r /\ 1 \in 1 .. Len(s) /\ i + 1 # 1
        BY <1>2, <1>6, <2>2
      <3>2. r # s[1]
        BY <1>2, <3>1
      <3>3. r \notin Permitted(g)
        BY <1>1, <3>1
      <3>. QED
        BY <1>4, <1>7, <3>2, <3>3
    <2>. QED
      BY <2>1, <2>2
  <1>10. Listed(h)
    BY <1>8, <1>9 DEF Listed
  <1>. QED
    BY <1>4, <1>7, <1>10 DEF h, ref

\* A reference in use goes back to the head of the list, unless the backend maps it.
LEMMA ListedEnd ==
    ASSUME NEW g \in Grants, Listed(g), NEW ref \in Permitted(g), ~g.entry[ref].mapped
    PROVE  LET h == XenGrantTableEndAccess(g, ref)
           IN  Listed(h) /\ Permitted(h) = Permitted(g) \ {ref}
  <1>. DEFINE h == XenGrantTableEndAccess(g, ref)
  <1>1. PICK s : FreeList(g, s) /\ \A r \in Refs : r \notin Permitted(g) <=>
                                                      \E i \in 1 .. Len(s) : s[i] = r
    BY DEF Listed
  <1>2. /\ s \in Seq(Refs) /\ Len(s) \in Nat
        /\ \A i, j \in 1 .. Len(s) : s[i] = s[j] => i = j
        /\ \A i \in 1 .. Len(s) : s[i] \in Refs
        /\ Len(s) > 0 => g.list[0] = s[1]
        /\ \A i \in 1 .. Len(s) - 1 : g.list[s[i]] = s[i + 1]
    BY <1>1 DEF FreeList
  <1>3. ref \in Refs
    BY DEF Permitted
  <1>4. /\ h.list[0] = ref /\ h.list[ref] = g.list[0]
        /\ \A i \in Entries \ {0, ref} : h.list[i] = g.list[i]
        /\ ~h.entry[ref].permit
        /\ \A r \in Refs \ {ref} : h.entry[r] = g.entry[r]
    BY <1>3, EndAccess DEF Unused
  <1>5. \A i \in 1 .. Len(s) : s[i] # ref /\ s[i] \in Entries \ {0, ref}
    BY <1>1, <1>2, <1>3, RefsAre
  <1>. DEFINE t == [i \in 1 .. Len(s) + 1 |-> IF i = 1 THEN ref ELSE s[i - 1]]
  <1>6. /\ t \in Seq(Refs) /\ Len(t) = Len(s) + 1
        /\ t[1] = ref /\ \A i \in 1 .. Len(s) : t[i + 1] = s[i]
    <2>1. t \in [1 .. Len(s) + 1 -> Refs]
      BY <1>2, <1>3
    <2>2. t \in Seq(Refs) /\ Len(t) = Len(s) + 1
      BY <1>2, <2>1
    <2>3. t[1] = ref /\ \A i \in 1 .. Len(s) : t[i + 1] = s[i]
      BY <1>2
    <2>. QED
      BY <2>2, <2>3
  <1>. HIDE DEF h, t
  <1>7. Permitted(h) = Permitted(g) \ {ref}
    BY <1>3, <1>4 DEF Permitted
  <1>8. \A i \in 1 .. Len(t) : i = 1 \/ (i - 1 \in 1 .. Len(s) /\ t[i] = s[i - 1])
    <2>. TAKE i \in 1 .. Len(t)
    <2>1. CASE i # 1
      <3>1. i - 1 \in 1 .. Len(s) /\ (i - 1) + 1 = i
        BY <1>2, <1>6, <2>1
      <3>. QED
        BY <1>6, <3>1
    <2>. QED
      BY <2>1
  <1>9. FreeList(h, t)
    <2>1. ASSUME NEW i \in 1 .. Len(t), NEW j \in 1 .. Len(t), t[i] = t[j] PROVE i = j
      <3>1. CASE i = 1 /\ j = 1
        BY <3>1
      <3>2. CASE i = 1 /\ j # 1
        BY <1>5, <1>6, <1>8, <2>1, <3>2
      <3>3. CASE i # 1 /\ j = 1
        BY <1>5, <1>6, <1>8, <2>1, <3>3
      <3>4. CASE i # 1 /\ j # 1
        <4>1. i - 1 = j - 1
          BY <1>2, <1>8, <2>1, <3>4
        <4>. QED
          BY <4>1
      <3>. QED
        BY <3>1, <3>2, <3>3, <3>4
    <2>2. h.list[0] = t[1]
      BY <1>4, <1>6
    <2>3. ASSUME NEW i \in 1 .. Len(t) - 1 PROVE h.list[t[i]] = t[i + 1]
      <3>1. i \in 1 .. Len(s) /\ i \in 1 .. Len(t) /\ t[i + 1] = s[i]
        BY <1>2, <1>6, <2>3
      <3>2. CASE i = 1
        <4>1. Len(s) > 0 /\ g.list[0] = s[1]
          BY <1>2, <3>1
        <4>. QED
          BY <1>4, <1>6, <3>1, <3>2, <4>1
      <3>3. CASE i # 1
        <4>1. i - 1 \in 1 .. Len(s) - 1 /\ i - 1 \in 1 .. Len(s) /\ (i - 1) + 1 = i
          BY <1>2, <3>1, <3>3
        <4>2. g.list[s[i - 1]] = s[i]
          BY <1>2, <4>1
        <4>3. t[i] = s[i - 1] /\ s[i - 1] \in Entries \ {0, ref}
          BY <1>5, <1>8, <3>1, <3>3, <4>1
        <4>. QED
          BY <1>4, <3>1, <4>2, <4>3
      <3>. QED
        BY <3>2, <3>3
    <2>. QED
      BY <1>6, <2>1, <2>2, <2>3 DEF FreeList
  <1>10. ASSUME NEW r \in Refs
        PROVE  r \notin Permitted(h) <=> \E i \in 1 .. Len(t) : t[i] = r
    <2>1. ASSUME r \notin Permitted(h) PROVE \E i \in 1 .. Len(t) : t[i] = r
      <3>1. CASE r = ref
        <4>1. 1 \in 1 .. Len(t)
          BY <1>2, <1>6
        <4>. QED
          BY <1>6, <3>1, <4>1
      <3>2. CASE r # ref
        <4>1. PICK i \in 1 .. Len(s) : s[i] = r
          BY <1>1, <1>7, <2>1, <3>2
        <4>2. i + 1 \in 1 .. Len(t)
          BY <1>2, <1>6
        <4>. QED
          BY <1>6, <4>1, <4>2
      <3>. QED
        BY <3>1, <3>2
    <2>2. ASSUME NEW i \in 1 .. Len(t), t[i] = r PROVE r \notin Permitted(h)
      BY <1>1, <1>6, <1>7, <1>8, <2>2
    <2>. QED
      BY <2>1, <2>2
  <1>11. Listed(h)
    BY <1>9, <1>10 DEF Listed
  <1>. QED
    BY <1>7, <1>11 DEF h

\* XenGrantTableInit() puts all references on the list, whatever was on it.
LEMMA ListedInit ==
    ASSUME NEW g \in Grants, Permitted(g) = {}
    PROVE  LET h == XenGrantTableInit(g)
           IN  h \in Grants /\ h.entry = g.entry /\ Listed(h)
  <1>. DEFINE h == XenGrantTableInit(g)
              n == NR_GRANT_ENTRIES - NR_RESERVED_ENTRIES
              s == [i \in 1 .. n |-> NR_GRANT_ENTRIES - i]
              list == [i \in Entries |->
                          CASE i = 0 -> NR_GRANT_ENTRIES - 1
                            [] i = NR_RESERVED_ENTRIES -> g.list[0]
                            [] i > NR_RESERVED_ENTRIES -> i - 1
                            [] OTHER -> g.list[i]]
  <1>1. g.list \in [Entries -> Entries] /\ g = [list |-> g.list, entry |-> g.entry]
        /\ g.entry \in [Refs -> Entry]
    BY DEF Grants
  <1>2. DOMAIN g.list = Entries
    BY <1>1
  <1>3. h.list = list /\ h.entry = g.entry /\ h = [list |-> list, entry |-> g.entry]
    BY <1>1, <1>2 DEF XenGrantTableInit
  <1>4. ASSUME NEW i \in Entries
        PROVE  /\ list[i] \in Entries
               /\ i = 0 => list[i] = NR_GRANT_ENTRIES - 1
               /\ i > NR_RESERVED_ENTRIES => list[i] = i - 1
    <2>1. g.list[i] \in Entries /\ g.list[0] \in Entries
      BY <1>1, RefsAre
    <2>. QED
      BY <2>1, GrantAssumption DEF Entries
  <1>5. list \in [Entries -> Entries]
    BY <1>4
  <1>. HIDE DEF h, list
  <1>6. h \in Grants
    BY <1>1, <1>3, <1>5 DEF Grants
  <1>7. /\ n \in Nat /\ s \in Seq(Refs) /\ Len(s) = n
        /\ \A i \in 1 .. n : s[i] = NR_GRANT_ENTRIES - i /\ s[i] \in Refs
    <2>1. n \in Nat /\ \A i \in 1 .. n : NR_GRANT_ENTRIES - i \in Refs
      BY GrantAssumption DEF Refs
    <2>2. s \in [1 .. n -> Refs]
      BY <2>1
    <2>3. s \in Seq(Refs) /\ Len(s) = n
      BY <2>1, <2>2
    <2>. QED
      BY <2>1, <2>3
  <1>. HIDE DEF s
  <1>8. FreeList(h, s)
    <2>1. \A i, j \in 1 .. Len(s) : s[i] = s[j] => i = j
      BY <1>7, GrantAssumption
    <2>2. h.list[0] = s[1]
      <3>1. 1 \in 1 .. n /\ 0 \in Entries
        BY GrantAssumption, RefsAre
      <3>. QED
        BY <1>3, <1>4, <1>7, <3>1
    <2>3. ASSUME NEW i \in 1 .. Len(s) - 1 PROVE h.list[s[i]] = s[i + 1]
      <3>1. i \in 1 .. n /\ i + 1 \in 1 .. n
        BY <1>7, <2>3
      <3>2. s[i] \in Entries /\ s[i] > NR_RESERVED_ENTRIES
        BY <1>7, <3>1, GrantAssumption, RefsAre DEF Refs
      <3>3. h.list[s[i]] = s[i] - 1
        BY <1>3, <1>4, <3>2
      <3>. QED
        BY <1>7, <3>1, <3>3, GrantAssumption, SMTT(30)
    <2>. QED
      BY <1>7, <2>1, <2>2, <2>3 DEF FreeList
  <1>9. Permitted(h) = {}
    BY <1>3 DEF Permitted
  <1>10. ASSUME NEW r \in Refs PROVE \E i \in 1 .. Len(s) : s[i] = r
    <2>1. NR_GRANT_ENTRIES - r \in 1 .. n /\ NR_GRANT_ENTRIES - (NR_GRANT_ENTRIES - r) = r
      BY GrantAssumption DEF Refs
    <2>. QED
      BY <1>7, <2>1
  <1>11. Listed(h)
    BY <1>8, <1>9, <1>10 DEF Listed
  <1>. QED
    BY <1>3, <1>6, <1>11 DEF h

\* A sequence without repetitions is as long as its set.
LEMMA DistinctLen ==
    ASSUME NEW S, NEW s \in Seq(S), \A i, j \in 1 .. Len(s) : s[i] = s[j] => i = j
    PROVE  /\ IsFiniteSet({s[i] : i \in 1 .. Len(s)})
           /\ Cardinality({s[i] : i \in 1 .. Len(s)}) = Len(s)
  <1>. DEFINE n == Len(s)
              T == {s[i] : i \in 1 .. n}
              f == [i \in 1 .. n |-> s[i]]
  <1>1. n \in Nat
    OBVIOUS
  <1>2. IsFiniteSet(1 .. n) /\ Cardinality(1 .. n) = n
    <2>. HIDE DEF n
    <2>1. 1 \in Int /\ n \in Int /\ n = IF 1 > n THEN 0 ELSE n - 1 + 1
      BY <1>1
    <2>. QED
      BY <2>1, FS_Interval
  <1>3. f \in Bijection(1 .. n, T)
    <2>1. f \in [1 .. n -> T] /\ \A i, j \in 1 .. n : f[i] = f[j] => i = j
      OBVIOUS
    <2>2. \A x \in T : \E i \in 1 .. n : f[i] = x
      OBVIOUS
    <2>. HIDE DEF f, T
    <2>. QED
      BY <2>1, <2>2 DEF Bijection, Injection, Surjection, IsInjective
  <1>4. ExistsBijection(1 .. n, T)
    BY <1>3 DEF ExistsBijection
  <1>. HIDE DEF T, n
  <1>5. IsFiniteSet(T) /\ Cardinality(1 .. n) = Cardinality(T)
    BY <1>2, <1>4, FS_Bijection
  <1>. QED
    BY <1>2, <1>5 DEF T, n

\* Following the list for as many steps as references are free visits just these.
LEMMA ListedEntries ==
    ASSUME NEW g \in Grants, Listed(g)
    PROVE  FreeEntries(g, Cardinality(Refs \ Permitted(g))) = Refs \ Permitted(g)
  <1>1. PICK s : FreeList(g, s) /\ \A r \in Refs : r \notin Permitted(g) <=>
                                                      \E i \in 1 .. Len(s) : s[i] = r
    BY DEF Listed
  <1>2. /\ s \in Seq(Refs) /\ Len(s) \in Nat
        /\ \A i, j \in 1 .. Len(s) : s[i] = s[j] => i = j
        /\ \A i \in 1 .. Len(s) : s[i] \in Refs
        /\ Len(s) > 0 => g.list[0] = s[1]
        /\ \A i \in 1 .. Len(s) - 1 : g.list[s[i]] = s[i + 1]
    BY <1>1 DEF FreeList
  <1>. DEFINE n == Len(s)
              Walk(f) == [k \in 1 .. n |-> IF k = 1 THEN g.list[0] ELSE g.list[f[k - 1]]]
              nth == CHOOSE f : f = Walk(f)
  <1>3. {s[i] : i \in 1 .. Len(s)} = Refs \ Permitted(g)
    BY <1>1, <1>2
  <1>4. Cardinality(Refs \ Permitted(g)) = n
    BY <1>2, <1>3, DistinctLen
  <1>5. FreeEntries(g, n) = {nth[k] : k \in 1 .. n}
    BY DEF FreeEntries
  <1>6. s = Walk(s)
    <2>1. ASSUME NEW k \in 1 .. n, k # 1 PROVE s[k] = g.list[s[k - 1]]
      <3>1. k - 1 \in 1 .. n - 1 /\ (k - 1) + 1 = k
        BY <1>2, <2>1
      <3>. QED
        BY <1>2, <3>1
    <2>2. \A k \in 1 .. n : s[k] = IF k = 1 THEN g.list[0] ELSE g.list[s[k - 1]]
      BY <1>2, <2>1
    <2>3. s = [k \in 1 .. n |-> s[k]]
      BY <1>2
    <2>. QED
      BY <2>2, <2>3
  <1>7. nth = Walk(nth)
    <2>. HIDE DEF Walk
    <2>. QED
      BY <1>6
  <1>. HIDE DEF nth
  <1>8. \A k \in 1 .. n : nth[k] = IF k = 1 THEN g.list[0] ELSE g.list[nth[k - 1]]
    BY <1>7
  <1>9. \A k \in 1 .. n : nth[k] = s[k]
    <2>. DEFINE S == {0} \cup {k \in 1 .. n : nth[k] = s[k]}
    <2>1. ASSUME NEW k \in 1 .. n, k - 1 \in S PROVE k \in S
      <3>1. CASE k = 1
        BY <1>2, <1>8, <3>1
      <3>2. CASE k # 1
        <4>1. k - 1 \in 1 .. n - 1 /\ (k - 1) + 1 = k
          BY <1>2, <3>2
        <4>2. nth[k - 1] = s[k - 1]
          BY <2>1, <4>1
        <4>3. s[k] = g.list[s[k - 1]]
          BY <1>2, <4>1
        <4>. QED
          BY <1>8, <3>2, <4>2, <4>3
      <3>. QED
        BY <3>1, <3>2
    <2>2. 0 \in S /\ n \in Nat
      BY <1>2
    <2>. HIDE DEF S
    <2>3. \A k \in 0 .. n : k \in S
      BY <2>1, <2>2, UpTo
    <2>. QED
      BY <2>3 DEF S
  <1>10. {nth[k] : k \in 1 .. n} = {s[k] : k \in 1 .. n}
    BY <1>9
  <1>. QED
    BY <1>3, <1>4, <1>5, <1>10

\* Pages are granted one after the other: the references are free, all different, and each
\* entry has the frame of its page.
GrantedAll(g, refs, segments, n, h) ==
    /\ h \in Grants /\ Listed(h)
    /\ \A k \in 1 .. n : refs[k] \in Refs \ Permitted(g)
    /\ \A i, j \in 1 .. n : refs[i] = refs[j] => i = j
    /\ \A r \in Refs : r \in Permitted(h) <=> r \in Permitted(g) \/ \E k \in 1 .. n : r = refs[k]
    /\ \A k \in 1 .. n :
          h.entry[refs[k]] = [frame |-> segments[k].page, permit |-> TRUE, mapped |-> FALSE]
    /\ \A r \in Refs : (\A k \in 1 .. n : r # refs[k]) => h.entry[r] = g.entry[r]

\* One page more.
LEMMA GrantedOne ==
    ASSUME NEW g \in Grants, NEW refs, NEW segments, NEW m \in Nat, NEW h \in Grants,
           GrantedAll(g, refs, segments, m, h), m < Cardinality(Refs \ Permitted(g)),
           refs[m + 1] = NextFree(h), segments[m + 1].page \in Int
    PROVE  GrantedAll(g, refs, segments, m + 1,
                      XenGrantTableGrantAccess(h, segments[m + 1].page))
  <1>. DEFINE e == XenGrantTableGrantAccess(h, segments[m + 1].page)
              r1 == refs[m + 1]
  <1>1. Permitted(h) # Refs
    <2>. SUFFICES ASSUME Permitted(h) = Refs PROVE FALSE
      OBVIOUS
    <2>. DEFINE q == [k \in 1 .. m |-> refs[k]]
                T == {q[k] : k \in 1 .. Len(q)}
    <2>1. q \in Seq(Refs) /\ Len(q) = m /\ \A k \in 1 .. m : q[k] = refs[k]
      <3>1. q \in [1 .. m -> Refs]
        BY DEF GrantedAll
      <3>. QED
        BY <3>1
    <2>. HIDE DEF q
    <2>2. \A i, j \in 1 .. Len(q) : q[i] = q[j] => i = j
      BY <2>1 DEF GrantedAll
    <2>3. IsFiniteSet(T) /\ Cardinality(T) = m
      BY <2>1, <2>2, DistinctLen
    <2>4. Refs \ Permitted(g) \subseteq T
      BY <2>1 DEF GrantedAll
    <2>5. /\ IsFiniteSet(Refs \ Permitted(g))
          /\ Cardinality(Refs \ Permitted(g)) <= Cardinality(T)
      <3>. HIDE DEF T
      <3>. QED
        BY <2>3, <2>4, FS_Subset
    <2>6. Cardinality(Refs \ Permitted(g)) \in Nat
      BY <2>5, FS_CardinalityType
    <2>. QED
      BY <2>3, <2>5, <2>6
  <1>2. r1 = NextFree(h) /\ Listed(h)
    BY DEF GrantedAll
  <1>3. /\ r1 \in Refs \ Permitted(h) /\ Listed(e) /\ Permitted(e) = Permitted(h) \cup {r1}
    BY <1>1, <1>2, ListedAccess, Zenon
  <1>4. /\ e \in Grants
        /\ \A r \in Refs \ {r1} : e.entry[r] = h.entry[r]
        /\ e.entry[r1] = [frame |-> segments[m + 1].page, permit |-> TRUE, mapped |-> FALSE]
    <2>1. /\ e \in Grants
          /\ \A r \in Refs \ {NextFree(h)} : e.entry[r] = h.entry[r]
          /\ NextFree(h) \in Refs => e.entry[NextFree(h)] =
                [frame |-> segments[m + 1].page, permit |-> TRUE, mapped |-> FALSE]
      BY GrantAccess, Zenon
    <2>. HIDE DEF e
    <2>. QED
      BY <1>2, <1>3, <2>1
  <1>. HIDE DEF e
  <1>5. \A k \in 1 .. m + 1 : k \in 1 .. m \/ k = m + 1
    OBVIOUS
  <1>6. r1 \in Refs \ Permitted(g) /\ \A k \in 1 .. m : refs[k] # r1 /\ refs[k] \in Refs
    BY <1>3 DEF GrantedAll
  <1>7. \A k \in 1 .. m + 1 : refs[k] \in Refs \ Permitted(g)
    BY <1>5, <1>6 DEF GrantedAll
  <1>8. \A i, j \in 1 .. m + 1 : refs[i] = refs[j] => i = j
    BY <1>5, <1>6 DEF GrantedAll
  <1>9. \A r \in Refs : r \in Permitted(e) <=> r \in Permitted(g) \/ \E k \in 1 .. m + 1 : r = refs[k]
    <2>1. \A r \in Refs : r \in Permitted(h) <=> r \in Permitted(g) \/ \E k \in 1 .. m : r = refs[k]
      BY DEF GrantedAll
    <2>2. \A r : (\E k \in 1 .. m + 1 : r = refs[k]) <=> (\E k \in 1 .. m : r = refs[k]) \/ r = r1
      BY <1>5
    <2>. HIDE DEF r1
    <2>. QED
      BY <1>3, <2>1, <2>2
  <1>10. \A k \in 1 .. m + 1 :
            e.entry[refs[k]] = [frame |-> segments[k].page, permit |-> TRUE, mapped |-> FALSE]
    <2>1. ASSUME NEW k \in 1 .. m
          PROVE  e.entry[refs[k]] = [frame |-> segments[k].page, permit |-> TRUE, mapped |-> FALSE]
      <3>1. e.entry[refs[k]] = h.entry[refs[k]]
        BY <1>4, <1>6
      <3>. QED
        BY <3>1 DEF GrantedAll
    <2>. QED
      BY <1>4, <1>5, <2>1
  <1>11. \A r \in Refs : (\A k \in 1 .. m + 1 : r # refs[k]) => e.entry[r] = g.entry[r]
    <2>. SUFFICES ASSUME NEW r \in Refs, \A k \in 1 .. m + 1 : r # refs[k]
                  PROVE  e.entry[r] = g.entry[r]
      OBVIOUS
    <2>1. r # r1 /\ \A k \in 1 .. m : r # refs[k]
      OBVIOUS
    <2>. QED
      BY <1>4, <2>1 DEF GrantedAll
  <1>. QED
    BY <1>3, <1>4, <1>7, <1>8, <1>9, <1>10, <1>11 DEF GrantedAll, e

\* What GrantAll() computes.
LEMMA GrantAllIs ==
    ASSUME NEW segments, NEW n \in Nat, Len(segments) = n,
           \A k \in 1 .. n : segments[k].page \in Int,
           grants \in Grants, Listed(grants), n <= Cardinality(Refs \ Permitted(grants)),
           NEW refs, \A k \in 1 .. n : refs[k] = NextFree(GrantAll(segments)[k - 1])
    PROVE  GrantedAll(grants, refs, segments, n, GrantAll(segments)[n])
  <1>. DEFINE Access(f) == [k \in 0 .. n |-> IF k = 0 THEN grants
                               ELSE XenGrantTableGrantAccess(f[k - 1], segments[k].page)]
              after == GrantAll(segments)
              step == [k \in 1 .. n |-> [g \in Grants |->
                          XenGrantTableGrantAccess(g, segments[k].page)]]
  <1>1. after = CHOOSE f : f = Access(f)
    BY DEF GrantAll
  <1>2. \A k \in 1 .. n, g \in Grants : XenGrantTableGrantAccess(g, segments[k].page) \in Grants
    BY GrantAccess, Zenon
  <1>3. step \in [1 .. n -> [Grants -> Grants]]
    BY <1>2
  <1>4. \A k \in 1 .. n, g \in Grants : step[k][g] = XenGrantTableGrantAccess(g, segments[k].page)
    OBVIOUS
  <1>. HIDE DEF step
  <1>5. PICK f \in [0 .. n -> Grants] : f[0] = grants /\ \A k \in 1 .. n : f[k] = step[k][f[k - 1]]
    <2>1. Recursive(Grants, grants, n, step)
      BY <1>3 DEF Recursive
    <2>2. Computed(Grants, grants, n, step)
      BY <2>1, Recursion
    <2>. QED
      BY <2>2 DEF Computed
  <1>6. f = Access(f)
    <2>1. ASSUME NEW k \in 1 .. n
          PROVE  f[k] = XenGrantTableGrantAccess(f[k - 1], segments[k].page)
      <3>1. k - 1 \in 0 .. n
        OBVIOUS
      <3>. QED
        BY <1>4, <1>5, <3>1
    <2>2. \A k \in 0 .. n : f[k] = IF k = 0 THEN grants
                               ELSE XenGrantTableGrantAccess(f[k - 1], segments[k].page)
      BY <1>5, <2>1
    <2>3. f = [k \in 0 .. n |-> f[k]]
      BY <1>5
    <2>. QED
      BY <2>2, <2>3
  <1>7. after = Access(after)
    <2>. HIDE DEF Access, after
    <2>. QED
      BY <1>1, <1>6
  <1>. HIDE DEF after
  <1>8. /\ after[0] = grants
        /\ \A k \in 1 .. n : after[k] = XenGrantTableGrantAccess(after[k - 1], segments[k].page)
    <2>1. \A k \in 0 .. n : Access(after)[k] = IF k = 0 THEN grants
                               ELSE XenGrantTableGrantAccess(after[k - 1], segments[k].page)
      OBVIOUS
    <2>. HIDE DEF Access
    <2>2. \A k \in 0 .. n : after[k] = IF k = 0 THEN grants
                               ELSE XenGrantTableGrantAccess(after[k - 1], segments[k].page)
      BY <1>7, <2>1
    <2>. QED
      BY <2>2
  <1>. HIDE DEF Access
  <1>. DEFINE S == {k \in 0 .. n : GrantedAll(grants, refs, segments, k, after[k])}
  <1>9. 0 \in S
    <2>1. GrantedAll(grants, refs, segments, 0, grants)
      BY DEF GrantedAll
    <2>. QED
      BY <1>8, <2>1
  <1>10. ASSUME NEW k \in 1 .. n, k - 1 \in S PROVE k \in S
    <2>. DEFINE m == k - 1
    <2>1. m \in Nat /\ m + 1 = k /\ m < n
      OBVIOUS
    <2>2. GrantedAll(grants, refs, segments, m, after[m])
      BY <1>10
    <2>3. Cardinality(Refs \ Permitted(grants)) \in Nat
      BY RefsAre, FS_Subset, FS_CardinalityType
    <2>4. m < Cardinality(Refs \ Permitted(grants))
      BY <2>1, <2>3
    <2>5. /\ refs[m + 1] = NextFree(after[m]) /\ segments[m + 1].page \in Int
          /\ after[m + 1] = XenGrantTableGrantAccess(after[m], segments[m + 1].page)
      BY <1>8, <2>1 DEF after
    <2>6. after[m] \in Grants
      BY <2>2 DEF GrantedAll
    <2>. HIDE DEF m
    <2>7. GrantedAll(grants, refs, segments, m + 1, after[m + 1])
      BY <2>1, <2>2, <2>4, <2>5, <2>6, GrantedOne, Zenon
    <2>. QED
      BY <2>1, <2>7
  <1>. HIDE DEF S
  <1>11. \A k \in 0 .. n : k \in S
    BY <1>9, <1>10, UpTo
  <1>. QED
    BY <1>11 DEF S, after

\* The references of a request are ended one after the other.
EndedAll(g, refs, n, h) ==
    /\ h \in Grants /\ Listed(h)
    /\ \A r \in Refs : r \in Permitted(h) <=> r \in Permitted(g) /\ \A k \in 1 .. n : r # refs[k]
    /\ \A k \in 1 .. n : h.entry[refs[k]] = Unused
    /\ \A r \in Refs : (\A k \in 1 .. n : r # refs[k]) => h.entry[r] = g.entry[r]

\* They are in use, all different, and not mapped.
Endable(g, refs, n) ==
    /\ \A k \in 1 .. n : refs[k] \in Permitted(g) /\ ~g.entry[refs[k]].mapped
    /\ \A i, j \in 1 .. n : refs[i] = refs[j] => i = j

\* One reference more.
LEMMA EndedOne ==
    ASSUME NEW g \in Grants, NEW refs, NEW n \in Nat, NEW m \in Nat, m < n, NEW h \in Grants,
           Endable(g, refs, n), EndedAll(g, refs, m, h)
    PROVE  EndedAll(g, refs, m + 1, XenGrantTableEndAccess(h, refs[m + 1]))
  <1>. DEFINE r1 == refs[m + 1]
              e  == XenGrantTableEndAccess(h, r1)
  <1>1. m + 1 \in 1 .. n /\ \A k \in 1 .. m : k \in 1 .. n /\ k # m + 1
    OBVIOUS
  <1>2. r1 \in Refs /\ r1 \in Permitted(g) /\ ~g.entry[r1].mapped
        /\ \A k \in 1 .. m : r1 # refs[k]
    BY <1>1 DEF Endable, Permitted
  <1>3. r1 \in Permitted(h) /\ ~h.entry[r1].mapped /\ Listed(h)
    BY <1>2 DEF EndedAll
  <1>. HIDE DEF r1
  <1>4. Listed(e) /\ Permitted(e) = Permitted(h) \ {r1}
    BY <1>3, ListedEnd, Zenon
  <1>5. e \in Grants /\ e.entry[r1] = Unused /\ \A r \in Refs \ {r1} : e.entry[r] = h.entry[r]
    BY <1>2, <1>3, EndAccess, ZenonT(60)
  <1>. HIDE DEF e
  <1>6. \A k \in 1 .. m + 1 : k \in 1 .. m \/ k = m + 1
    OBVIOUS
  <1>7. \A r : (\A k \in 1 .. m + 1 : r # refs[k]) <=> (\A k \in 1 .. m : r # refs[k]) /\ r # r1
    BY <1>6 DEF r1
  <1>8. \A r \in Refs : r \in Permitted(e) <=>
                            r \in Permitted(g) /\ \A k \in 1 .. m + 1 : r # refs[k]
    <2>1. \A r \in Refs : r \in Permitted(h) <=>
                            r \in Permitted(g) /\ \A k \in 1 .. m : r # refs[k]
      BY DEF EndedAll
    <2>. QED
      BY <1>4, <1>7, <2>1
  <1>9. \A k \in 1 .. m + 1 : e.entry[refs[k]] = Unused
    <2>1. ASSUME NEW k \in 1 .. m PROVE e.entry[refs[k]] = Unused
      <3>1. refs[k] \in Refs \ {r1} /\ h.entry[refs[k]] = Unused
        BY <1>1, <1>2 DEF EndedAll, Endable, Permitted
      <3>. QED
        BY <1>5, <3>1
    <2>. QED
      BY <1>5, <1>6, <2>1 DEF r1
  <1>10. \A r \in Refs : (\A k \in 1 .. m + 1 : r # refs[k]) => e.entry[r] = g.entry[r]
    BY <1>5, <1>7 DEF EndedAll
  <1>. QED
    BY <1>4, <1>5, <1>8, <1>9, <1>10 DEF EndedAll, e, r1

\* What EndAll() computes.
LEMMA EndAllIs ==
    ASSUME NEW refs, NEW n \in Nat, Len(refs) = n, grants \in Grants, Listed(grants),
           Endable(grants, refs, n)
    PROVE  EndedAll(grants, refs, n, EndAll(refs))
  <1>. DEFINE End(f) == [k \in 0 .. n |-> IF k = 0 THEN grants
                            ELSE XenGrantTableEndAccess(f[k - 1], refs[k])]
              after == CHOOSE f : f = End(f)
              step == [k \in 1 .. n |-> [g \in Grants |-> XenGrantTableEndAccess(g, refs[k])]]
  <1>1. EndAll(refs) = after[n]
    BY DEF EndAll
  <1>2. \A k \in 1 .. n, g \in Grants : XenGrantTableEndAccess(g, refs[k]) \in Grants
    <2>1. \A k \in 1 .. n : refs[k] \in Refs
      BY DEF Endable, Permitted
    <2>. QED
      BY <2>1, EndAccess, Zenon
  <1>3. step \in [1 .. n -> [Grants -> Grants]]
    BY <1>2
  <1>4. \A k \in 1 .. n, g \in Grants : step[k][g] = XenGrantTableEndAccess(g, refs[k])
    OBVIOUS
  <1>. HIDE DEF step
  <1>5. PICK f \in [0 .. n -> Grants] : f[0] = grants /\ \A k \in 1 .. n : f[k] = step[k][f[k - 1]]
    <2>1. Recursive(Grants, grants, n, step)
      BY <1>3 DEF Recursive
    <2>2. Computed(Grants, grants, n, step)
      BY <2>1, Recursion
    <2>. QED
      BY <2>2 DEF Computed
  <1>6. f = End(f)
    <2>1. ASSUME NEW k \in 1 .. n PROVE f[k] = XenGrantTableEndAccess(f[k - 1], refs[k])
      <3>1. k - 1 \in 0 .. n
        OBVIOUS
      <3>. QED
        BY <1>4, <1>5, <3>1
    <2>2. \A k \in 0 .. n : f[k] = IF k = 0 THEN grants
                               ELSE XenGrantTableEndAccess(f[k - 1], refs[k])
      BY <1>5, <2>1
    <2>3. f = [k \in 0 .. n |-> f[k]]
      BY <1>5
    <2>. QED
      BY <2>2, <2>3
  <1>7. after = End(after)
    <2>. HIDE DEF End
    <2>. QED
      BY <1>6
  <1>. HIDE DEF after
  <1>8. /\ after[0] = grants
        /\ \A k \in 1 .. n : after[k] = XenGrantTableEndAccess(after[k - 1], refs[k])
    BY <1>7
  <1>. HIDE DEF End
  <1>. DEFINE S == {k \in 0 .. n : EndedAll(grants, refs, k, after[k])}
  <1>9. 0 \in S
    <2>1. EndedAll(grants, refs, 0, grants)
      BY DEF EndedAll
    <2>. QED
      BY <1>8, <2>1
  <1>10. ASSUME NEW k \in 1 .. n, k - 1 \in S PROVE k \in S
    <2>. DEFINE m == k - 1
    <2>1. m \in Nat /\ m + 1 = k /\ m < n
      OBVIOUS
    <2>2. EndedAll(grants, refs, m, after[m])
      BY <1>10
    <2>3. after[m + 1] = XenGrantTableEndAccess(after[m], refs[m + 1])
      BY <1>8, <2>1
    <2>4. after[m] \in Grants
      BY <2>2 DEF EndedAll
    <2>. HIDE DEF m
    <2>5. EndedAll(grants, refs, m + 1, after[m + 1])
      BY <2>1, <2>2, <2>3, <2>4, EndedOne, Zenon
    <2>. QED
      BY <2>1, <2>5
  <1>. HIDE DEF S
  <1>11. \A k \in 0 .. n : k \in S
    BY <1>9, <1>10, UpTo
  <1>. QED
    BY <1>1, <1>11 DEF S

-----------------------------------------------------------------------------
(* Pages and sectors.                                                      *)

PageStart(q) == q * PageSectors

\* Pages follow each other.
LEMMA PageStarts ==
    /\ PageSectors \in Nat /\ PageSectors > 0
    /\ \A q \in Int : PageStart(q) \in Int /\ PageStart(q + 1) = PageStart(q) + PageSectors
                      /\ PageStart(q - 1) = PageStart(q) - PageSectors
    /\ \A p, q \in Int : PageStart(p + q) = PageStart(p) + PageStart(q)
    /\ \A p, q \in Int : p < q => PageStart(p) + PageSectors <= PageStart(q)
    /\ PageStart(0) = 0
  <1>1. PageSectors \in Nat /\ PageSectors > 0
    BY XenPvBlkAssumption
  <1>2. ASSUME NEW q \in Int
        PROVE  PageStart(q) \in Int /\ PageStart(q + 1) = PageStart(q) + PageSectors
                 /\ PageStart(q - 1) = PageStart(q) - PageSectors
    BY <1>1 DEF PageStart
  <1>3. ASSUME NEW p \in Int, NEW q \in Int PROVE PageStart(p + q) = PageStart(p) + PageStart(q)
    BY <1>1 DEF PageStart
  <1>4. ASSUME NEW p \in Int, NEW q \in Int, p < q
        PROVE  PageStart(p) + PageSectors <= PageStart(q)
    <2>1. q - p - 1 \in Nat
      BY <1>4
    <2>2. \A m \in Nat : m * PageSectors >= 0
      BY <1>1
    <2>3. PageStart(q) = PageStart(p) + PageSectors + (q - p - 1) * PageSectors
      BY <1>1 DEF PageStart
    <2>4. PageStart(p) \in Int /\ PageStart(q) \in Int /\ (q - p - 1) * PageSectors >= 0
          /\ (q - p - 1) * PageSectors \in Int
      BY <1>1, <1>2, <2>1, <2>2
    <2>. HIDE DEF PageStart
    <2>. QED
      BY <1>1, <2>3, <2>4
  <1>5. PageStart(0) = 0
    BY <1>1 DEF PageStart
  <1>. HIDE DEF PageStart
  <1>. QED
    BY <1>1, <1>2, <1>3, <1>4, <1>5

\* The page of an address, and the offset in it.
LEMMA Paged ==
    ASSUME NEW a \in Nat
    PROVE  /\ PageOf(a) \in Nat /\ (a % PageSectors) \in 0 .. PageSectors - 1
           /\ a = PageStart(PageOf(a)) + (a % PageSectors)
  <1>1. PageSectors \in Nat /\ PageSectors > 0
    BY XenPvBlkAssumption
  <1>2. PageOf(a) \in Nat
    BY <1>1 DEF PageOf
  <1>3. (a % PageSectors) \in 0 .. PageSectors - 1
    BY <1>1
  <1>4. a = PageOf(a) * PageSectors + (a % PageSectors)
    BY <1>1 DEF PageOf
  <1>. QED
    BY <1>2, <1>3, <1>4 DEF PageStart

\* The segments of a request are consecutive pieces of its buffer, one for each page.
SegmentsOf(address, size, s, n) ==
    /\ address \in Nat /\ size \in Nat /\ size > 0
    /\ n \in Nat /\ n >= 1 /\ Len(s) = n /\ DOMAIN s = 1 .. n
    /\ n = PageOf(address + size - 1) - PageOf(address) + 1
    /\ \A k \in 1 .. n :
          /\ s[k].page \in Nat /\ s[k].page = PageOf(address) + k - 1
          /\ s[k].first \in 0 .. PageSectors - 1 /\ s[k].last \in 0 .. PageSectors - 1
          /\ k = 1 => PageStart(s[k].page) + s[k].first = address
          /\ k # 1 => s[k].first = 0
          /\ k = n => PageStart(s[k].page) + s[k].last = address + size - 1
          /\ k # n => s[k].last = PageSectors - 1

LEMMA SegmentsAre ==
    ASSUME NEW address \in Nat, NEW size \in Nat, size > 0
    PROVE  SegmentsOf(address, size, Segments(address, size), Len(Segments(address, size)))
  <1>. DEFINE first == PageOf(address)
              final == address + size - 1
              last  == PageOf(final)
              n == last - first + 1
              s == Segments(address, size)
  <1>1. final \in Nat /\ final >= address
    OBVIOUS
  <1>. HIDE DEF final
  <1>2. /\ first \in Nat /\ (address % PageSectors) \in 0 .. PageSectors - 1
        /\ address = PageStart(first) + (address % PageSectors)
    BY Paged
  <1>3. /\ last \in Nat /\ (final % PageSectors) \in 0 .. PageSectors - 1
        /\ final = PageStart(last) + (final % PageSectors)
    BY <1>1, Paged
  <1>4. s = [k \in 1 .. n |->
                [page  |-> first + k - 1,
                 first |-> IF k = 1 THEN address % PageSectors ELSE 0,
                 last  |-> IF k = n THEN final % PageSectors ELSE PageSectors - 1]]
    BY DEF Segments, final
  <1>. DEFINE a1 == (address % PageSectors)
              z1 == (final % PageSectors)
  <1>. HIDE DEF first, last, s, a1, z1
  <1>5. n \in Nat /\ n >= 1
    <2>. SUFFICES ASSUME last < first PROVE FALSE
      BY <1>2, <1>3
    <2>1. PageStart(last) + PageSectors <= PageStart(first)
          /\ PageStart(first) \in Int /\ PageStart(last) \in Int /\ PageSectors \in Nat
      BY <1>2, <1>3, PageStarts
    <2>. QED
      BY <1>1, <1>2, <1>3, <2>1 DEF a1, z1
  <1>6. s = [k \in 1 .. n |->
                [page  |-> first + k - 1,
                 first |-> IF k = 1 THEN a1 ELSE 0,
                 last  |-> IF k = n THEN z1 ELSE PageSectors - 1]]
    BY <1>4 DEF a1, z1
  <1>. HIDE DEF n
  <1>7. DOMAIN s = 1 .. n /\ Len(s) = n
    BY <1>5, <1>6
  <1>8. ASSUME NEW k \in 1 .. n
        PROVE  /\ s[k].page = first + k - 1 /\ s[k].first = IF k = 1 THEN a1 ELSE 0
               /\ s[k].last = IF k = n THEN z1 ELSE PageSectors - 1
    BY <1>6
  <1>9. a1 \in 0 .. PageSectors - 1 /\ z1 \in 0 .. PageSectors - 1
        /\ PageStart(first) + a1 = address /\ PageStart(last) + z1 = final
    BY <1>2, <1>3 DEF a1, z1
  <1>10. ASSUME NEW k \in 1 .. n
         PROVE  /\ s[k].page \in Nat /\ s[k].page = first + k - 1
                /\ s[k].first \in 0 .. PageSectors - 1 /\ s[k].last \in 0 .. PageSectors - 1
                /\ k = 1 => PageStart(s[k].page) + s[k].first = address
                /\ k # 1 => s[k].first = 0
                /\ k = n => PageStart(s[k].page) + s[k].last = final
                /\ k # n => s[k].last = PageSectors - 1
    <2>1. PageSectors \in Nat /\ PageSectors > 0
      BY PageStarts
    <2>2. s[k].page \in Nat /\ s[k].page = first + k - 1
      BY <1>2, <1>5, <1>8
    <2>3. s[k].first \in 0 .. PageSectors - 1 /\ s[k].last \in 0 .. PageSectors - 1
      BY <1>8, <1>9, <2>1
    <2>4. k = 1 => s[k].page = first
      BY <1>2, <2>2
    <2>5. k = n => s[k].page = last
      BY <1>2, <1>3, <2>2 DEF n
    <2>. QED
      BY <1>8, <1>9, <2>2, <2>3, <2>4, <2>5
  <1>11. SegmentsOf(address, size, s, n)
    BY <1>5, <1>7, <1>10 DEF SegmentsOf, n, first, last, final
  <1>. QED
    BY <1>7, <1>11 DEF s

\* A request is nonempty, within the rest of the transfer, and has no more segments than a
\* request may have, also when its buffer starts within a page.
LEMMA IoSizeIs ==
    ASSUME NEW address \in Nat, NEW rest \in Nat, rest > 0
    PROVE  /\ IoSize(address, rest) \in 1 .. rest
           /\ PageOf(address + IoSize(address, rest) - 1) - PageOf(address) + 1
                <= BLKIF_MAX_SEGMENTS_PER_REQUEST
  <1>. DEFINE M == BLKIF_MAX_SEGMENTS_PER_REQUEST
              size == IoSize(address, rest)
              final == address + size - 1
              first == PageOf(address)
              last  == PageOf(final)
              a1 == (address % PageSectors)
              z1 == (final % PageSectors)
  <1>1. M \in Nat /\ M > 1 /\ PageSectors \in Nat /\ PageSectors > 0
    BY XenPvBlkAssumption
  <1>2. /\ PageStart(M) \in Int /\ PageStart(M - 1) = PageStart(M) - PageSectors
        /\ PageStart(1) \in Int /\ PageStart(1) + PageSectors <= PageStart(M)
        /\ PageStart(1) = PageSectors
    <2>1. M \in Int /\ 1 \in Int /\ 1 < M /\ 0 \in Int /\ 0 + 1 = 1
      BY <1>1
    <2>2. PageStart(1) = PageSectors
      <3>1. PageStart(0 + 1) = PageStart(0) + PageSectors /\ PageStart(0) = 0
        BY <2>1, PageStarts, Zenon
      <3>2. PageStart(1) = 0 + PageSectors
        BY <2>1, <3>1, Zenon
      <3>. QED
        BY <1>1, <3>2
    <2>3. /\ PageStart(M) \in Int /\ PageStart(M - 1) = PageStart(M) - PageSectors
          /\ PageStart(1) \in Int /\ PageStart(1) + PageSectors <= PageStart(M)
      BY <2>1, PageStarts, Zenon
    <2>. QED
      BY <2>2, <2>3
  <1>3. size = IF a1 = 0 THEN Least(PageStart(M), rest) ELSE Least(PageStart(M - 1), rest)
    BY DEF IoSize, PageStart
  <1>4. first \in Nat /\ a1 \in 0 .. PageSectors - 1 /\ address = PageStart(first) + a1
    BY Paged
  <1>. HIDE DEF size, a1, M, first
  <1>5. /\ size \in 1 .. rest
        /\ a1 + size <= PageStart(M)
    BY <1>1, <1>2, <1>3, <1>4 DEF Least
  <1>6. final \in Nat
    BY <1>5
  <1>7. last \in Nat /\ z1 \in 0 .. PageSectors - 1 /\ final = PageStart(last) + z1
    BY <1>6, Paged
  <1>8. ASSUME last >= first + M PROVE FALSE
    <2>0. first + M \in Int /\ last \in Int /\ first \in Int /\ M \in Int
      BY <1>1, <1>4, <1>7
    <2>1. PageStart(first + M) = PageStart(first) + PageStart(M) /\ PageStart(first) \in Int
          /\ PageStart(last) \in Int /\ first + M \in Int /\ last \in Int /\ first \in Int
      BY <2>0, PageStarts, Zenon
    <2>2. PageStart(first + M) <= PageStart(last)
      <3>1. CASE last = first + M
        BY <2>1, <3>1
      <3>2. CASE last > first + M
        <4>1. PageStart(first + M) + PageSectors <= PageStart(last)
          BY <2>1, <3>2, PageStarts
        <4>. QED
          BY <1>1, <1>2, <2>1, <4>1
      <3>. QED
        BY <1>1, <1>4, <1>7, <1>8, <3>1, <3>2
    <2>3. final < PageStart(first) + PageStart(M)
      BY <1>2, <1>4, <1>5, <2>1
    <2>4. final >= PageStart(last)
      BY <1>6, <1>7, <2>1
    <2>. HIDE DEF final, last
    <2>. QED
      BY <1>2, <1>6, <2>1, <2>2, <2>3, <2>4
  <1>. HIDE DEF last
  <1>9. last - first + 1 <= M
    BY <1>1, <1>4, <1>7, <1>8
  <1>. QED
    BY <1>5, <1>9 DEF size, last, final, first, M

\* Where segment k lies in the buffer, and how much of the request is before it.
Lies(address, s, k) == PageStart(s[k].page) + s[k].first - address

Follow(address, size, s, n) ==
    /\ Lies(address, s, 1) = 0
    /\ \A k \in 1 .. n : Lies(address, s, k) \in Int
    /\ \A k \in 2 .. n :
          Lies(address, s, k) = Lies(address, s, k - 1) + s[k - 1].last - s[k - 1].first + 1
    /\ size = Lies(address, s, n) + s[n].last - s[n].first + 1

\* The pieces follow each other without gap or overlap.
LEMMA SegmentsFollow ==
    ASSUME NEW address, NEW size, NEW s, NEW n, SegmentsOf(address, size, s, n)
    PROVE  Follow(address, size, s, n)
  <1>0. address \in Nat /\ size \in Nat /\ size > 0
    BY DEF SegmentsOf
  <1>1. PageSectors \in Nat /\ PageSectors > 0
    BY PageStarts
  <1>2. \A k \in 1 .. n : /\ PageStart(s[k].page) \in Int /\ s[k].page \in Int
                          /\ s[k].first \in Int /\ s[k].last \in Int
    <2>1. \A k \in 1 .. n : s[k].page \in Int /\ s[k].first \in Int /\ s[k].last \in Int
      BY <1>0, <1>1 DEF SegmentsOf
    <2>. QED
      BY <2>1, PageStarts, Zenon
  <1>3. \A k \in 1 .. n : Lies(address, s, k) \in Int
    BY <1>0, <1>2 DEF Lies
  <1>4. 1 \in 1 .. n /\ n \in 1 .. n /\ n \in Nat
    BY DEF SegmentsOf
  <1>5. Lies(address, s, 1) = 0
    BY <1>0, <1>2, <1>4 DEF Lies, SegmentsOf
  <1>6. ASSUME NEW k \in 2 .. n
        PROVE  Lies(address, s, k) = Lies(address, s, k - 1) + s[k - 1].last - s[k - 1].first + 1
    <2>1. k \in 1 .. n /\ k - 1 \in 1 .. n /\ k # 1 /\ k - 1 # n
      BY <1>0, <1>4
    <2>2. s[k].first = 0 /\ s[k - 1].last = PageSectors - 1 /\ s[k].page = s[k - 1].page + 1
      <3>1. s[k].page = PageOf(address) + k - 1 /\ s[k - 1].page = PageOf(address) + (k - 1) - 1
        BY <1>0, <2>1 DEF SegmentsOf
      <3>2. PageOf(address) \in Nat
        BY <1>0, Paged
      <3>. QED
        BY <1>0, <2>1, <3>1, <3>2 DEF SegmentsOf
    <2>3. PageStart(s[k].page) = PageStart(s[k - 1].page) + PageSectors
      <3>1. s[k - 1].page \in Int
        BY <1>0, <1>2, <2>1
      <3>. QED
        BY <2>2, <3>1, PageStarts, Zenon
    <2>. QED
      BY <1>0, <1>1, <1>2, <2>1, <2>2, <2>3 DEF Lies
  <1>7. size = Lies(address, s, n) + s[n].last - s[n].first + 1
    <2>1. PageStart(s[n].page) + s[n].last = address + size - 1
      BY <1>0, <1>4 DEF SegmentsOf
    <2>. QED
      BY <1>0, <1>2, <1>4, <2>1 DEF Lies
  <1>. QED
    BY <1>0, <1>3, <1>5, <1>6, <1>7 DEF Follow

Cover(address, size, s, n) ==
    /\ \A k \in 1 .. n : \A i \in s[k].first .. s[k].last :
          PageStart(s[k].page) + i - address \in 0 .. size - 1
    /\ \A j \in 0 .. size - 1 : \E k \in 1 .. n : \E i \in s[k].first .. s[k].last :
          PageStart(s[k].page) + i = address + j

\* An address of the buffer is in one of the pieces, and they have no other.
LEMMA SegmentsCover ==
    ASSUME NEW address, NEW size, NEW s, NEW n, SegmentsOf(address, size, s, n)
    PROVE  Cover(address, size, s, n)
  <1>0. address \in Nat /\ size \in Nat /\ size > 0
    BY DEF SegmentsOf
  <1>. DEFINE first == PageOf(address)
              final == address + size - 1
              last  == PageOf(final)
  <1>1. PageSectors \in Nat /\ PageSectors > 0
    BY PageStarts
  <1>2. \A k \in 1 .. n : /\ PageStart(s[k].page) \in Int /\ s[k].page \in Int
                          /\ s[k].first \in Int /\ s[k].last \in Int
    <2>1. \A k \in 1 .. n : s[k].page \in Int /\ s[k].first \in Int /\ s[k].last \in Int
      BY <1>0, <1>1 DEF SegmentsOf
    <2>. QED
      BY <2>1, PageStarts, Zenon
  <1>3. 1 \in 1 .. n /\ n \in 1 .. n /\ n \in Nat
    BY DEF SegmentsOf
  <1>4. /\ final \in Nat /\ first \in Nat /\ last \in Nat /\ n = last - first + 1
        /\ s[1].page = first /\ s[n].page = last
    <2>1. final \in Nat
      BY <1>0
    <2>2. first \in Nat /\ last \in Nat
      BY <1>0, <2>1, Paged
    <2>3. n = last - first + 1
      BY DEF SegmentsOf
    <2>4. s[1].page = first + 1 - 1 /\ s[n].page = first + n - 1
      BY <1>0, <1>3 DEF SegmentsOf
    <2>. QED
      BY <1>0, <2>1, <2>2, <2>3, <2>4
  <1>5. PageStart(s[1].page) + s[1].first = address /\ PageStart(s[n].page) + s[n].last = final
    BY <1>0, <1>3 DEF SegmentsOf
  <1>6. \A k \in 1 .. n : s[k].page = first + k - 1
    BY DEF SegmentsOf
  <1>7. ASSUME NEW k \in 1 .. n, NEW i \in s[k].first .. s[k].last
        PROVE  PageStart(s[k].page) + i - address \in 0 .. size - 1
    <2>1. s[k].first >= 0 /\ s[k].last <= PageSectors - 1
      BY <1>0, <1>1 DEF SegmentsOf
    <2>2. PageStart(s[k].page) + i >= address
      <3>1. CASE k = 1
        BY <1>0, <1>2, <1>5, <3>1
      <3>2. CASE k # 1
        <4>1. s[1].page < s[k].page /\ s[1].page \in Int /\ s[k].page \in Int
          BY <1>0, <1>2, <1>3, <1>4, <1>6, <3>2
        <4>2. PageStart(s[1].page) + PageSectors <= PageStart(s[k].page)
          BY <4>1, PageStarts, Zenon
        <4>3. s[1].first <= PageSectors - 1
          BY <1>0, <1>1, <1>3 DEF SegmentsOf
        <4>. QED
          BY <1>0, <1>1, <1>2, <1>3, <1>5, <2>1, <4>2, <4>3
      <3>. QED
        BY <1>0, <3>1, <3>2
    <2>3. PageStart(s[k].page) + i <= final
      <3>1. CASE k = n
        BY <1>0, <1>2, <1>4, <1>5, <3>1
      <3>2. CASE k # n
        <4>1. s[k].page < s[n].page /\ s[n].page \in Int /\ s[k].page \in Int
          BY <1>0, <1>2, <1>3, <1>4, <1>6, <3>2
        <4>2. PageStart(s[k].page) + PageSectors <= PageStart(s[n].page)
          BY <4>1, PageStarts, Zenon
        <4>3. s[n].last >= 0
          BY <1>0, <1>1, <1>3 DEF SegmentsOf
        <4>. QED
          BY <1>0, <1>1, <1>2, <1>3, <1>4, <1>5, <2>1, <4>2, <4>3
      <3>. QED
        BY <1>0, <3>1, <3>2
    <2>. QED
      BY <1>0, <1>2, <2>2, <2>3
  <1>8. ASSUME NEW j \in 0 .. size - 1
        PROVE  \E k \in 1 .. n : \E i \in s[k].first .. s[k].last :
                  PageStart(s[k].page) + i = address + j
    <2>. DEFINE a == address + j
                q == PageOf(a)
                i == (a % PageSectors)
                k == q - first + 1
    <2>1. a \in Nat /\ a >= address /\ a <= final
      BY <1>0
    <2>2. q \in Nat /\ i \in 0 .. PageSectors - 1 /\ a = PageStart(q) + i
      BY <1>0, <2>1, Paged
    <2>. HIDE DEF a, q, i
    <2>3. q \in Int /\ first \in Int /\ last \in Int
          /\ PageStart(q) \in Int /\ PageStart(first) \in Int /\ PageStart(last) \in Int
      <3>1. q \in Int /\ first \in Int /\ last \in Int
        BY <1>0, <1>4, <2>2
      <3>. QED
        BY <3>1, PageStarts, Zenon
    <2>. HIDE DEF first, last, final
    <2>4. first <= q
      <3>. SUFFICES ASSUME q < first PROVE FALSE
        BY <1>0, <2>3
      <3>1. PageStart(q) + PageSectors <= PageStart(first)
        BY <2>3, PageStarts, Zenon
      <3>2. s[1].first >= 0 /\ PageStart(first) + s[1].first = address
        BY <1>0, <1>1, <1>3, <1>4, <1>5 DEF SegmentsOf
      <3>. QED
        BY <1>0, <1>1, <1>2, <1>3, <2>1, <2>2, <2>3, <3>1, <3>2
    <2>5. q <= last
      <3>. SUFFICES ASSUME last < q PROVE FALSE
        BY <1>0, <2>3
      <3>1. PageStart(last) + PageSectors <= PageStart(q)
        BY <2>3, PageStarts, Zenon
      <3>2. s[n].last <= PageSectors - 1 /\ PageStart(last) + s[n].last = final
        BY <1>0, <1>1, <1>3, <1>4, <1>5 DEF SegmentsOf
      <3>. QED
        BY <1>0, <1>1, <1>2, <1>3, <1>4, <2>1, <2>2, <2>3, <3>1, <3>2
    <2>6. k \in 1 .. n /\ s[k].page = q
      <3>1. k \in 1 .. n
        BY <1>0, <1>4, <2>2, <2>4, <2>5
      <3>2. s[k].page = first + k - 1
        BY <1>0, <1>6, <3>1
      <3>. QED
        BY <1>0, <2>2, <1>4, <3>1, <3>2
    <2>. HIDE DEF k
    <2>7. s[k].first <= i
      <3>1. CASE k = 1
        BY <1>0, <1>2, <1>3, <1>5, <2>1, <2>2, <2>3, <2>6, <3>1
      <3>2. CASE k # 1
        BY <1>0, <2>2, <2>6, <3>2 DEF SegmentsOf
      <3>. QED
        BY <1>0, <3>1, <3>2
    <2>8. i <= s[k].last
      <3>1. CASE k = n
        BY <1>0, <1>2, <1>3, <1>4, <1>5, <2>1, <2>2, <2>3, <2>6, <3>1
      <3>2. CASE k # n
        BY <1>0, <1>1, <2>2, <2>6, <3>2 DEF SegmentsOf
      <3>. QED
        BY <1>0, <3>1, <3>2
    <2>9. i \in s[k].first .. s[k].last /\ PageStart(s[k].page) + i = address + j
      BY <1>0, <1>1, <1>2, <2>2, <2>6, <2>7, <2>8 DEF a
    <2>. QED
      BY <1>0, <2>6, <2>9
  <1>. QED
    BY <1>0, <1>7, <1>8 DEF Cover

\* The request has the segments of the buffer, and the frames granted are their pages.
Placed(request, address, size, n) ==
    /\ SegmentsOf(address, size, request.segments, n) /\ request.sector \in Int
    /\ \A k \in 1 .. n : grants.entry[request.refs[k]].frame = request.segments[k].page
MovesTo(request, address, size) ==
    Moves(request) = {<<request.sector + j, address + j>> : j \in 0 .. size - 1}

\* What Moves() computes: each sector of the request and its address in the buffer.
LEMMA MovesAre ==
    ASSUME NEW request, NEW address, NEW size, NEW n, Placed(request, address, size, n)
    PROVE  MovesTo(request, address, size)
  <1>. SUFFICES ASSUME address \in Nat, size \in Nat, size > 0,
                       SegmentsOf(address, size, request.segments, n), request.sector \in Int,
                       \A k \in 1 .. n :
                          grants.entry[request.refs[k]].frame = request.segments[k].page
                PROVE  Moves(request) = {<<request.sector + j, address + j>> : j \in 0 .. size - 1}
    BY DEF Placed, MovesTo, SegmentsOf
  <1>. DEFINE s == request.segments
              Step(f) == [k \in 1 .. n + 1 |-> IF k = 1 THEN 0
                             ELSE f[k - 1] + s[k - 1].last - s[k - 1].first + 1]
              before == CHOOSE f : f = Step(f)
              b == [k \in 1 .. n + 1 |-> IF k = n + 1 THEN size ELSE Lies(address, s, k)]
              Move(k, i) == <<request.sector + before[k] + i - s[k].first,
                              grants.entry[request.refs[k]].frame * PageSectors + i>>
  <1>1. n \in Nat /\ n >= 1 /\ Len(s) = n /\ DOMAIN s = 1 .. n
    BY DEF SegmentsOf
  <1>2. Moves(request) = UNION {{Move(k, i) : i \in s[k].first .. s[k].last} : k \in 1 .. n}
    <2>1. Moves(request) = UNION {{Move(k, i) : i \in s[k].first .. s[k].last} : k \in DOMAIN s}
      BY <1>1 DEF Moves
    <2>. QED
      BY <1>1, <2>1, Zenon
  <1>3. /\ Lies(address, s, 1) = 0
        /\ \A k \in 1 .. n : Lies(address, s, k) \in Int
        /\ \A k \in 2 .. n :
              Lies(address, s, k) = Lies(address, s, k - 1) + s[k - 1].last - s[k - 1].first + 1
        /\ size = Lies(address, s, n) + s[n].last - s[n].first + 1
    <2>1. SegmentsOf(address, size, s, n)
      OBVIOUS
    <2>. HIDE DEF s
    <2>2. Follow(address, size, s, n)
      BY <2>1, SegmentsFollow
    <2>. QED
      BY <2>2 DEF Follow
  <1>4. b = Step(b)
    <2>1. ASSUME NEW k \in 1 .. n + 1, k # 1
          PROVE  b[k] = b[k - 1] + s[k - 1].last - s[k - 1].first + 1
      <3>1. CASE k = n + 1
        <4>1. k - 1 = n /\ n \in 1 .. n + 1 /\ n # n + 1
          BY <1>1, <3>1
        <4>2. b[k] = size /\ b[k - 1] = Lies(address, s, n)
          BY <3>1, <4>1
        <4>. HIDE DEF b, s
        <4>. QED
          BY <1>3, <4>1, <4>2
      <3>2. CASE k # n + 1
        <4>1. k \in 2 .. n /\ k - 1 \in 1 .. n + 1 /\ k - 1 # n + 1
          BY <1>1, <2>1, <3>2
        <4>2. b[k] = Lies(address, s, k) /\ b[k - 1] = Lies(address, s, k - 1)
          BY <3>2, <4>1
        <4>. HIDE DEF b, s
        <4>. QED
          BY <1>3, <4>1, <4>2
      <3>. QED
        BY <3>1, <3>2
    <2>2. b[1] = 0
      BY <1>1, <1>3
    <2>3. b = [k \in 1 .. n + 1 |-> b[k]]
      OBVIOUS
    <2>. HIDE DEF b, s
    <2>. QED
      BY <2>1, <2>2, <2>3
  <1>5. before = Step(before)
    <2>. HIDE DEF Step
    <2>. QED
      BY <1>4
  <1>. HIDE DEF before
  <1>6. \A k \in 1 .. n + 1 : before[k] = IF k = 1 THEN 0
                             ELSE before[k - 1] + s[k - 1].last - s[k - 1].first + 1
    BY <1>5
  <1>. HIDE DEF Step, b, s
  <1>7. \A k \in 1 .. n : before[k] = Lies(address, s, k)
    <2>. DEFINE S == {0} \cup {k \in 1 .. n : before[k] = Lies(address, s, k)}
    <2>1. ASSUME NEW k \in 1 .. n, k - 1 \in S PROVE k \in S
      <3>1. CASE k = 1
        BY <1>1, <1>3, <1>6, <3>1
      <3>2. CASE k # 1
        <4>1. k \in 2 .. n /\ k \in 1 .. n + 1 /\ k - 1 \in 1 .. n
          BY <1>1, <3>2
        <4>2. before[k - 1] = Lies(address, s, k - 1)
          BY <2>1, <4>1
        <4>. QED
          BY <1>3, <1>6, <3>2, <4>1, <4>2
      <3>. QED
        BY <3>1, <3>2
    <2>2. 0 \in S /\ n \in Nat
      BY <1>1
    <2>. HIDE DEF S
    <2>3. \A k \in 0 .. n : k \in S
      BY <2>1, <2>2, UpTo
    <2>. QED
      BY <2>3 DEF S
  <1>8. \A k \in 1 .. n : /\ PageStart(s[k].page) \in Int
                          /\ s[k].first \in Int /\ s[k].last \in Int
    <2>1. PageSectors \in Nat
      BY PageStarts
    <2>2. \A k \in 1 .. n : s[k].page \in Int /\ s[k].first \in Int /\ s[k].last \in Int
      BY <2>1 DEF SegmentsOf, s
    <2>. QED
      BY <2>2, PageStarts, Zenon
  <1>9. ASSUME NEW k \in 1 .. n, NEW i \in s[k].first .. s[k].last
        PROVE  LET j == PageStart(s[k].page) + i - address
               IN  Move(k, i) = <<request.sector + j, address + j>> /\ j \in Int
    <2>. DEFINE j == PageStart(s[k].page) + i - address
    <2>1. grants.entry[request.refs[k]].frame * PageSectors = PageStart(s[k].page)
      BY DEF PageStart, s
    <2>2. before[k] = PageStart(s[k].page) + s[k].first - address
      BY <1>7 DEF Lies
    <2>3. i \in Int /\ j \in Int
      BY <1>8
    <2>4. request.sector + before[k] + i - s[k].first = request.sector + j
      BY <1>8, <2>2, <2>3
    <2>5. PageStart(s[k].page) + i = address + j
      BY <1>8, <2>3
    <2>. QED
      BY <2>1, <2>3, <2>4, <2>5
  <1>. HIDE DEF Move
  <1>10. /\ \A k \in 1 .. n : \A i \in s[k].first .. s[k].last :
                 PageStart(s[k].page) + i - address \in 0 .. size - 1
         /\ \A j \in 0 .. size - 1 : \E k \in 1 .. n : \E i \in s[k].first .. s[k].last :
                 PageStart(s[k].page) + i = address + j
    <2>1. SegmentsOf(address, size, s, n)
      BY DEF s
    <2>2. Cover(address, size, s, n)
      BY <2>1, SegmentsCover
    <2>. QED
      BY <2>2 DEF Cover
  <1>. DEFINE All == {<<request.sector + j, address + j>> : j \in 0 .. size - 1}
  <1>11. ASSUME NEW k \in 1 .. n, NEW i \in s[k].first .. s[k].last PROVE Move(k, i) \in All
    BY <1>9, <1>10
  <1>12. ASSUME NEW j \in 0 .. size - 1
         PROVE  \E k \in 1 .. n : \E i \in s[k].first .. s[k].last :
                   <<request.sector + j, address + j>> = Move(k, i)
    <2>1. PICK k \in 1 .. n : \E i \in s[k].first .. s[k].last :
                 PageStart(s[k].page) + i = address + j
      BY <1>10
    <2>2. PICK i \in s[k].first .. s[k].last : PageStart(s[k].page) + i = address + j
      BY <2>1
    <2>3. PageStart(s[k].page) + i - address = j
      BY <1>8, <2>2
    <2>4. Move(k, i) = <<request.sector + j, address + j>>
      BY <1>9, <2>3
    <2>. QED
      BY <2>4
  <1>13. \A x : x \in Moves(request) <=>
                   \E k \in 1 .. n : \E i \in s[k].first .. s[k].last : x = Move(k, i)
    BY <1>2
  <1>14. \A x : x \in All <=> \E j \in 0 .. size - 1 : x = <<request.sector + j, address + j>>
    OBVIOUS
  <1>. HIDE DEF All
  <1>15. \A x : x \in Moves(request) <=> x \in All
    <2>1. ASSUME NEW x \in Moves(request) PROVE x \in All
      BY <1>11, <1>13
    <2>2. ASSUME NEW x \in All PROVE x \in Moves(request)
      <3>1. PICK j \in 0 .. size - 1 : x = <<request.sector + j, address + j>>
        BY <1>14
      <3>2. PICK k \in 1 .. n : \E i \in s[k].first .. s[k].last : x = Move(k, i)
        BY <1>12, <3>1
      <3>. QED
        BY <1>13, <3>2
    <2>. QED
      BY <2>1, <2>2
  <1>. QED
    BY <1>15 DEF All

-----------------------------------------------------------------------------
(* The inductive invariant.                                                *)

FlushOps  == {Barrier, FlushCache}
AllOps    == {"none", "BLKIF_OP_READ"} \cup FlushOps
Statuses  == {"EFI_SUCCESS", "EFI_DEVICE_ERROR"}
Segment   == [page : Nat, first : Nat, last : Nat]
Request   == [op : {"BLKIF_OP_READ"} \cup FlushOps, sector : Nat, refs : Seq(Refs),
              segments : Seq(Segment)]
Message   == {Empty} \cup Request \cup [op : {"BLKIF_OP_READ"} \cup FlushOps, status : Statuses]
SyncLists == {<<>>, <<Barrier>>, <<FlushCache>>, <<Barrier, FlushCache>>}

Geometries == [SectorSize : Nat \ {0}, BlockSize : Nat \ {0}, LastBlock : Nat]

Types ==
    /\ held \subseteq {"Dev", "EventChannel", "Ring", "Watch", "BlockIo"}
    /\ grants \in Grants
    /\ RingRef \in Refs \cup {0}
    /\ media \in Geometries
    /\ SyncOps \in SyncLists /\ ops \in Seq(FlushOps) /\ then \in {"idle", "setClosing"}
    /\ call \in [Lba : Nat, Sector : Nat, Buffer : Nat, BufferSize : Nat, done : Nat,
                 moved : SUBSET (Nat \X Nat)]
    /\ IoData \in [Status : {"none", "EFI_ALREADY_STARTED"} \cup Statuses, refs : Seq(Refs)]
    /\ front \in [req_prod_pvt : Indices, rsp_cons : Indices]
    /\ sring \in [req_prod : Indices, req_event : Indices, rsp_prod : Indices,
                  slot : [0 .. RING_SIZE - 1 -> Message]]
    /\ frontState \in {Initialising, Connected, Closing, Closed}
    /\ fired \in BOOLEAN /\ gaveUp \in BOOLEAN
    /\ backend \in [state : {InitWait, Connected, Closing, Closed}, ref : Refs \cup {0},
                    req_cons : Indices, taken : SUBSET Request, awake : BOOLEAN,
                    checking : BOOLEAN]

Unbound    == {"off", "unbound"}
Connecting == {"register", "awaitConnected", "watchConnected"}
Working    == {"info", "idle", "io", "push", "notify", "Sync", "setClosing"}
Leaving    == {"awaitClosing", "watchClosing", "setClosed"}
Left       == {"awaitClosed", "watchClosed"}
Gone       == {"awaitInitWait", "watchInitWait", "Close", "Error"}

\* The handshake: which of the two has come how far, and who holds the ring.
Handshake ==
    /\ pc \in Unbound \cup {"transaction", "setInitialising"} \cup Connecting \cup Working
              \cup Leaving \cup Left \cup Gone
    /\ IF pc \in Unbound THEN RingRef = 0 ELSE RingRef # 0 /\ "Ring" \in held
    /\ backend.state \in {InitWait, Closed} => backend.ref = 0
    /\ backend.state = Connected => backend.ref # 0
    /\ backend.ref = 0 => backend.taken = {}
    /\ gaveUp => pc \in {"Close", "Error", "unbound"}
    /\ ~gaveUp /\ backend.ref # 0 => backend.ref = RingRef
    /\ ~gaveUp /\ pc \in Unbound \cup Gone \cup {"transaction"} =>
          frontState = Initialising /\ backend.ref = 0
    /\ pc \in Connecting =>
          frontState \in {Initialising, Connected} /\ (frontState = Initialising => backend.ref = 0)
    /\ pc \in Working => frontState = Connected /\ backend.ref # 0
    /\ pc \in Leaving => frontState = Closing /\ backend.ref # 0
    /\ pc \in Left => frontState = Closed
    /\ pc = "setInitialising" => frontState = Closed /\ backend.state = Closed

\* No request yet.
Fresh == front.req_prod_pvt = 0 /\ front.rsp_cons = 0 /\ sring.req_prod = 0 /\ sring.rsp_prod = 0

Started == IoData.Status = "EFI_ALREADY_STARTED"

\* What the driver is doing, and with which data.
Activity ==
    /\ pc \in Connecting \cup {"transaction"} => Fresh
    /\ backend.state = InitWait /\ frontState = Connected => Fresh
    /\ gaveUp => backend.taken = {} /\ (backend.ref # 0 => backend.req_cons = sring.req_prod)
    /\ pc \notin {"io", "push", "notify"} => IoData = NoIo
    /\ pc \in {"push", "notify"} => Started \/ IoData = NoIo
    /\ ~Started => IoData.refs = <<>>
    /\ Started => ops = <<>>
    /\ pc = "io" \/ Started => call.BufferSize > 0 /\ call.done <= call.BufferSize
    /\ pc = "io" /\ IoData.Status = "none" => call.done = 0 /\ call.moved = {}
    /\ pc \notin {"Sync", "push", "notify"} => ops = <<>>
    /\ Len(ops) <= Len(SyncOps)
    /\ \A i \in 1 .. Len(ops) : ops[i] = SyncOps[Len(SyncOps) - Len(ops) + i]

\* Every reference is in use or free; those in use are known, and so are those mapped.
Accounted ==
    /\ asserted \subseteq Alignment
    /\ IF pc = "off" THEN Permitted(grants) = {} ELSE Listed(grants)
    /\ RingRef # 0 => RingRef \in Permitted(grants)
    /\ ~gaveUp =>
          /\ Permitted(grants) = ({RingRef} \ {0}) \cup SeqSet(IoData.refs)
          /\ {ref \in Refs : grants.entry[ref].mapped} =
                ({backend.ref} \ {0}) \cup UNION {SeqSet(request.refs) : request \in backend.taken}
    /\ \A i, j \in 1 .. Len(IoData.refs) : IoData.refs[i] = IoData.refs[j] => i = j
    /\ \A i \in 1 .. Len(IoData.refs) : IoData.refs[i] # RingRef

\* The sectors and the addresses of the first n sectors of the transfer.
Extent(n) == {<<call.Sector + i, call.Buffer + i>> : i \in 0 .. n - 1}

ReadRequest(from) ==
    [op |-> "BLKIF_OP_READ", sector |-> call.Sector + from, refs |-> IoData.refs,
     segments |-> Segments(call.Buffer + from, call.done - from)]
FlushRequest(op) == [op |-> op, sector |-> 0, refs |-> <<>>, segments |-> <<>>]

\* The requests pushed since the driver last had none in flight, or the end of them.
Batch(from) ==
    IF Started THEN <<ReadRequest(from)>>
    ELSE [i \in 1 .. Len(SyncOps) - Len(ops) |-> FlushRequest(SyncOps[i])]

RingIdx(r, i) == EventIdx(r + i)
Idx(i)        == RingIdx(front.rsp_cons, i)

\* Of the n requests in flight a have their response, b are taken and d are published.
Ring(from, a, b, d, n) ==
    /\ {a, b, d, n} \subseteq 0 .. 2 /\ a <= b /\ b <= d /\ d <= n /\ n <= RING_SIZE
    /\ sring.rsp_prod = Idx(a) /\ backend.req_cons = Idx(b) /\ sring.req_prod = Idx(d)
    /\ front.req_prod_pvt = Idx(n)
    /\ n <= Len(Batch(from))
    /\ \A i \in b .. n - 1 : sring.slot[Slot(Idx(i))] = Batch(from)[Len(Batch(from)) - n + i + 1]
    /\ \A i \in 0 .. a - 1 :
          LET response == sring.slot[Slot(Idx(i))]
          IN  /\ response.op = "BLKIF_OP_READ" <=> Started
              /\ Started => response.status \in Statuses
              /\ Started /\ response.status = "EFI_SUCCESS" => call.moved = Extent(call.done)
    /\ \A request \in backend.taken :
          \E i \in 1 .. Len(Batch(from)) - n + b : request = Batch(from)[i]
    /\ IsFiniteSet(backend.taken) /\ Cardinality(backend.taken) = b - a
    /\ pc = "push" => d = n - 1
    /\ pc # "push" => d = n
    /\ pc \notin {"io", "push", "notify", "Sync"} => n = 0
    /\ pc = "io" /\ ~Started => n = 0
    /\ Started =>
          /\ n = 1 /\ from \in Nat /\ from < call.done
          /\ a = 0 => call.moved = Extent(from)
          /\ LET segments == Segments(call.Buffer + from, call.done - from)
             IN  /\ Len(IoData.refs) = Len(segments)
                 /\ \A k \in 1 .. Len(segments) :
                       grants.entry[IoData.refs[k]].frame = segments[k].page

Rings == ~gaveUp /\ backend.ref # 0 => \E from, a, b, d, n \in Nat : Ring(from, a, b, d, n)

Transfer == pc = "io" /\ IoData.Status = "EFI_SUCCESS" => call.moved = Extent(call.done)

IInv == Types /\ Handshake /\ Activity /\ Accounted /\ Rings /\ Transfer

-----------------------------------------------------------------------------
(* Facts that the steps share.                                             *)

\* The backend's maps change nothing but the flags of the entries.
LEMMA MapRefsIs ==
    ASSUME NEW g \in Grants, NEW refs, NEW flag \in BOOLEAN
    PROVE  LET h == MapRefs(g, refs, flag)
           IN  /\ h \in Grants /\ h.list = g.list /\ Permitted(h) = Permitted(g)
               /\ Listed(g) => Listed(h)
               /\ \A r \in Refs : /\ h.entry[r].frame = g.entry[r].frame
                                  /\ r \in refs => h.entry[r].mapped = flag
                                  /\ r \notin refs => h.entry[r] = g.entry[r]
  <1>. DEFINE h == MapRefs(g, refs, flag)
              e == [r \in Refs |-> IF r \in refs THEN [g.entry[r] EXCEPT !.mapped = flag]
                                                 ELSE g.entry[r]]
  <1>1. /\ g = [list |-> g.list, entry |-> g.entry]
        /\ g.list \in [Entries -> Entries] /\ g.entry \in [Refs -> Entry]
    BY DEF Grants
  <1>2. h = [list |-> g.list, entry |-> e] /\ h.list = g.list /\ h.entry = e
    BY <1>1 DEF MapRefs
  <1>. HIDE DEF h
  <1>3. ASSUME NEW r \in Refs
        PROVE  /\ e[r] \in Entry /\ e[r].frame = g.entry[r].frame /\ e[r].permit = g.entry[r].permit
               /\ r \in refs => e[r].mapped = flag
               /\ r \notin refs => e[r] = g.entry[r]
    <2>1. g.entry[r] \in Entry
      BY <1>1
    <2>2. CASE r \in refs
      BY <2>1, <2>2 DEF Entry
    <2>3. CASE r \notin refs
      BY <2>1, <2>3
    <2>. QED
      BY <2>2, <2>3
  <1>4. e \in [Refs -> Entry]
    BY <1>3
  <1>. HIDE DEF e
  <1>5. h \in Grants
    BY <1>1, <1>2, <1>4 DEF Grants
  <1>6. Permitted(h) = Permitted(g)
    BY <1>2, <1>3 DEF Permitted
  <1>7. Listed(g) => Listed(h)
    BY <1>2, <1>6 DEF Listed, FreeList
  <1>. QED
    BY <1>2, <1>3, <1>5, <1>6, <1>7 DEF h

\* x % m of a number below 2 m.
LEMMA ModOnce ==
    ASSUME NEW m \in Nat, m > 0, NEW x \in 0 .. 2 * m - 1
    PROVE  (x % m) = IF x < m THEN x ELSE x - m
  OBVIOUS

\* The indices of the ring, with IdxMod a multiple of the ring's size.
LEMMA RingIdxIs ==
    ASSUME NEW r \in Indices
    PROVE  /\ IdxMod \in Nat /\ IdxMod > 1 /\ RING_SIZE \in Nat /\ RING_SIZE >= 1
           /\ RingIdx(r, 0) = r
           /\ \A i \in 0 .. RING_SIZE :
                 /\ RingIdx(r, i) \in Indices
                 /\ EventIdx(RingIdx(r, i) + 1) = RingIdx(r, i + 1)
                 /\ RingIdx(EventIdx(r + 1), i) = RingIdx(r, i + 1)
                 /\ EventIdx(RingIdx(r, i) - r) = i
           /\ \A i, j \in 0 .. RING_SIZE : RingIdx(r, i) = RingIdx(r, j) => i = j
  <1>1. IdxMod \in Nat /\ RING_SIZE \in Nat /\ RING_SIZE >= 1 /\ IdxMod > RING_SIZE
        /\ r \in 0 .. IdxMod - 1
    BY XenPvBlkAssumption DEF Indices
  <1>2. \A x \in 0 .. 2 * IdxMod - 1 : EventIdx(x) = IF x < IdxMod THEN x ELSE x - IdxMod
    BY <1>1, ModOnce DEF EventIdx
  <1>3. \A x \in -IdxMod .. -1 : EventIdx(x) = x + IdxMod
    BY <1>1 DEF EventIdx
  <1>. HIDE DEF EventIdx
  <1>4. RingIdx(r, 0) = r
    BY <1>1, <1>2 DEF RingIdx
  <1>5. ASSUME NEW i \in 0 .. RING_SIZE + 1
        PROVE  RingIdx(r, i) = IF r + i < IdxMod THEN r + i ELSE r + i - IdxMod
    <2>. DEFINE y == r + i
    <2>1. y \in 0 .. 2 * IdxMod - 1
      BY <1>1
    <2>2. RingIdx(r, i) = EventIdx(y)
      BY DEF RingIdx
    <2>. HIDE DEF y
    <2>3. EventIdx(y) = IF y < IdxMod THEN y ELSE y - IdxMod
      BY <1>2, <2>1
    <2>. QED
      BY <1>1, <2>2, <2>3 DEF y
  <1>6. ASSUME NEW i \in 0 .. RING_SIZE
        PROVE  /\ RingIdx(r, i) \in Indices
               /\ EventIdx(RingIdx(r, i) + 1) = RingIdx(r, i + 1)
               /\ RingIdx(EventIdx(r + 1), i) = RingIdx(r, i + 1)
               /\ EventIdx(RingIdx(r, i) - r) = i
    <2>1. RingIdx(r, i) = IF r + i < IdxMod THEN r + i ELSE r + i - IdxMod
      BY <1>1, <1>5
    <2>2. RingIdx(r, i + 1) = IF r + (i + 1) < IdxMod THEN r + (i + 1) ELSE r + (i + 1) - IdxMod
      BY <1>1, <1>5
    <2>3. EventIdx(r + 1) = IF r + 1 < IdxMod THEN r + 1 ELSE r + 1 - IdxMod
      BY <1>1, <1>2
    <2>4. RingIdx(r, i) \in Indices
      BY <1>1, <2>1 DEF Indices
    <2>5. RingIdx(r, i) + 1 \in 0 .. 2 * IdxMod - 1
      BY <1>1, <2>1
    <2>6. EventIdx(RingIdx(r, i) + 1) = RingIdx(r, i + 1)
      BY <1>1, <1>2, <2>1, <2>2, <2>5
    <2>7. RingIdx(EventIdx(r + 1), i) = RingIdx(r, i + 1)
      <3>1. EventIdx(r + 1) + i \in 0 .. 2 * IdxMod - 1
        BY <1>1, <2>3
      <3>. QED
        BY <1>1, <1>2, <2>2, <2>3, <3>1 DEF RingIdx
    <2>8. EventIdx(RingIdx(r, i) - r) = i
      <3>1. CASE r + i < IdxMod
        <4>1. RingIdx(r, i) - r = i /\ i \in 0 .. 2 * IdxMod - 1
          BY <1>1, <2>1, <3>1
        <4>. QED
          BY <1>1, <1>2, <4>1
      <3>2. CASE r + i >= IdxMod
        <4>1. RingIdx(r, i) - r = i - IdxMod /\ i - IdxMod \in -IdxMod .. -1
          BY <1>1, <2>1, <3>2
        <4>. QED
          BY <1>1, <1>3, <4>1
      <3>. QED
        BY <1>1, <3>1, <3>2
    <2>. QED
      BY <2>4, <2>6, <2>7, <2>8
  <1>7. ASSUME NEW i \in 0 .. RING_SIZE, NEW j \in 0 .. RING_SIZE, RingIdx(r, i) = RingIdx(r, j)
        PROVE  i = j
    <2>1. /\ RingIdx(r, i) = IF r + i < IdxMod THEN r + i ELSE r + i - IdxMod
          /\ RingIdx(r, j) = IF r + j < IdxMod THEN r + j ELSE r + j - IdxMod
      BY <1>1, <1>5
    <2>2. (IF r + i < IdxMod THEN r + i ELSE r + i - IdxMod)
             = (IF r + j < IdxMod THEN r + j ELSE r + j - IdxMod)
      BY <1>7, <2>1, Zenon
    <2>. QED
      BY <1>1, <2>2
  <1>. QED
    BY <1>1, <1>4, <1>6, <1>7

\* Different requests in flight have different slots.
LEMMA SlotIs ==
    ASSUME NEW r \in Indices
    PROVE  /\ \A i \in 0 .. RING_SIZE : Slot(RingIdx(r, i)) \in 0 .. RING_SIZE - 1
           /\ \A i, j \in 0 .. RING_SIZE - 1 : Slot(RingIdx(r, i)) = Slot(RingIdx(r, j)) => i = j
  <1>1. IdxMod \in Nat /\ RING_SIZE \in Nat /\ RING_SIZE >= 1 /\ IdxMod > RING_SIZE
        /\ IdxMod % RING_SIZE = 0 /\ r \in 0 .. IdxMod - 1
    BY XenPvBlkAssumption DEF Indices
  <1>. DEFINE K == IdxMod \div RING_SIZE
  <1>2. K \in Nat /\ IdxMod = K * RING_SIZE
    BY <1>1
  <1>. HIDE DEF K
  <1>3. ASSUME NEW x \in Nat PROVE (x % RING_SIZE) \in 0 .. RING_SIZE - 1
    BY <1>1
  <1>4. ASSUME NEW x \in Nat, NEW y \in Nat, x < y, y < x + RING_SIZE,
               (x % RING_SIZE) = (y % RING_SIZE)
        PROVE  FALSE
    <2>. DEFINE p == x \div RING_SIZE
                q == y \div RING_SIZE
                z == (x % RING_SIZE)
    <2>1. p \in Int /\ x = p * RING_SIZE + z /\ z \in Int
      BY <1>1
    <2>2. q \in Int /\ y = q * RING_SIZE + z
      BY <1>1, <1>4
    <2>. HIDE DEF p, q, z
    <2>3. q * RING_SIZE - p * RING_SIZE = y - x /\ y - x > 0 /\ y - x < RING_SIZE
      BY <1>1, <1>4, <2>1, <2>2
    <2>4. (q - p) * RING_SIZE = q * RING_SIZE - p * RING_SIZE /\ q - p \in Int
      BY <1>1, <2>1, <2>2
    <2>5. \A m \in Int : m >= 1 => m * RING_SIZE >= RING_SIZE
      BY <1>1
    <2>6. \A m \in Int : m <= 0 => m * RING_SIZE <= 0
      BY <1>1
    <2>. QED
      BY <1>1, <2>1, <2>2, <2>3, <2>4, <2>5, <2>6
  <1>5. ASSUME NEW x \in Nat, x >= IdxMod PROVE ((x - IdxMod) % RING_SIZE) = (x % RING_SIZE)
    <2>. DEFINE y == x - IdxMod
                p == x \div RING_SIZE
                q == y \div RING_SIZE
                z == (x % RING_SIZE)
                w == (y % RING_SIZE)
    <2>1. p \in Int /\ x = p * RING_SIZE + z /\ z \in 0 .. RING_SIZE - 1
      BY <1>1
    <2>2. y \in Nat
      BY <1>1, <1>5
    <2>3. q \in Int /\ y = q * RING_SIZE + w /\ w \in 0 .. RING_SIZE - 1
      <3>. HIDE DEF y
      <3>. QED
        BY <1>1, <2>2
    <2>4. x = y + K * RING_SIZE
      BY <1>1, <1>2
    <2>. HIDE DEF y, p, q, z, w
    <2>5. (q + K - p) * RING_SIZE = q * RING_SIZE + K * RING_SIZE - p * RING_SIZE
          /\ q + K - p \in Int
      BY <1>1, <1>2, <2>1, <2>3
    <2>6. q * RING_SIZE + K * RING_SIZE - p * RING_SIZE = z - w
      BY <1>1, <1>2, <2>1, <2>2, <2>3, <2>4
    <2>7. \A m \in Int : m >= 1 => m * RING_SIZE >= RING_SIZE
      BY <1>1
    <2>8. \A m \in Int : m <= -1 => m * RING_SIZE <= -RING_SIZE
      BY <1>1
    <2>9. (q + K - p) * RING_SIZE = z - w
      BY <2>5, <2>6
    <2>. DEFINE m == q + K - p
    <2>10. m \in Int /\ m * RING_SIZE = z - w
      BY <2>5, <2>9
    <2>. HIDE DEF m
    <2>11. m = 0
      BY <1>1, <2>1, <2>3, <2>7, <2>8, <2>10
    <2>12. z = w
      BY <1>1, <2>1, <2>3, <2>10, <2>11
    <2>. QED
      BY <2>12 DEF y, z, w
  <1>6. ASSUME NEW i \in 0 .. RING_SIZE
        PROVE  /\ Slot(RingIdx(r, i)) = ((r + i) % RING_SIZE)
               /\ Slot(RingIdx(r, i)) \in 0 .. RING_SIZE - 1
    <2>1. r + i \in 0 .. 2 * IdxMod - 1 /\ r + i \in Nat
      BY <1>1
    <2>2. RingIdx(r, i) = IF r + i < IdxMod THEN r + i ELSE r + i - IdxMod
      BY <1>1, <2>1, ModOnce DEF RingIdx, EventIdx
    <2>3. Slot(RingIdx(r, i)) = ((r + i) % RING_SIZE)
      <3>1. CASE r + i < IdxMod
        BY <2>2, <3>1 DEF Slot
      <3>2. CASE ~(r + i < IdxMod)
        <4>1. RingIdx(r, i) = r + i - IdxMod /\ r + i >= IdxMod
          BY <1>1, <2>1, <2>2, <3>2
        <4>2. ((r + i - IdxMod) % RING_SIZE) = ((r + i) % RING_SIZE)
          <5>. DEFINE y == r + i
          <5>1. y \in Nat /\ y >= IdxMod
            BY <2>1, <4>1
          <5>. HIDE DEF y
          <5>2. ((y - IdxMod) % RING_SIZE) = (y % RING_SIZE)
            BY <1>5, <5>1
          <5>. QED
            BY <1>1, <5>2 DEF y
        <4>. QED
          BY <4>1, <4>2 DEF Slot
      <3>. QED
        BY <3>1, <3>2
    <2>4. ((r + i) % RING_SIZE) \in 0 .. RING_SIZE - 1
      BY <1>3, <2>1
    <2>. QED
      BY <2>3, <2>4
  <1>7. ASSUME NEW i \in 0 .. RING_SIZE - 1, NEW j \in 0 .. RING_SIZE - 1,
               Slot(RingIdx(r, i)) = Slot(RingIdx(r, j))
        PROVE  i = j
    <2>1. i \in 0 .. RING_SIZE /\ j \in 0 .. RING_SIZE
      BY <1>1
    <2>2. ((r + i) % RING_SIZE) = ((r + j) % RING_SIZE)
      BY <1>6, <1>7, <2>1
    <2>3. r + i \in Nat /\ r + j \in Nat
      BY <1>1
    <2>4. CASE i < j
      <3>1. r + i < r + j /\ r + j < r + i + RING_SIZE
        BY <1>1, <2>4
      <3>. QED
        BY <1>4, <2>2, <2>3, <3>1
    <2>5. CASE j < i
      <3>1. r + j < r + i /\ r + i < r + j + RING_SIZE
        BY <1>1, <2>5
      <3>. QED
        BY <1>4, <2>2, <2>3, <3>1
    <2>. QED
      BY <1>1, <2>4, <2>5
  <1>. QED
    BY <1>6, <1>7

\* The requests are requests.
LEMMA RequestsAre ==
    /\ \A op \in FlushOps : FlushRequest(op) \in Request
    /\ Empty \in Message /\ Request \subseteq Message
    /\ \A op \in {"BLKIF_OP_READ"} \cup FlushOps, status \in Statuses :
          [op |-> op, status |-> status] \in Message
  <1>1. <<>> \in Seq(Refs) /\ <<>> \in Seq(Segment)
    OBVIOUS
  <1>2. ASSUME NEW op \in FlushOps PROVE FlushRequest(op) \in Request
    BY <1>1 DEF FlushRequest, Request
  <1>. QED
    BY <1>2 DEF Message

\* Segments as a sequence, and how many there are of them.
LEMMA SegmentsTyped ==
    ASSUME NEW address \in Nat, NEW size \in Nat, size > 0
    PROVE  /\ Segments(address, size) \in Seq(Segment) /\ Len(Segments(address, size)) \in Nat
           /\ DOMAIN Segments(address, size) = 1 .. Len(Segments(address, size))
           /\ Len(Segments(address, size)) = PageOf(address + size - 1) - PageOf(address) + 1
           /\ \A k \in 1 .. Len(Segments(address, size)) : Segments(address, size)[k].page \in Nat
  <1>. DEFINE s == Segments(address, size)
              n == Len(s)
  <1>1. SegmentsOf(address, size, s, n)
    BY SegmentsAre
  <1>2. PageSectors \in Nat
    BY PageStarts
  <1>3. s = [k \in 1 .. n |-> [page |-> s[k].page, first |-> s[k].first, last |-> s[k].last]]
    <2>1. s = [k \in DOMAIN s |-> [page |-> s[k].page, first |-> s[k].first, last |-> s[k].last]]
      BY DEF Segments
    <2>2. DOMAIN s = 1 .. n
      BY <1>1 DEF SegmentsOf
    <2>. HIDE DEF s, n
    <2>. QED
      BY <2>1, <2>2
  <1>. HIDE DEF s, n
  <1>4. \A k \in 1 .. n : s[k].page \in Nat /\ s[k].first \in Nat /\ s[k].last \in Nat
    BY <1>1, <1>2 DEF SegmentsOf
  <1>5. \A k \in 1 .. n :
           [page |-> s[k].page, first |-> s[k].first, last |-> s[k].last] \in Segment
    BY <1>4 DEF Segment
  <1>6. s \in [1 .. n -> Segment] /\ n \in Nat
    BY <1>1, <1>3, <1>5 DEF SegmentsOf
  <1>7. s \in Seq(Segment)
    BY <1>6
  <1>. QED
    BY <1>1, <1>4, <1>7 DEF SegmentsOf, s, n

\* When no request is started, only the ring's reference is in use.
LEMMA AvailableRefs ==
    ASSUME IInv, ~gaveUp, ~Started, RingRef # 0
    PROVE  /\ Permitted(grants) = {RingRef}
           /\ Cardinality(Refs \ Permitted(grants)) \in Nat
           /\ Cardinality(Refs \ Permitted(grants)) >= BLKIF_MAX_SEGMENTS_PER_REQUEST
  <1>1. SeqSet(IoData.refs) = {}
    BY DEF IInv, Activity, SeqSet
  <1>2. Permitted(grants) = {RingRef} /\ RingRef \in Refs
    BY <1>1 DEF IInv, Accounted, Types
  <1>3. /\ IsFiniteSet(Refs \ {RingRef})
        /\ Cardinality(Refs \ {RingRef}) = Cardinality(Refs) - 1
    BY <1>2, RefsAre, FS_RemoveElement
  <1>4. /\ Cardinality(Refs) = NR_GRANT_ENTRIES - NR_RESERVED_ENTRIES
        /\ NR_GRANT_ENTRIES \in Nat /\ NR_RESERVED_ENTRIES \in Nat
        /\ BLKIF_MAX_SEGMENTS_PER_REQUEST \in Nat
        /\ NR_GRANT_ENTRIES - NR_RESERVED_ENTRIES > BLKIF_MAX_SEGMENTS_PER_REQUEST
    BY RefsAre, GrantAssumption, XenPvBlkAssumption
  <1>. QED
    BY <1>2, <1>3, <1>4

\* XenPvBlockAsyncIo(): the request it pushes and the references it takes.
AsyncIoEffect(size, segments, refs) ==
    /\ size \in Nat /\ size > 0 /\ size <= call.BufferSize - call.done
    /\ segments = Segments(call.Buffer + call.done, size) /\ segments \in Seq(Segment)
    /\ Len(segments) \in Nat /\ Len(refs) = Len(segments) /\ refs \in Seq(Refs)
    /\ GrantedAll(grants, refs, segments, Len(segments), grants')
    /\ asserted' \subseteq Alignment
    /\ IoData' = [Status |-> "EFI_ALREADY_STARTED", refs |-> refs]
    /\ call' = [call EXCEPT !.done = @ + size]
    /\ sring' = [sring EXCEPT !.slot[Slot(front.req_prod_pvt)] =
                    [op |-> "BLKIF_OP_READ", sector |-> call.Sector + call.done,
                     refs |-> refs, segments |-> segments]]

LEMMA AsyncIoIs ==
    ASSUME IInv, XenPvBlockAsyncIo
    PROVE  \E size, segments, refs : AsyncIoEffect(size, segments, refs)
  <1>. DEFINE address  == call.Buffer + call.done
              size     == IoSize(address, call.BufferSize - call.done)
              segments == Segments(address, size)
              n        == Len(segments)
              after    == GrantAll(segments)
              refs     == [k \in DOMAIN segments |-> NextFree(after[k - 1])]
  <1>1. /\ pc = "io" /\ ~Started /\ call.done < call.BufferSize
        /\ asserted' = asserted \cup
                          AssertsFailed(call.Sector + call.done, size, address, segments, refs)
        /\ grants' = after[n]
        /\ IoData' = [Status |-> "EFI_ALREADY_STARTED", refs |-> refs]
        /\ sring' = [sring EXCEPT !.slot[Slot(front.req_prod_pvt)] =
                        [op |-> "BLKIF_OP_READ", sector |-> call.Sector + call.done,
                         refs |-> refs, segments |-> segments]]
        /\ call' = [call EXCEPT !.done = @ + size]
    BY DEF XenPvBlockAsyncIo, Started
  <1>2. /\ call.Buffer \in Nat /\ call.done \in Nat /\ call.BufferSize \in Nat
        /\ address \in Nat /\ call.BufferSize - call.done \in Nat /\ call.BufferSize - call.done > 0
    BY <1>1 DEF IInv, Types
  <1>. HIDE DEF address
  <1>3. /\ size \in 1 .. call.BufferSize - call.done
        /\ PageOf(address + size - 1) - PageOf(address) + 1 <= BLKIF_MAX_SEGMENTS_PER_REQUEST
    BY <1>2, IoSizeIs
  <1>4. size \in Nat /\ size > 0 /\ size <= call.BufferSize - call.done
    BY <1>2, <1>3
  <1>. HIDE DEF size
  <1>5. /\ segments \in Seq(Segment) /\ n \in Nat /\ DOMAIN segments = 1 .. n
        /\ n <= BLKIF_MAX_SEGMENTS_PER_REQUEST /\ \A k \in 1 .. n : segments[k].page \in Nat
    BY <1>2, <1>3, <1>4, SegmentsTyped
  <1>. HIDE DEF segments, n
  <1>6. /\ ~gaveUp /\ RingRef # 0 /\ grants \in Grants /\ Listed(grants)
        /\ asserted \subseteq Alignment /\ BLKIF_MAX_SEGMENTS_PER_REQUEST \in Nat
    BY <1>1, XenPvBlkAssumption DEF IInv, Handshake, Types, Accounted, Unbound
  <1>7. n <= Cardinality(Refs \ Permitted(grants))
    BY <1>1, <1>5, <1>6, AvailableRefs
  <1>8. DOMAIN refs = 1 .. n /\ \A k \in 1 .. n : refs[k] = NextFree(after[k - 1])
    BY <1>5
  <1>. HIDE DEF refs
  <1>9. GrantedAll(grants, refs, segments, n, after[n])
    <2>1. Len(segments) = n
      BY DEF n
    <2>2. \A k \in 1 .. n : segments[k].page \in Int
      BY <1>5
    <2>. QED
      BY <1>5, <1>6, <1>7, <1>8, <2>1, <2>2, GrantAllIs, Zenon
  <1>10. \A k \in 1 .. n : refs[k] \in Refs
    BY <1>9 DEF GrantedAll
  <1>11. refs \in Seq(Refs) /\ Len(refs) = n
    <2>1. refs = [k \in 1 .. n |-> NextFree(after[k - 1])]
      BY <1>5 DEF refs
    <2>2. refs \in [1 .. n -> Refs]
      BY <1>8, <1>10, <2>1
    <2>. QED
      BY <1>5, <2>2
  <1>12. asserted' \subseteq Alignment
    <2>1. ~(n > BLKIF_MAX_SEGMENTS_PER_REQUEST)
      BY <1>5, <1>6
    <2>2. ~(\E k \in DOMAIN refs : refs[k] \notin Refs)
      BY <1>8, <1>10
    <2>3. AssertsFailed(call.Sector + call.done, size, address, segments, refs) \subseteq Alignment
      BY <2>1, <2>2, Zenon DEF AssertsFailed, n
    <2>. QED
      BY <1>1, <1>6, <2>3
  <1>13. AsyncIoEffect(size, segments, refs)
    BY <1>1, <1>4, <1>5, <1>9, <1>11, <1>12 DEF AsyncIoEffect, segments, address, n
  <1>. QED
    BY <1>13

\* XenPvBlockAsyncIoPoll(): whose response it reads, and what it ends.
PollEffect(from, a, b, d, n) ==
    /\ Ring(from, a, b, d, n) /\ a >= 1
    /\ Started => /\ backend.taken = {}
                  /\ EndedAll(grants, IoData.refs, Len(IoData.refs), grants')
                  /\ IoData'.Status = "EFI_SUCCESS" => call.moved = Extent(call.done)
                  /\ \E status \in Statuses : IoData' = [Status |-> status, refs |-> <<>>]
    /\ ~Started => UNCHANGED <<grants, IoData>>

LEMMA PollIs ==
    ASSUME IInv, XenPvBlockAsyncIoPoll
    PROVE  /\ ~gaveUp /\ backend.ref # 0 /\ pc \in {"io", "Sync"}
           /\ \E from, a, b, d, n \in Nat : PollEffect(from, a, b, d, n)
  <1>1. ~gaveUp /\ backend.ref # 0 /\ pc \in {"io", "Sync"}
    BY DEF IInv, Handshake, XenPvBlockAsyncIoPoll, Polling, Working
  <1>2. PICK from, a, b, d, n \in Nat : Ring(from, a, b, d, n)
    BY <1>1 DEF IInv, Rings
  <1>3. front.rsp_cons \in Indices /\ RingIdx(front.rsp_cons, 0) = front.rsp_cons
    BY RingIdxIs DEF IInv, Types
  <1>4. a >= 1
    <2>1. a # 0
      BY <1>2, <1>3 DEF Ring, Idx, XenPvBlockAsyncIoPoll
    <2>. QED
      BY <2>1
  <1>. DEFINE response == sring.slot[Slot(front.rsp_cons)]
  <1>5. /\ response.op = "BLKIF_OP_READ" <=> Started
        /\ Started => response.status \in Statuses
        /\ Started /\ response.status = "EFI_SUCCESS" => call.moved = Extent(call.done)
    <2>1. 0 \in 0 .. a - 1 /\ Idx(0) = front.rsp_cons
      BY <1>3, <1>4 DEF Idx
    <2>. QED
      BY <1>2, <2>1 DEF Ring
  <1>6. IF response.op = "BLKIF_OP_READ"
        THEN /\ grants' = EndAll(IoData.refs)
             /\ IoData' = [Status |-> response.status, refs |-> <<>>]
        ELSE UNCHANGED <<grants, IoData>>
    BY DEF XenPvBlockAsyncIoPoll
  <1>. HIDE DEF response
  <1>7. CASE ~Started
    BY <1>1, <1>2, <1>4, <1>5, <1>6, <1>7 DEF PollEffect
  <1>8. CASE Started
    <2>. DEFINE refs == IoData.refs
    <2>1. b - a = 0
      BY <1>2, <1>4, <1>8 DEF Ring
    <2>2. backend.taken = {}
      BY <1>2, <2>1, FS_EmptySet DEF Ring
    <2>3. refs \in Seq(Refs) /\ Len(refs) \in Nat /\ DOMAIN refs = 1 .. Len(refs)
      BY DEF IInv, Types
    <2>4. {ref \in Refs : grants.entry[ref].mapped} = {RingRef}
      BY <1>1, <2>2 DEF IInv, Accounted, Handshake
    <2>5. Endable(grants, refs, Len(refs))
      <3>1. ASSUME NEW k \in 1 .. Len(refs)
            PROVE  refs[k] \in Permitted(grants) /\ ~grants.entry[refs[k]].mapped
        <4>1. refs[k] \in Refs /\ refs[k] # RingRef /\ refs[k] \in SeqSet(refs)
          BY <2>3 DEF IInv, Accounted, SeqSet
        <4>2. refs[k] \in Permitted(grants)
          BY <1>1, <4>1 DEF IInv, Accounted
        <4>. QED
          BY <2>4, <4>1, <4>2
      <3>. QED
        BY <3>1 DEF Endable, IInv, Accounted
    <2>6. grants \in Grants /\ Listed(grants)
      BY <1>1 DEF IInv, Types, Accounted
    <2>7. EndedAll(grants, refs, Len(refs), EndAll(refs))
      <3>. HIDE DEF refs
      <3>. QED
        BY <2>3, <2>5, <2>6, EndAllIs
    <2>8. grants' = EndAll(refs) /\ IoData' = [Status |-> response.status, refs |-> <<>>]
      BY <1>5, <1>6, <1>8
    <2>9. PollEffect(from, a, b, d, n)
      BY <1>2, <1>4, <1>5, <1>8, <2>2, <2>7, <2>8 DEF PollEffect
    <2>. QED
      BY <1>1, <2>9
  <1>. QED
    BY <1>7, <1>8

\* The backend's step, when it takes a request or answers one, belongs to a driver that waits.
LEMMA TakenIs ==
    ASSUME IInv, NEW request \in backend.taken
    PROVE  ~gaveUp /\ backend.ref # 0
  BY DEF IInv, Activity, Handshake

LEMMA TakeIs ==
    ASSUME IInv, BackendTake
    PROVE  /\ ~gaveUp /\ backend.ref # 0
           /\ \E from, a, b, d, n \in Nat :
                 /\ Ring(from, a, b, d, n) /\ b < d
                 /\ sring.slot[Slot(backend.req_cons)] = Batch(from)[Len(Batch(from)) - n + b + 1]
  <1>1. ~gaveUp /\ backend.ref # 0
    BY DEF IInv, Activity, BackendTake
  <1>2. PICK from, a, b, d, n \in Nat : Ring(from, a, b, d, n)
    BY <1>1 DEF IInv, Rings
  <1>3. b # d
    BY <1>2 DEF Ring, BackendTake
  <1>4. b < d /\ b \in b .. n - 1
    BY <1>2, <1>3 DEF Ring
  <1>5. sring.slot[Slot(backend.req_cons)] = Batch(from)[Len(Batch(from)) - n + b + 1]
    BY <1>2, <1>4 DEF Ring
  <1>. QED
    BY <1>1, <1>2, <1>4, <1>5

\* A flush has at most two operations, and they are different.
LEMMA SyncListsAre ==
    ASSUME NEW s \in SyncLists
    PROVE  /\ Len(s) \in 0 .. 2 /\ \A i \in 1 .. Len(s) : s[i] \in FlushOps
           /\ \A i, j \in 1 .. Len(s) : s[i] = s[j] => i = j
           /\ s \in Seq(FlushOps)
  <1>1. CASE s = <<>>
    BY <1>1
  <1>2. CASE s = <<Barrier>>
    <2>1. Len(s) = 1 /\ s[1] = Barrier
      BY <1>2
    <2>. QED
      BY <1>2, <2>1 DEF FlushOps
  <1>3. CASE s = <<FlushCache>>
    <2>1. Len(s) = 1 /\ s[1] = FlushCache
      BY <1>3
    <2>. QED
      BY <1>3, <2>1 DEF FlushOps
  <1>4. CASE s = <<Barrier, FlushCache>>
    <2>1. Len(s) = 2 /\ s[1] = Barrier /\ s[2] = FlushCache
      BY <1>4
    <2>2. Barrier # FlushCache
      BY DEF Barrier, FlushCache
    <2>3. \A i \in 1 .. 2 : i = 1 \/ i = 2
      OBVIOUS
    <2>4. s \in Seq(FlushOps)
      BY <1>4 DEF FlushOps
    <2>. QED
      BY <2>1, <2>2, <2>3, <2>4 DEF FlushOps
  <1>. QED
    BY <1>1, <1>2, <1>3, <1>4 DEF SyncLists

\* The batch: at most two requests, all different.
BatchOf(B, from) ==
    /\ B \in Seq(Request) /\ Len(B) \in 0 .. 2 /\ \A i, j \in 1 .. Len(B) : B[i] = B[j] => i = j
    /\ Started => B = <<ReadRequest(from)>>
    /\ ~Started => /\ Len(B) = Len(SyncOps) - Len(ops)
                   /\ \A i \in 1 .. Len(B) : B[i] = FlushRequest(SyncOps[i])
                                             /\ B[i].refs = <<>> /\ B[i].segments = <<>>
                                             /\ B[i].op \in FlushOps

LEMMA BatchIs ==
    ASSUME IInv, NEW from \in Nat, Started => from < call.done
    PROVE  BatchOf(Batch(from), from)
  <1>. DEFINE B == Batch(from)
  <1>1. CASE Started
    <2>. DEFINE R == ReadRequest(from)
    <2>1. /\ call.Sector \in Nat /\ call.Buffer \in Nat /\ call.done \in Nat
          /\ IoData.refs \in Seq(Refs)
      BY DEF IInv, Types
    <2>2. call.Buffer + from \in Nat /\ call.done - from \in Nat /\ call.done - from > 0
          /\ call.Sector + from \in Nat
      BY <1>1, <2>1
    <2>3. Segments(call.Buffer + from, call.done - from) \in Seq(Segment)
      BY <2>2, SegmentsTyped
    <2>4. R \in Request
      BY <2>1, <2>2, <2>3 DEF ReadRequest, Request
    <2>5. B = <<R>>
      BY <1>1 DEF Batch
    <2>. HIDE DEF R, B
    <2>6. B \in Seq(Request) /\ Len(B) = 1
      BY <2>4, <2>5
    <2>. QED
      BY <1>1, <2>5, <2>6 DEF BatchOf, B, R
  <1>2. CASE ~Started
    <2>. DEFINE m == Len(SyncOps) - Len(ops)
    <2>1. /\ Len(SyncOps) \in 0 .. 2 /\ \A i \in 1 .. Len(SyncOps) : SyncOps[i] \in FlushOps
          /\ \A i, j \in 1 .. Len(SyncOps) : SyncOps[i] = SyncOps[j] => i = j
      <3>1. SyncOps \in SyncLists
        BY DEF IInv, Types
      <3>. QED
        BY <3>1, SyncListsAre
    <2>2. Len(ops) \in Nat /\ Len(ops) <= Len(SyncOps)
      BY DEF IInv, Types, Activity
    <2>3. m \in 0 .. 2 /\ m <= Len(SyncOps)
      BY <2>1, <2>2
    <2>4. B = [i \in 1 .. m |-> FlushRequest(SyncOps[i])]
      BY <1>2 DEF Batch
    <2>. HIDE DEF m, B
    <2>5. \A i \in 1 .. m : i \in 1 .. Len(SyncOps)
      BY <2>1, <2>3
    <2>6. \A i \in 1 .. m : SyncOps[i] \in FlushOps /\ FlushRequest(SyncOps[i]) \in Request
      BY <2>1, <2>5, RequestsAre
    <2>7. B \in [1 .. m -> Request] /\ \A i \in 1 .. m : B[i] = FlushRequest(SyncOps[i])
      BY <2>4, <2>6
    <2>8. B \in Seq(Request) /\ Len(B) = m
      BY <2>3, <2>7
    <2>9. \A i \in 1 .. m : B[i].refs = <<>> /\ B[i].segments = <<>> /\ B[i].op = SyncOps[i]
      BY <2>7 DEF FlushRequest
    <2>10. \A i, j \in 1 .. m : B[i] = B[j] => i = j
      BY <2>1, <2>5, <2>9
    <2>. QED
      BY <1>2, <2>3, <2>6, <2>7, <2>8, <2>9, <2>10 DEF BatchOf, m, B
  <1>. QED
    BY <1>1, <1>2

\* A request after another moves the blocks after the other's.
LEMMA ExtentsJoin ==
    ASSUME NEW from \in Nat, NEW size \in Nat, call.Sector \in Nat, call.Buffer \in Nat
    PROVE  Extent(from) \cup
              {<<call.Sector + from + j, call.Buffer + from + j>> : j \in 0 .. size - 1}
             = Extent(from + size)
  <1>. DEFINE New == {<<call.Sector + from + j, call.Buffer + from + j>> : j \in 0 .. size - 1}
  <1>1. ASSUME NEW x \in Extent(from) PROVE x \in Extent(from + size)
    <2>1. PICK i \in 0 .. from - 1 : x = <<call.Sector + i, call.Buffer + i>>
      BY DEF Extent
    <2>2. i \in 0 .. from + size - 1
      OBVIOUS
    <2>. QED
      BY <2>1, <2>2 DEF Extent
  <1>2. ASSUME NEW x \in New PROVE x \in Extent(from + size)
    <2>1. PICK j \in 0 .. size - 1 : x = <<call.Sector + from + j, call.Buffer + from + j>>
      OBVIOUS
    <2>2. from + j \in 0 .. from + size - 1
      OBVIOUS
    <2>3. x = <<call.Sector + (from + j), call.Buffer + (from + j)>>
      BY <2>1
    <2>. QED
      BY <2>2, <2>3 DEF Extent
  <1>3. ASSUME NEW x \in Extent(from + size) PROVE x \in Extent(from) \/ x \in New
    <2>1. PICK i \in 0 .. from + size - 1 : x = <<call.Sector + i, call.Buffer + i>>
      BY DEF Extent
    <2>2. CASE i < from
      BY <2>1, <2>2 DEF Extent
    <2>3. CASE i >= from
      <3>1. i - from \in 0 .. size - 1
        BY <2>3
      <3>2. x = <<call.Sector + from + (i - from), call.Buffer + from + (i - from)>>
        BY <2>1
      <3>. QED
        BY <3>1, <3>2
    <2>. QED
      BY <2>2, <2>3
  <1>. QED
    BY <1>1, <1>2, <1>3

\* A flush moves nothing.
LEMMA NoMoves ==
    ASSUME NEW request, request.segments = <<>>
    PROVE  Moves(request) = {}
  <1>1. DOMAIN request.segments = {}
    OBVIOUS
  <1>2. \A S : (\A x : x \notin S) => S = {}
    OBVIOUS
  <1>. SUFFICES ASSUME NEW x \in Moves(request) PROVE FALSE
    BY <1>2
  <1>. QED
    BY <1>1 DEF Moves

\* BackendRespond(): the request is the driver's, and its data completes the blocks moved.
RespondEffect(request, from, a, b, d, n) ==
    /\ Ring(from, a, b, d, n) /\ a < b /\ request \in Request
    /\ Started => /\ request = ReadRequest(from) /\ a = 0 /\ b = 1 /\ d = 1 /\ n = 1
                  /\ request.op = "BLKIF_OP_READ" /\ request.refs = IoData.refs
                  /\ call.moved \cup Moves(request) = Extent(call.done)
    /\ ~Started => /\ request.refs = <<>> /\ request.op \in FlushOps /\ Moves(request) = {}

LEMMA RespondIs ==
    ASSUME IInv, NEW request \in backend.taken
    PROVE  /\ ~gaveUp /\ backend.ref # 0
           /\ \E from, a, b, d, n \in Nat : RespondEffect(request, from, a, b, d, n)
  <1>1. ~gaveUp /\ backend.ref # 0
    BY TakenIs
  <1>2. PICK from, a, b, d, n \in Nat : Ring(from, a, b, d, n)
    BY <1>1 DEF IInv, Rings
  <1>3. a < b
    <2>1. IsFiniteSet(backend.taken) /\ Cardinality(backend.taken) = b - a /\ a <= b
      BY <1>2 DEF Ring
    <2>2. b - a # 0
      BY <2>1, FS_EmptySet
    <2>. QED
      BY <2>1, <2>2
  <1>4. request \in Request
    BY DEF IInv, Types
  <1>. DEFINE B == Batch(from)
  <1>5. BatchOf(B, from)
    BY <1>2, BatchIs DEF Ring
  <1>6. PICK i \in 1 .. Len(B) - n + b : request = B[i]
    BY <1>2 DEF Ring
  <1>. HIDE DEF B
  <1>7. i \in 1 .. Len(B)
    BY <1>2, <1>5, <1>6 DEF Ring, BatchOf
  <1>8. CASE ~Started
    <2>1. request.refs = <<>> /\ request.segments = <<>> /\ request.op \in FlushOps
      BY <1>5, <1>6, <1>7, <1>8 DEF BatchOf
    <2>2. Moves(request) = {}
      BY <2>1, NoMoves
    <2>3. RespondEffect(request, from, a, b, d, n)
      BY <1>2, <1>3, <1>4, <1>8, <2>1, <2>2 DEF RespondEffect
    <2>. QED
      BY <1>1, <2>3
  <1>9. CASE Started
    <2>1. a = 0 /\ b = 1 /\ d = 1 /\ n = 1 /\ from < call.done /\ call.moved = Extent(from)
      BY <1>2, <1>3, <1>9 DEF Ring
    <2>2. request = ReadRequest(from)
      <3>1. B = <<ReadRequest(from)>>
        BY <1>5, <1>9 DEF BatchOf
      <3>2. Len(B) = 1 /\ B[1] = ReadRequest(from)
        BY <3>1
      <3>. QED
        BY <1>6, <1>7, <3>2
    <2>. DEFINE address == call.Buffer + from
                size == call.done - from
                segments == Segments(address, size)
    <2>3. /\ request.op = "BLKIF_OP_READ" /\ request.refs = IoData.refs
          /\ request.sector = call.Sector + from /\ request.segments = segments
      BY <2>2 DEF ReadRequest
    <2>4. call.Sector \in Nat /\ call.Buffer \in Nat /\ call.done \in Nat
      BY DEF IInv, Types
    <2>5. address \in Nat /\ size \in Nat /\ size > 0 /\ call.Sector + from \in Int
      BY <2>1, <2>4
    <2>6. SegmentsOf(address, size, segments, Len(segments))
      BY <2>5, SegmentsAre
    <2>7. \A k \in 1 .. Len(segments) : grants.entry[request.refs[k]].frame = segments[k].page
      BY <1>2, <1>9, <2>3 DEF Ring
    <2>. HIDE DEF address, size, segments
    <2>8. Moves(request) = {<<request.sector + j, address + j>> : j \in 0 .. size - 1}
      <3>1. Placed(request, address, size, Len(segments))
        BY <2>3, <2>5, <2>6, <2>7 DEF Placed
      <3>2. MovesTo(request, address, size)
        BY <3>1, MovesAre
      <3>. QED
        BY <3>2 DEF MovesTo
    <2>9. Moves(request) =
             {<<call.Sector + from + j, call.Buffer + from + j>> : j \in 0 .. size - 1}
      BY <2>3, <2>8 DEF address
    <2>10. Extent(from) \cup
              {<<call.Sector + from + j, call.Buffer + from + j>> : j \in 0 .. size - 1}
             = Extent(from + size)
      BY <2>4, <2>5, ExtentsJoin
    <2>11. from + size = call.done
      BY <2>4, <2>5 DEF size
    <2>12. call.moved \cup Moves(request) = Extent(call.done)
      BY <2>1, <2>9, <2>10, <2>11
    <2>13. RespondEffect(request, from, a, b, d, n)
      BY <1>2, <1>3, <1>4, <1>9, <2>1, <2>2, <2>3, <2>12 DEF RespondEffect
    <2>. QED
      BY <1>1, <2>13
  <1>. QED
    BY <1>8, <1>9

-----------------------------------------------------------------------------
(* The invariant holds at first, and every step keeps its types.           *)

LEMMA IdxFacts ==
    /\ IdxMod \in Nat /\ IdxMod > 1 /\ RING_SIZE \in Nat /\ RING_SIZE >= 1
    /\ 0 \in Indices /\ 1 \in Indices
    /\ \A x \in Int : EventIdx(x) \in Indices
    /\ \A x \in Indices : x \in Nat /\ Slot(x) \in 0 .. RING_SIZE - 1
  <1>1. IdxMod \in Nat /\ IdxMod > 1 /\ RING_SIZE \in Nat /\ RING_SIZE >= 1
    BY XenPvBlkAssumption
  <1>2. 0 \in Indices /\ 1 \in Indices
    BY <1>1 DEF Indices
  <1>3. ASSUME NEW x \in Int PROVE EventIdx(x) \in Indices
    BY <1>1 DEF Indices, EventIdx
  <1>4. ASSUME NEW x \in Indices PROVE x \in Nat /\ Slot(x) \in 0 .. RING_SIZE - 1
    <2>1. x \in Nat
      BY <1>1 DEF Indices
    <2>. QED
      BY <1>1, <2>1 DEF Slot
  <1>. QED
    BY <1>1, <1>2, <1>3, <1>4

\* The records that a ring and a backend begin with.
LEMMA NewRing ==
    /\ NoSring \in [req_prod : Indices, req_event : Indices, rsp_prod : Indices,
                    slot : [0 .. RING_SIZE - 1 -> Message]]
    /\ [req_prod_pvt |-> 0, rsp_cons |-> 0] \in [req_prod_pvt : Indices, rsp_cons : Indices]
    /\ NoBackend \in [state : {InitWait, Connected, Closing, Closed}, ref : Refs \cup {0},
                      req_cons : Indices, taken : SUBSET Request, awake : BOOLEAN,
                      checking : BOOLEAN]
    /\ NoIo \in [Status : {"none", "EFI_ALREADY_STARTED"} \cup Statuses, refs : Seq(Refs)]
    /\ NoCall \in [Lba : Nat, Sector : Nat, Buffer : Nat, BufferSize : Nat, done : Nat,
                   moved : SUBSET (Nat \X Nat)]
    /\ NoMedia \in Geometries
  <1>1. [i \in 0 .. RING_SIZE - 1 |-> Empty] \in [0 .. RING_SIZE - 1 -> Message]
    BY RequestsAre
  <1>2. <<>> \in Seq(Refs)
    OBVIOUS
  <1>3. NoMedia \in Geometries
    BY DEF NoMedia, Geometries
  <1>. QED
    BY <1>1, <1>2, <1>3, IdxFacts DEF NoSring, NoBackend, NoIo, NoCall

LEMMA InitInv == Init => IInv
  <1>. SUFFICES ASSUME Init PROVE IInv
    OBVIOUS
  <1>1. EmptyGrants \in Grants /\ Permitted(EmptyGrants) = {}
        /\ \A ref \in Refs : ~EmptyGrants.entry[ref].mapped
    BY RefsAre DEF EmptyGrants, Grants, Entries, Entry, Unused, NoFrame, Permitted
  <1>2. Types
    <2>1. <<>> \in SyncLists /\ <<>> \in Seq(FlushOps)
      BY DEF SyncLists
    <2>. QED
      BY <1>1, <2>1, NewRing DEF Init, Types
  <1>3. Handshake
    BY DEF Init, Handshake, NoBackend, Unbound, Connecting, Working, Leaving, Left, Gone,
           InitWait, Connected
  <1>4. Activity
    BY DEF Init, Activity, NoIo, Started, Connecting, Connected, Initialising
  <1>5. Accounted
    <2>1. SeqSet(<<>>) = {}
      BY DEF SeqSet
    <2>2. {ref \in Refs : grants.entry[ref].mapped} = {}
      BY <1>1 DEF Init
    <2>3. IoData.refs = <<>> /\ backend.ref = 0 /\ backend.taken = {} /\ RingRef = 0
      BY DEF Init, NoIo, NoBackend
    <2>. QED
      BY <1>1, <2>1, <2>2, <2>3 DEF Init, Accounted
  <1>6. Rings /\ Transfer
    BY DEF Init, Rings, Transfer, NoBackend
  <1>. QED
    BY <1>2, <1>3, <1>4, <1>5, <1>6 DEF IInv

\* The grant table stays one.
LEMMA GrantsStep == IInv /\ [Next]_vars => grants' \in Grants
  <1>. SUFFICES ASSUME IInv, [Next]_vars PROVE grants' \in Grants
    OBVIOUS
  <1>0. grants \in Grants
    BY DEF IInv, Types
  <1>1. CASE grants' = grants
    BY <1>0, <1>1
  <1>2. CASE XenBusStart
    <2>1. Permitted(grants) = {} /\ grants' = XenGrantTableInit(grants)
      BY <1>2 DEF XenBusStart, IInv, Accounted
    <2>. QED
      BY <1>0, <2>1, ListedInit
  <1>3. CASE XenPvBlockFrontInitialization
    <2>1. grants' = XenGrantTableGrantAccess(grants, RingFrame) /\ RingFrame \in Int
      BY <1>3 DEF XenPvBlockFrontInitialization, RingFrame
    <2>. QED
      BY <1>0, <2>1, GrantAccess
  <1>4. CASE XenPvBlockFree
    <2>1. grants' = XenGrantTableEndAccess(grants, RingRef) /\ RingRef \in Refs
      BY <1>4 DEF XenPvBlockFree, IInv, Types, Handshake, Unbound
    <2>. QED
      BY <1>0, <2>1, EndAccess
  <1>5. CASE XenPvBlockAsyncIo
    BY <1>5, AsyncIoIs DEF AsyncIoEffect, GrantedAll
  <1>6. CASE XenPvBlockAsyncIoPoll
    BY <1>0, <1>6, PollIs DEF PollEffect, EndedAll
  <1>7. CASE BackendConnect \/ BackendFollow \/ BackendTake \/ Respond
    <2>1. grants' = grants \/ \E refs, flag : flag \in BOOLEAN /\ grants' = MapRefs(grants, refs, flag)
      <3>1. CASE BackendConnect
        BY <3>1, Zenon DEF BackendConnect
      <3>2. CASE BackendFollow
        BY <3>2, Zenon DEF BackendFollow
      <3>3. CASE BackendTake
        BY <3>3, Zenon DEF BackendTake
      <3>4. CASE Respond
        BY <3>4, Zenon DEF Respond, BackendRespond
      <3>. QED
        BY <1>7, <3>1, <3>2, <3>3, <3>4
    <2>. QED
      BY <1>0, <2>1, MapRefsIs
  <1>8. CASE UNCHANGED vars
    BY <1>1, <1>8 DEF vars
  <1>9. CASE XenBusStop \/ XenPvBlkDxeDriverBindingStop \/ XenPvBlkDxeBlockIoFlushBlocks
             \/ \E lba \in Lbas, buffer \in Buffers, blocks \in BlockCounts :
                   ReadWriteBlocks(lba, buffer, blocks)
    BY <1>1, <1>9 DEF XenBusStop, XenPvBlkDxeDriverBindingStop, XenPvBlkDxeBlockIoFlushBlocks,
                      ReadWriteBlocks
  <1>10. CASE PublishRing \/ RegisterWatchBackend \/ AwaitConnected \/ InstallBlockIo
              \/ XenPvBlockFrontShutdown \/ AwaitInitWait \/ UnregisterWatch
    BY <1>1, <1>10 DEF PublishRing, RegisterWatchBackend, AwaitConnected, InstallBlockIo,
                       XenPvBlockFrontShutdown, AwaitInitWait, UnregisterWatch,
                       XenPvBlkWaitForBackendState, SetState
  <1>11. CASE XenPvBlockPushOperation \/ RingPushRequests \/ CheckNotify
              \/ ReadWriteBlocksReturn \/ XenPvBlockSyncDone
    BY <1>1, <1>11 DEF XenPvBlockPushOperation, RingPushRequests, CheckNotify,
                       ReadWriteBlocksReturn, XenPvBlockSyncDone
  <1>12. CASE BackendSleep \/ BackendUnplug
    BY <1>1, <1>12 DEF BackendSleep, BackendUnplug
  <1>. QED
    BY <1>2, <1>3, <1>4, <1>5, <1>6, <1>7, <1>8, <1>9, <1>10, <1>11, <1>12
       DEF Next, Calls, Steps, BackendSteps

\* The types of the ring's fields and of the backend's, for the steps that change them.
LEMMA RecordsAre ==
    ASSUME Types
    PROVE  /\ front.req_prod_pvt \in Indices /\ front.rsp_cons \in Indices
           /\ sring.req_prod \in Indices /\ sring.req_event \in Indices
           /\ sring.rsp_prod \in Indices /\ backend.req_cons \in Indices
           /\ \A x \in Indices : EventIdx(x + 1) \in Indices
           /\ \A x \in Indices, m \in Message :
                 [sring EXCEPT !.slot[Slot(x)] = m] \in
                    [req_prod : Indices, req_event : Indices, rsp_prod : Indices,
                     slot : [0 .. RING_SIZE - 1 -> Message]]
  <1>1. /\ front.req_prod_pvt \in Indices /\ front.rsp_cons \in Indices
        /\ sring.req_prod \in Indices /\ sring.req_event \in Indices
        /\ sring.rsp_prod \in Indices /\ backend.req_cons \in Indices
    BY DEF Types
  <1>2. ASSUME NEW x \in Indices PROVE EventIdx(x + 1) \in Indices
    BY IdxFacts
  <1>3. ASSUME NEW x \in Indices, NEW m \in Message
        PROVE  [sring EXCEPT !.slot[Slot(x)] = m] \in
                    [req_prod : Indices, req_event : Indices, rsp_prod : Indices,
                     slot : [0 .. RING_SIZE - 1 -> Message]]
    <2>1. Slot(x) \in 0 .. RING_SIZE - 1
      BY IdxFacts
    <2>2. sring.slot \in [0 .. RING_SIZE - 1 -> Message]
      BY DEF Types
    <2>3. [sring.slot EXCEPT ![Slot(x)] = m] \in [0 .. RING_SIZE - 1 -> Message]
      BY <2>1, <2>2
    <2>. QED
      BY <2>3 DEF Types
  <1>. QED
    BY <1>1, <1>2, <1>3

\* No disk has sectors that are larger than a block, and each has at least one block.
LEMMA MediaIs ==
    ASSUME NEW size \in SectorSizes, NEW type \in DeviceTypes,
           type = "cdrom" => CdRomBlockSize % size = 0
    PROVE  LET m == Media(size, type)
           IN  /\ m \in Geometries /\ m.SectorSize = size /\ m.BlockSize % size = 0
               /\ (m.LastBlock + 1) * m.BlockSize <= Sectors * size
  <1>. DEFINE m == Media(size, type)
              q == m.BlockSize \div size
  <1>1. /\ size \in Nat /\ size > 0 /\ CdRomBlockSize \in Nat /\ CdRomBlockSize > 0
        /\ Sectors \in Nat /\ Sectors >= CdRomBlockSize
    BY XenPvBlkAssumption
  <1>2. /\ m = [SectorSize |-> size, BlockSize |-> m.BlockSize, LastBlock |-> Sectors \div q - 1]
        /\ m.LastBlock = Sectors \div q - 1 /\ m.SectorSize = size
        /\ m.BlockSize = IF type = "cdrom" THEN CdRomBlockSize ELSE size
    BY DEF Media
  <1>3. m.BlockSize \in Nat /\ m.BlockSize > 0 /\ m.BlockSize % size = 0
    <2>1. size % size = 0
      BY <1>1, Z3
    <2>. QED
      BY <1>1, <1>2, <2>1
  <1>. DEFINE b == m.BlockSize
  <1>4. q \in Nat /\ q > 0 /\ b = q * size /\ q <= Sectors
    <2>. HIDE DEF m
    <2>1. q \in Nat /\ b = q * size
      <3>1. b \in Nat /\ b % size = 0
        BY <1>3
      <3>. HIDE DEF b
      <3>2. b = (b \div size) * size + (b % size) /\ b \div size \in Nat
        BY <1>1, <3>1, Z3
      <3>3. q = b \div size
        BY DEF b
      <3>. HIDE DEF q
      <3>. QED
        BY <1>1, <3>1, <3>2, <3>3
    <2>. HIDE DEF q, b
    <2>2. q > 0
      <3>1. 0 * size = 0
        BY <1>1
      <3>2. b > 0
        BY <1>3 DEF b
      <3>3. q # 0
        BY <2>1, <3>1, <3>2
      <3>. QED
        BY <2>1, <3>3
    <2>3. q <= Sectors
      <3>1. CASE type = "cdrom"
        <4>1. (q - 1) * (size - 1) >= 0 /\ (q - 1) * (size - 1) = q * size - q - size + 1
          BY <1>1, <2>1, <2>2, Z3
        <4>2. q * size \in Int
          BY <1>1, <2>1
        <4>3. q <= q * size
          BY <1>1, <2>1, <4>1, <4>2
        <4>. QED
          BY <1>1, <1>2, <2>1, <3>1, <4>3 DEF b
      <3>2. CASE type # "cdrom"
        <4>1. q = 1
          BY <1>1, <1>2, <3>2, Z3 DEF q
        <4>. QED
          BY <1>1, <2>1, <4>1
      <3>. QED
        BY <3>1, <3>2
    <2>. QED
      BY <2>1, <2>2, <2>3
  <1>. DEFINE d == Sectors \div q
  <1>. HIDE DEF m, q
  <1>5. d \in Nat /\ d >= 1 /\ d * q <= Sectors
    BY <1>1, <1>4, Z3
  <1>6. m.LastBlock \in Nat /\ m.LastBlock + 1 = d
    BY <1>2, <1>5
  <1>. HIDE DEF d
  <1>7. d * b <= Sectors * size
    <2>1. d * b = (d * q) * size
      BY <1>1, <1>4, <1>5, Z3
    <2>. QED
      BY <1>1, <1>4, <1>5, <2>1, Z3
  <1>. QED
    BY <1>1, <1>2, <1>3, <1>6, <1>7 DEF m, Geometries

\* The types of the other variables.
LEMMA TypesStep == IInv /\ [Next]_vars => Types'
  <1>. SUFFICES ASSUME IInv, [Next]_vars PROVE Types'
    OBVIOUS
  <1>0. grants' \in Grants
    BY GrantsStep
  <1>. DEFINE SringType == [req_prod : Indices, req_event : Indices, rsp_prod : Indices,
                            slot : [0 .. RING_SIZE - 1 -> Message]]
              CallType == [Lba : Nat, Sector : Nat, Buffer : Nat, BufferSize : Nat, done : Nat,
                           moved : SUBSET (Nat \X Nat)]
              IoType == [Status : {"none", "EFI_ALREADY_STARTED"} \cup Statuses, refs : Seq(Refs)]
              FrontType == [req_prod_pvt : Indices, rsp_cons : Indices]
              BackendType == [state : {InitWait, Connected, Closing, Closed},
                              ref : Refs \cup {0}, req_cons : Indices, taken : SUBSET Request,
                              awake : BOOLEAN, checking : BOOLEAN]
              Rest == /\ held \subseteq {"Dev", "EventChannel", "Ring", "Watch", "BlockIo"}
                      /\ RingRef \in Refs \cup {0} /\ media \in Geometries /\ SyncOps \in SyncLists
                      /\ ops \in Seq(FlushOps) /\ then \in {"idle", "setClosing"}
                      /\ frontState \in {Initialising, Connected, Closing, Closed}
                      /\ fired \in BOOLEAN /\ gaveUp \in BOOLEAN
  <1>1. /\ Rest /\ sring \in SringType /\ call \in CallType /\ IoData \in IoType
        /\ front \in FrontType /\ backend \in BackendType /\ Types
    BY DEF IInv, Types
  <1>2. SUFFICES Rest' /\ sring' \in SringType /\ call' \in CallType /\ IoData' \in IoType
                 /\ front' \in FrontType /\ backend' \in BackendType
    BY <1>0 DEF Types
  <1>. HIDE DEF SringType, CallType, IoType, FrontType, BackendType
  <1>3. /\ NoSring \in SringType /\ [req_prod_pvt |-> 0, rsp_cons |-> 0] \in FrontType
        /\ NoBackend \in BackendType /\ NoIo \in IoType /\ NoCall \in CallType
        /\ NoMedia \in Geometries
    BY NewRing DEF SringType, FrontType, BackendType, IoType, CallType
  <1>4. CASE XenBusStart \/ XenBusStop \/ UNCHANGED vars
    BY <1>1, <1>4 DEF XenBusStart, XenBusStop, vars, driver
  <1>5. CASE XenPvBlockFrontInitialization
    <2>1. Permitted(grants) # Refs /\ Listed(grants) /\ grants \in Grants /\ RingFrame \in Int
      <3>1. /\ pc = "unbound" /\ ~gaveUp /\ RingRef = 0 /\ IoData.refs = <<>>
        BY <1>5 DEF XenPvBlockFrontInitialization, IInv, Handshake, Activity, Unbound, NoIo
      <3>2. Permitted(grants) = {}
        BY <3>1 DEF IInv, Accounted, SeqSet
      <3>3. NR_RESERVED_ENTRIES \in Refs
        BY GrantAssumption DEF Refs
      <3>. QED
        BY <3>1, <3>2, <3>3 DEF IInv, Accounted, Types, RingFrame
    <2>2. NextFree(grants) \in Refs
      BY <2>1, ListedAccess
    <2>. QED
      BY <1>1, <1>3, <1>5, <2>2 DEF XenPvBlockFrontInitialization
  <1>6. CASE \/ XenPvBlkDxeDriverBindingStop \/ XenPvBlkDxeBlockIoFlushBlocks \/ PublishRing
             \/ RegisterWatchBackend \/ AwaitInitWait \/ UnregisterWatch
    <2>1. SyncOps \in Seq(FlushOps)
      BY <1>1, SyncListsAre
    <2>. QED
      BY <1>1, <1>6, <2>1 DEF XenPvBlkDxeDriverBindingStop, XenPvBlkDxeBlockIoFlushBlocks,
         PublishRing, RegisterWatchBackend, AwaitInitWait, UnregisterWatch
  <1>7. CASE AwaitConnected \/ XenPvBlockFrontShutdown
    BY <1>1, <1>7 DEF AwaitConnected, XenPvBlockFrontShutdown, XenPvBlkWaitForBackendState,
                      SetState, GiveUp
  <1>8. CASE InstallBlockIo
    <2>1. SyncOps' \in SyncLists
      BY <1>1, <1>8 DEF InstallBlockIo, SyncLists
    <2>2. SyncOps' \in Seq(FlushOps)
      BY <2>1, SyncListsAre
    <2>3. media' \in Geometries
      BY <1>1, <1>8, MediaIs DEF InstallBlockIo
    <2>. QED
      BY <1>1, <1>8, <2>1, <2>2, <2>3 DEF InstallBlockIo, GiveUp
  <1>9. CASE XenPvBlockFree
    BY <1>1, <1>3, <1>9 DEF XenPvBlockFree, SyncLists
  <1>10. ASSUME NEW lba \in Lbas, NEW buffer \in Buffers, NEW blocks \in BlockCounts,
                ReadWriteBlocks(lba, buffer, blocks)
         PROVE  Rest' /\ sring' \in SringType /\ call' \in CallType /\ IoData' \in IoType
                /\ front' \in FrontType /\ backend' \in BackendType
    <2>1. lba \in Nat /\ buffer \in Nat /\ blocks \in Nat /\ media.BlockSize \in Nat
      BY <1>1, XenPvBlkAssumption DEF Geometries
    <2>2. lba * media.BlockSize \in Nat /\ blocks * media.BlockSize \in Nat
      BY <2>1
    <2>3. call' \in CallType
      BY <1>10, <2>1, <2>2 DEF ReadWriteBlocks, CallType
    <2>. QED
      BY <1>1, <1>10, <2>3 DEF ReadWriteBlocks
  <1>11. CASE XenPvBlockAsyncIo
    <2>1. PICK size, segments, refs : AsyncIoEffect(size, segments, refs)
      BY <1>11, AsyncIoIs
    <2>. DEFINE R == [op |-> "BLKIF_OP_READ", sector |-> call.Sector + call.done,
                      refs |-> refs, segments |-> segments]
    <2>2. call.Sector + call.done \in Nat /\ call.done + size \in Nat
      BY <1>1, <2>1 DEF CallType, AsyncIoEffect
    <2>3. R \in Request
      BY <2>1, <2>2 DEF Request, AsyncIoEffect
    <2>4. R \in Message
      BY <2>3, RequestsAre
    <2>5. sring' = [sring EXCEPT !.slot[Slot(front.req_prod_pvt)] = R]
      BY <2>1 DEF AsyncIoEffect
    <2>. HIDE DEF R
    <2>6. sring' \in SringType
      BY <1>1, <2>4, <2>5, RecordsAre DEF SringType
    <2>7. front' \in FrontType
      BY <1>1, <1>11, RecordsAre DEF XenPvBlockAsyncIo, FrontType
    <2>8. call' \in CallType
      BY <1>1, <2>1, <2>2 DEF AsyncIoEffect, CallType
    <2>9. IoData' \in IoType
      BY <2>1 DEF AsyncIoEffect, IoType
    <2>10. UNCHANGED <<held, RingRef, media, SyncOps, ops, then, frontState, fired, gaveUp,
                       backend>>
      BY <1>11, Zenon DEF XenPvBlockAsyncIo
    <2>. QED
      BY <1>1, <2>6, <2>7, <2>8, <2>9, <2>10
  <1>12. CASE XenPvBlockPushOperation
    <2>1. ops[1] \in FlushOps /\ Tail(ops) \in Seq(FlushOps)
      BY <1>1, <1>12 DEF XenPvBlockPushOperation
    <2>. DEFINE R == FlushRequest(ops[1])
    <2>2. R \in Message
      BY <2>1, RequestsAre
    <2>3. sring' = [sring EXCEPT !.slot[Slot(front.req_prod_pvt)] = R]
      BY <1>12 DEF XenPvBlockPushOperation, FlushRequest
    <2>. HIDE DEF R
    <2>4. sring' \in SringType
      BY <1>1, <2>2, <2>3, RecordsAre DEF SringType
    <2>5. front' \in FrontType
      BY <1>1, <1>12, RecordsAre DEF XenPvBlockPushOperation, FrontType
    <2>. QED
      BY <1>1, <1>12, <2>1, <2>4, <2>5 DEF XenPvBlockPushOperation
  <1>13. CASE RingPushRequests
    <2>1. sring' \in SringType
      BY <1>1, <1>13, RecordsAre DEF RingPushRequests, SringType
    <2>. QED
      BY <1>1, <1>13, <2>1 DEF RingPushRequests
  <1>14. CASE CheckNotify
    <2>1. backend' \in BackendType
      BY <1>1, <1>14 DEF CheckNotify, BackendType
    <2>. QED
      BY <1>1, <1>14, <2>1 DEF CheckNotify
  <1>15. CASE XenPvBlockAsyncIoPoll
    <2>1. IoData' \in IoType
      <3>1. PICK from, a, b, d, n \in Nat : PollEffect(from, a, b, d, n)
        BY <1>15, PollIs
      <3>2. CASE ~Started
        BY <1>1, <3>1, <3>2 DEF PollEffect
      <3>3. CASE Started
        <4>1. PICK status \in Statuses : IoData' = [Status |-> status, refs |-> <<>>]
          BY <3>1, <3>3 DEF PollEffect
        <4>2. <<>> \in Seq(Refs)
          OBVIOUS
        <4>. QED
          BY <4>1, <4>2 DEF IoType
      <3>. QED
        BY <3>2, <3>3
    <2>2. sring' \in SringType
      <3>1. sring' = [sring EXCEPT !.slot[Slot(front.rsp_cons)] = Empty]
        BY <1>15 DEF XenPvBlockAsyncIoPoll
      <3>. QED
        BY <1>1, <3>1, RecordsAre, RequestsAre DEF SringType
    <2>3. front' \in FrontType
      BY <1>1, <1>15, RecordsAre DEF XenPvBlockAsyncIoPoll, FrontType
    <2>. QED
      BY <1>1, <1>15, <2>1, <2>2, <2>3 DEF XenPvBlockAsyncIoPoll
  <1>16. CASE ReadWriteBlocksReturn \/ XenPvBlockSyncDone
    BY <1>1, <1>3, <1>16 DEF ReadWriteBlocksReturn, XenPvBlockSyncDone
  <1>17. CASE BackendConnect \/ BackendUnplug \/ BackendFollow
    <2>1. backend' \in BackendType
      <3>1. CASE BackendConnect
        BY <1>1, <1>3, <3>1 DEF BackendConnect, BackendType
      <3>2. CASE BackendUnplug
        BY <1>1, <1>3, <3>2 DEF BackendUnplug, BackendType
      <3>3. CASE BackendFollow
        <4>1. \/ backend' = [backend EXCEPT !.state = Closing]
              \/ backend' = [NoBackend EXCEPT !.state = Closed]
              \/ backend' = NoBackend
          BY <3>3 DEF BackendFollow
        <4>. QED
          BY <1>1, <1>3, <4>1 DEF BackendType
      <3>. QED
        BY <1>17, <3>1, <3>2, <3>3
    <2>2. fired' \in BOOLEAN
      <3>1. fired' = ("Watch" \in held)
        BY <1>17 DEF BackendConnect, BackendUnplug, BackendFollow
      <3>2. ("Watch" \in held) \in BOOLEAN
        OBVIOUS
      <3>. QED
        BY <3>1, <3>2
    <2>. QED
      BY <1>1, <1>17, <2>1, <2>2 DEF BackendConnect, BackendUnplug, BackendFollow, driver
  <1>18. CASE BackendTake
    <2>1. PICK from, a, b, d, n \in Nat :
                 /\ Ring(from, a, b, d, n) /\ b < d
                 /\ sring.slot[Slot(backend.req_cons)] = Batch(from)[Len(Batch(from)) - n + b + 1]
      BY <1>18, TakeIs
    <2>. DEFINE B == Batch(from)
                request == sring.slot[Slot(backend.req_cons)]
    <2>2. BatchOf(B, from)
      BY <2>1, BatchIs DEF Ring
    <2>3. Len(B) - n + b + 1 \in 1 .. Len(B) /\ B \in Seq(Request)
      BY <2>1, <2>2 DEF Ring, BatchOf
    <2>4. request \in Request
      <3>. HIDE DEF B
      <3>1. request = B[Len(B) - n + b + 1]
        BY <2>1 DEF B
      <3>. QED
        BY <2>3, <3>1
    <2>5. backend' = [backend EXCEPT !.req_cons = EventIdx(@ + 1), !.checking = FALSE,
                                     !.taken = @ \cup {request}]
      BY <1>18 DEF BackendTake
    <2>. HIDE DEF request
    <2>6. backend' \in BackendType
      BY <1>1, <2>4, <2>5, RecordsAre DEF BackendType
    <2>7. sring' \in SringType
      <3>1. sring' = [sring EXCEPT !.slot[Slot(backend.req_cons)] = Empty]
        BY <1>18 DEF BackendTake
      <3>. QED
        BY <1>1, <3>1, RecordsAre, RequestsAre DEF SringType
    <2>. QED
      BY <1>1, <1>18, <2>6, <2>7 DEF BackendTake, driver
  <1>19. CASE BackendSleep
    <2>1. backend' \in BackendType
      BY <1>1, <1>19 DEF BackendSleep, BackendType
    <2>2. sring' \in SringType
      BY <1>1, <1>19, RecordsAre DEF BackendSleep, SringType
    <2>. QED
      BY <1>1, <1>19, <2>1, <2>2 DEF BackendSleep, driver
  <1>20. ASSUME NEW request \in backend.taken, NEW status \in Statuses,
                BackendRespond(request, status)
         PROVE  Rest' /\ sring' \in SringType /\ call' \in CallType /\ IoData' \in IoType
                /\ front' \in FrontType /\ backend' \in BackendType
    <2>1. PICK from, a, b, d, n \in Nat : RespondEffect(request, from, a, b, d, n)
      BY RespondIs
    <2>2. call' \in CallType
      <3>1. Extent(call.done) \subseteq Nat \X Nat
        BY <1>1 DEF CallType, Extent
      <3>2. call.moved \cup Moves(request) \subseteq Nat \X Nat
        BY <1>1, <2>1, <3>1 DEF RespondEffect, CallType
      <3>3. call' = call \/ call' = [call EXCEPT !.moved = @ \cup Moves(request)]
        BY <1>20 DEF BackendRespond
      <3>. QED
        BY <1>1, <3>2, <3>3 DEF CallType
    <2>3. sring' \in SringType
      <3>. DEFINE m == [op |-> request.op, status |-> status]
      <3>1. m \in Message
        BY <2>1, RequestsAre DEF RespondEffect, Request
      <3>2. sring' = [[sring EXCEPT !.slot[Slot(sring.rsp_prod)] = m]
                        EXCEPT !.rsp_prod = EventIdx(sring.rsp_prod + 1)]
        BY <1>1, <1>20 DEF BackendRespond, SringType
      <3>. HIDE DEF m
      <3>. DEFINE t == [sring EXCEPT !.slot[Slot(sring.rsp_prod)] = m]
      <3>3. t \in SringType /\ EventIdx(sring.rsp_prod + 1) \in Indices
        BY <1>1, <3>1, RecordsAre DEF SringType
      <3>4. sring' = [t EXCEPT !.rsp_prod = EventIdx(sring.rsp_prod + 1)]
        BY <3>2
      <3>. HIDE DEF t
      <3>. QED
        BY <3>3, <3>4 DEF SringType
    <2>4. backend' \in BackendType
      BY <1>1, <1>20 DEF BackendRespond, BackendType
    <2>. QED
      BY <1>1, <1>20, <2>2, <2>3, <2>4 DEF BackendRespond
  <1>. HIDE DEF Rest
  <1>. QED
    BY <1>4, <1>5, <1>6, <1>7, <1>8, <1>9, <1>10, <1>11, <1>12, <1>13, <1>14, <1>15, <1>16,
       <1>17, <1>18, <1>19, <1>20
       DEF Next, Calls, Steps, BackendSteps, Respond, Statuses

-----------------------------------------------------------------------------
(* The handshake.                                                          *)

\* XenPvBlockFrontInitialization(): the ring's reference was free, and it is the only one in
\* use.
LEMMA InitializationIs ==
    ASSUME IInv, XenPvBlockFrontInitialization
    PROVE  /\ RingRef' \in Refs /\ Listed(grants') /\ Permitted(grants') = {RingRef'}
           /\ asserted' \subseteq Alignment /\ \A ref \in Refs : ~grants'.entry[ref].mapped
  <1>1. pc = "unbound" /\ ~gaveUp /\ RingRef = 0 /\ IoData.refs = <<>> /\ backend.ref = 0
        /\ backend.taken = {}
    BY DEF XenPvBlockFrontInitialization, IInv, Handshake, Activity, Unbound, NoIo
  <1>2. Permitted(grants) = {} /\ {ref \in Refs : grants.entry[ref].mapped} = {}
    BY <1>1 DEF IInv, Accounted, SeqSet
  <1>3. NR_RESERVED_ENTRIES \in Refs
    BY GrantAssumption DEF Refs
  <1>4. Permitted(grants) # Refs /\ Listed(grants) /\ grants \in Grants /\ RingFrame \in Int
        /\ asserted \subseteq Alignment
    BY <1>1, <1>2, <1>3 DEF IInv, Accounted, Types, RingFrame
  <1>. DEFINE ref == NextFree(grants)
              h   == XenGrantTableGrantAccess(grants, RingFrame)
  <1>5. /\ ref \in Refs \ Permitted(grants) /\ Listed(h)
        /\ Permitted(h) = Permitted(grants) \cup {ref}
    BY <1>4, ListedAccess, Zenon
  <1>6. /\ \A r \in Refs \ {ref} : h.entry[r] = grants.entry[r]
        /\ ref \in Refs => h.entry[ref] = [frame |-> RingFrame, permit |-> TRUE, mapped |-> FALSE]
    BY <1>4, GrantAccess, Zenon
  <1>7. /\ RingRef' = ref /\ grants' = h
        /\ asserted' = IF ref \in Refs THEN asserted ELSE asserted \cup {"Ref"}
    BY DEF XenPvBlockFrontInitialization
  <1>. HIDE DEF ref, h
  <1>8. asserted' \subseteq Alignment
    BY <1>4, <1>5, <1>7, Zenon
  <1>9. \A r \in Refs : ~h.entry[r].mapped
    BY <1>2, <1>5, <1>6
  <1>. QED
    BY <1>2, <1>5, <1>7, <1>8, <1>9

LEMMA HandshakeStep == IInv /\ [Next]_vars => Handshake'
  <1>. SUFFICES ASSUME IInv, [Next]_vars PROVE Handshake'
    OBVIOUS
  <1>. USE DEF Handshake, Unbound, Connecting, Working, Leaving, Left, Gone,
               Initialising, InitWait, Connected, Closing, Closed
  <1>1. Handshake
    BY DEF IInv
  <1>2. /\ backend.state \in {InitWait, Connected, Closing, Closed} /\ gaveUp \in BOOLEAN
        /\ frontState \in {Initialising, Connected, Closing, Closed}
        /\ then \in {"idle", "setClosing"}
    BY DEF IInv, Types
  <1>3. CASE XenBusStart \/ XenBusStop \/ UNCHANGED vars
    BY <1>1, <1>3 DEF XenBusStart, XenBusStop, vars, driver
  <1>4. CASE XenPvBlockFrontInitialization
    <2>1. RingRef' # 0
      BY <1>4, InitializationIs, RefsAre
    <2>. QED
      BY <1>1, <1>4, <2>1 DEF XenPvBlockFrontInitialization
  <1>5. CASE XenPvBlkDxeDriverBindingStop
    BY <1>1, <1>5 DEF XenPvBlkDxeDriverBindingStop
  <1>6. CASE XenPvBlkDxeBlockIoFlushBlocks
    BY <1>1, <1>6 DEF XenPvBlkDxeBlockIoFlushBlocks
  <1>7. CASE \E lba \in Lbas, buffer \in Buffers, blocks \in BlockCounts :
                ReadWriteBlocks(lba, buffer, blocks)
    BY <1>1, <1>7 DEF ReadWriteBlocks
  <1>8. CASE PublishRing
    BY <1>1, <1>8 DEF PublishRing
  <1>9. CASE RegisterWatchBackend
    BY <1>1, <1>9 DEF RegisterWatchBackend
  <1>10. CASE AwaitConnected
    BY <1>1, <1>2, <1>10 DEF AwaitConnected, XenPvBlkWaitForBackendState, GiveUp
  <1>11. CASE InstallBlockIo
    BY <1>1, <1>11 DEF InstallBlockIo, GiveUp
  <1>12. CASE XenPvBlockFrontShutdown
    <2>1. CASE SetState("setClosing", Closing, "awaitClosing")
      BY <1>1, <2>1 DEF SetState, GiveUp
    <2>2. CASE XenPvBlkWaitForBackendState("awaitClosing", "watchClosing", Closing, "setClosed")
      BY <1>1, <2>2 DEF XenPvBlkWaitForBackendState, GiveUp
    <2>3. CASE SetState("setClosed", Closed, "awaitClosed")
      BY <1>1, <2>3 DEF SetState, GiveUp
    <2>4. CASE XenPvBlkWaitForBackendState("awaitClosed", "watchClosed", Closed, "setInitialising")
      BY <1>1, <2>4 DEF XenPvBlkWaitForBackendState, GiveUp
    <2>5. CASE SetState("setInitialising", Initialising, "awaitInitWait")
      BY <1>1, <2>5 DEF SetState, GiveUp
    <2>. QED
      BY <1>12, <2>1, <2>2, <2>3, <2>4, <2>5 DEF XenPvBlockFrontShutdown
  <1>13. CASE AwaitInitWait
    BY <1>1, <1>13 DEF AwaitInitWait
  <1>14. CASE UnregisterWatch
    BY <1>1, <1>14 DEF UnregisterWatch
  <1>15. CASE XenPvBlockFree
    BY <1>1, <1>15 DEF XenPvBlockFree
  <1>16. CASE XenPvBlockAsyncIo \/ XenPvBlockAsyncIoPoll
    BY <1>1, <1>16 DEF XenPvBlockAsyncIo, XenPvBlockAsyncIoPoll
  <1>17. CASE XenPvBlockPushOperation \/ RingPushRequests
    BY <1>1, <1>17 DEF XenPvBlockPushOperation, RingPushRequests
  <1>18. CASE CheckNotify
    <2>1. backend'.state = backend.state /\ backend'.ref = backend.ref
          /\ backend'.taken = backend.taken
      BY <1>18 DEF CheckNotify, IInv, Types
    <2>. QED
      BY <1>1, <1>18, <2>1 DEF CheckNotify
  <1>19. CASE ReadWriteBlocksReturn
    BY <1>1, <1>19 DEF ReadWriteBlocksReturn
  <1>20. CASE XenPvBlockSyncDone
    BY <1>1, <1>2, <1>20 DEF XenPvBlockSyncDone
  <1>21. CASE BackendConnect
    <2>1. backend'.state = Connected /\ backend'.ref = RingRef
      BY <1>21 DEF BackendConnect, NoBackend
    <2>. QED
      BY <1>1, <1>21, <2>1 DEF BackendConnect, driver
  <1>22. CASE BackendUnplug
    <2>1. backend'.state = Closing /\ backend'.ref = backend.ref /\ backend'.taken = backend.taken
      BY <1>22 DEF BackendUnplug, IInv, Types
    <2>. QED
      BY <1>1, <1>22, <2>1 DEF BackendUnplug, driver
  <1>23. CASE BackendFollow
    <2>1. UNCHANGED <<pc, held, RingRef, frontState, gaveUp>>
      BY <1>23 DEF BackendFollow, driver
    <2>2. CASE frontState = Closing /\ backend.state = Connected
               /\ backend' = [backend EXCEPT !.state = Closing]
      <3>1. backend'.state = Closing /\ backend'.ref = backend.ref
            /\ backend'.taken = backend.taken
        BY <2>2 DEF IInv, Types
      <3>. QED
        BY <1>1, <2>1, <2>2, <3>1
    <2>3. CASE \/ frontState = Closed /\ backend.state \in {Connected, Closing} /\ backend.ref # 0
                  /\ backend' = [NoBackend EXCEPT !.state = Closed]
               \/ backend.ref = 0 /\ backend.state = Closing
                  /\ backend' = [NoBackend EXCEPT !.state = Closed]
      <3>1. backend'.state = Closed /\ backend'.ref = 0 /\ backend'.taken = {}
        BY <2>3 DEF NoBackend
      <3>. QED
        BY <1>1, <2>1, <2>3, <3>1
    <2>4. CASE frontState = Initialising /\ backend.state = Closed /\ backend' = NoBackend
      <3>1. backend'.state = InitWait /\ backend'.ref = 0 /\ backend'.taken = {}
        BY <2>4 DEF NoBackend
      <3>. QED
        BY <1>1, <2>1, <2>4, <3>1
    <2>5. \/ frontState = Closing /\ backend.state = Connected
             /\ backend' = [backend EXCEPT !.state = Closing]
          \/ frontState = Closed /\ backend.state \in {Connected, Closing} /\ backend.ref # 0
             /\ backend' = [NoBackend EXCEPT !.state = Closed]
          \/ backend.ref = 0 /\ backend.state = Closing
             /\ backend' = [NoBackend EXCEPT !.state = Closed]
          \/ frontState = Initialising /\ backend.state = Closed /\ backend' = NoBackend
      BY <1>23, Zenon DEF BackendFollow
    <2>. QED
      BY <2>2, <2>3, <2>4, <2>5, Zenon
  <1>24. CASE BackendTake
    <2>1. /\ backend.ref # 0 /\ UNCHANGED <<driver, frontState, fired, asserted, gaveUp>>
          /\ backend' = [backend EXCEPT !.req_cons = EventIdx(@ + 1), !.checking = FALSE,
                              !.taken = @ \cup {sring.slot[Slot(backend.req_cons)]}]
      BY <1>24 DEF BackendTake
    <2>2. backend'.state = backend.state /\ backend'.ref = backend.ref
      BY <2>1 DEF IInv, Types
    <2>. QED
      BY <1>1, <2>1, <2>2 DEF driver
  <1>25. CASE Respond
    <2>1. PICK request \in backend.taken, status \in Statuses : BackendRespond(request, status)
      BY <1>25 DEF Respond, Statuses
    <2>2. backend'.state = backend.state /\ backend'.ref = backend.ref /\ backend.ref # 0
      BY <2>1, TakenIs DEF BackendRespond, IInv, Types
    <2>. QED
      BY <1>1, <2>1, <2>2 DEF BackendRespond
  <1>26. CASE BackendSleep
    <2>1. /\ backend.ref # 0 /\ UNCHANGED <<driver, frontState, gaveUp>>
          /\ \/ backend' = [backend EXCEPT !.awake = FALSE, !.checking = FALSE]
             \/ backend' = [backend EXCEPT !.checking = TRUE]
      BY <1>26 DEF BackendSleep
    <2>2. backend'.state = backend.state /\ backend'.ref = backend.ref
      BY <2>1 DEF IInv, Types
    <2>. QED
      BY <1>1, <2>1, <2>2 DEF driver
  <1>. QED
    BY <1>3, <1>4, <1>5, <1>6, <1>7, <1>8, <1>9, <1>10, <1>11, <1>12, <1>13, <1>14, <1>15,
       <1>16, <1>17, <1>18, <1>19, <1>20, <1>21, <1>22, <1>23, <1>24, <1>25, <1>26
       DEF Next, Calls, Steps, BackendSteps

-----------------------------------------------------------------------------
(* What the driver is doing.                                               *)

\* No request is in flight when the driver is not at one.
LEMMA QuietRing ==
    ASSUME IInv, pc \notin {"io", "push", "notify", "Sync"}
    PROVE  backend.taken = {} /\ (backend.ref # 0 => backend.req_cons = sring.req_prod)
  <1>1. CASE gaveUp
    BY <1>1 DEF IInv, Activity
  <1>2. CASE backend.ref = 0
    BY <1>2 DEF IInv, Handshake
  <1>3. CASE ~gaveUp /\ backend.ref # 0
    <2>1. PICK from, a, b, d, n \in Nat : Ring(from, a, b, d, n)
      BY <1>3 DEF IInv, Rings
    <2>2. a = 0 /\ b = 0 /\ d = 0
      BY <2>1 DEF Ring
    <2>3. IsFiniteSet(backend.taken) /\ Cardinality(backend.taken) = 0
      BY <2>1, <2>2 DEF Ring
    <2>. QED
      BY <2>1, <2>2, <2>3, FS_EmptySet DEF Ring
  <1>. QED
    BY <1>1, <1>2, <1>3

\* The indices and the requests taken, as far as a driver without requests needs them.
Indexed ==
    /\ pc \in Connecting \cup {"transaction"} => Fresh
    /\ backend.state = InitWait /\ frontState = Connected => Fresh
    /\ gaveUp => backend.taken = {} /\ (backend.ref # 0 => backend.req_cons = sring.req_prod)

LEMMA IndexedStep == IInv /\ [Next]_vars => Indexed'
  <1>. SUFFICES ASSUME IInv, [Next]_vars PROVE Indexed'
    OBVIOUS
  <1>. USE DEF Indexed, Unbound, Connecting, Working, Leaving, Left, Gone,
               Initialising, InitWait, Connected, Closing, Closed
  <1>1. Indexed /\ Handshake
    BY DEF IInv, Activity
  <1>2. /\ backend.state \in {InitWait, Connected, Closing, Closed}
        /\ frontState \in {Initialising, Connected, Closing, Closed}
        /\ then \in {"idle", "setClosing"}
    BY DEF IInv, Types
  <1>. DEFINE Quiet == backend.taken = {} /\ (backend.ref # 0 => backend.req_cons = sring.req_prod)
  <1>3. pc \notin {"io", "push", "notify", "Sync"} => Quiet
    BY QuietRing
  <1>4. CASE XenBusStart \/ XenBusStop \/ UNCHANGED vars
    BY <1>1, <1>4 DEF XenBusStart, XenBusStop, vars, driver, Fresh
  <1>5. CASE XenPvBlockFrontInitialization
    <2>1. Fresh'
      BY <1>5 DEF XenPvBlockFrontInitialization, Fresh, NoSring
    <2>. QED
      BY <1>5, <2>1 DEF XenPvBlockFrontInitialization
  <1>6. CASE XenPvBlkDxeDriverBindingStop
    BY <1>1, <1>6 DEF XenPvBlkDxeDriverBindingStop, Fresh, Handshake
  <1>7. CASE XenPvBlkDxeBlockIoFlushBlocks
    BY <1>1, <1>7 DEF XenPvBlkDxeBlockIoFlushBlocks, Fresh, Handshake
  <1>8. CASE \E lba \in Lbas, buffer \in Buffers, blocks \in BlockCounts :
                ReadWriteBlocks(lba, buffer, blocks)
    BY <1>1, <1>8 DEF ReadWriteBlocks, Fresh, Handshake
  <1>9. CASE PublishRing
    BY <1>1, <1>9 DEF PublishRing, Fresh, Handshake
  <1>10. CASE RegisterWatchBackend
    BY <1>1, <1>10 DEF RegisterWatchBackend, Fresh
  <1>11. CASE AwaitConnected
    BY <1>1, <1>3, <1>11 DEF AwaitConnected, XenPvBlkWaitForBackendState, GiveUp, Fresh
  <1>12. CASE InstallBlockIo
    BY <1>1, <1>3, <1>12 DEF InstallBlockIo, GiveUp, Fresh
  <1>13. CASE XenPvBlockFrontShutdown
    <2>1. UNCHANGED <<front, sring, backend>>
      BY <1>13 DEF XenPvBlockFrontShutdown, SetState, XenPvBlkWaitForBackendState
    <2>2. Quiet /\ pc' \notin Connecting \cup {"transaction"}
          /\ (frontState' = Connected => frontState = Connected)
      BY <1>3, <1>13 DEF XenPvBlockFrontShutdown, SetState, XenPvBlkWaitForBackendState, GiveUp
    <2>. QED
      BY <1>1, <2>1, <2>2 DEF Fresh
  <1>14. CASE AwaitInitWait
    BY <1>1, <1>14 DEF AwaitInitWait, Fresh
  <1>15. CASE UnregisterWatch
    BY <1>1, <1>15 DEF UnregisterWatch, Fresh
  <1>16. CASE XenPvBlockFree
    BY <1>1, <1>16 DEF XenPvBlockFree, Fresh
  <1>17. CASE XenPvBlockAsyncIo \/ XenPvBlockAsyncIoPoll \/ XenPvBlockPushOperation
              \/ RingPushRequests
    <2>1. pc \in Working /\ pc' \in Working /\ UNCHANGED <<backend, frontState, gaveUp>>
      BY <1>17 DEF XenPvBlockAsyncIo, XenPvBlockAsyncIoPoll, XenPvBlockPushOperation,
                   RingPushRequests, Polling
    <2>. QED
      BY <1>1, <2>1 DEF Handshake
  <1>18. CASE CheckNotify
    <2>1. backend'.state = backend.state
      BY <1>18 DEF CheckNotify, IInv, Types
    <2>. QED
      BY <1>1, <1>18, <2>1 DEF CheckNotify, Handshake
  <1>19. CASE ReadWriteBlocksReturn \/ XenPvBlockSyncDone
    <2>1. pc \in Working /\ pc' \in Working /\ UNCHANGED <<backend, frontState, gaveUp>>
      BY <1>2, <1>19 DEF ReadWriteBlocksReturn, XenPvBlockSyncDone
    <2>. QED
      BY <1>1, <2>1 DEF Handshake
  <1>20. CASE BackendConnect
    <2>1. Fresh /\ Fresh' /\ backend'.req_cons = 0 /\ backend'.taken = {}
          /\ backend'.state = Connected
      BY <1>1, <1>20 DEF BackendConnect, NoBackend, Fresh, driver
    <2>. QED
      BY <1>1, <1>20, <2>1 DEF BackendConnect, driver, Fresh
  <1>21. CASE BackendUnplug
    <2>1. backend'.state = Closing /\ backend'.ref = backend.ref /\ backend'.taken = backend.taken
          /\ backend'.req_cons = backend.req_cons
      BY <1>21 DEF BackendUnplug, IInv, Types
    <2>. QED
      BY <1>1, <1>21, <2>1 DEF BackendUnplug, driver, Fresh
  <1>22. CASE BackendFollow
    <2>1. UNCHANGED <<pc, front, sring, frontState, gaveUp>>
      BY <1>22 DEF BackendFollow, driver
    <2>2. CASE backend' = [backend EXCEPT !.state = Closing]
      <3>1. backend'.state = Closing /\ backend'.ref = backend.ref
            /\ backend'.taken = backend.taken /\ backend'.req_cons = backend.req_cons
        BY <2>2 DEF IInv, Types
      <3>. QED
        BY <1>1, <2>1, <3>1 DEF Fresh
    <2>3. CASE backend' = [NoBackend EXCEPT !.state = Closed]
      <3>1. backend'.state = Closed /\ backend'.ref = 0 /\ backend'.taken = {}
        BY <2>3 DEF NoBackend
      <3>. QED
        BY <1>1, <2>1, <3>1 DEF Fresh
    <2>4. CASE frontState = Initialising /\ backend' = NoBackend
      <3>1. backend'.ref = 0 /\ backend'.taken = {}
        BY <2>4 DEF NoBackend
      <3>. QED
        BY <1>1, <2>1, <2>4, <3>1 DEF Fresh
    <2>. QED
      BY <1>22, <2>2, <2>3, <2>4, Zenon DEF BackendFollow
  <1>23. CASE BackendTake
    <2>1. /\ ~gaveUp /\ backend.ref # 0
      BY <1>23, TakeIs
    <2>2. /\ UNCHANGED <<driver, frontState, gaveUp>>
          /\ backend' = [backend EXCEPT !.req_cons = EventIdx(@ + 1), !.checking = FALSE,
                              !.taken = @ \cup {sring.slot[Slot(backend.req_cons)]}]
          /\ sring' = [sring EXCEPT !.slot[Slot(backend.req_cons)] = Empty]
      BY <1>23 DEF BackendTake
    <2>3. backend'.state = backend.state /\ sring'.req_prod = sring.req_prod
          /\ sring'.rsp_prod = sring.rsp_prod
      BY <2>2 DEF IInv, Types
    <2>. QED
      BY <1>1, <2>1, <2>2, <2>3 DEF driver, Fresh
  <1>24. CASE BackendSleep
    <2>1. backend'.state = backend.state /\ backend'.ref = backend.ref
          /\ backend'.taken = backend.taken /\ backend'.req_cons = backend.req_cons
      BY <1>24 DEF BackendSleep, IInv, Types
    <2>2. sring'.req_prod = sring.req_prod /\ sring'.rsp_prod = sring.rsp_prod
      BY <1>24 DEF BackendSleep, IInv, Types
    <2>. QED
      BY <1>1, <1>24, <2>1, <2>2 DEF BackendSleep, driver, Fresh
  <1>25. CASE Respond
    <2>1. PICK request \in backend.taken, status \in Statuses : BackendRespond(request, status)
      BY <1>25 DEF Respond, Statuses
    <2>2. ~gaveUp /\ backend.ref # 0 /\ pc \in {"io", "push", "notify", "Sync"}
      BY <1>3, <2>1, TakenIs
    <2>3. backend'.state = backend.state
      BY <2>1 DEF BackendRespond, IInv, Types
    <2>. QED
      BY <1>1, <2>1, <2>2, <2>3 DEF BackendRespond, Handshake
  <1>. HIDE DEF Indexed
  <1>. QED
    BY <1>4, <1>5, <1>6, <1>7, <1>8, <1>9, <1>10, <1>11, <1>12, <1>13, <1>14, <1>15,
       <1>16, <1>17, <1>18, <1>19, <1>20, <1>21, <1>22, <1>23, <1>24, <1>25
       DEF Next, Calls, Steps, BackendSteps

\* The transfer in hand.
Transferring ==
    /\ pc \notin {"io", "push", "notify"} => IoData = NoIo
    /\ pc \in {"push", "notify"} => Started \/ IoData = NoIo
    /\ ~Started => IoData.refs = <<>>
    /\ pc = "io" \/ Started => call.BufferSize > 0 /\ call.done <= call.BufferSize
    /\ pc = "io" /\ IoData.Status = "none" => call.done = 0 /\ call.moved = {}

\* The flush in hand.
Syncing ==
    /\ Started => ops = <<>>
    /\ pc \notin {"Sync", "push", "notify"} => ops = <<>>
    /\ Len(ops) <= Len(SyncOps)
    /\ \A i \in 1 .. Len(ops) : ops[i] = SyncOps[Len(SyncOps) - Len(ops) + i]

LEMMA ActivityIs == Activity <=> Indexed /\ Transferring /\ Syncing
  BY DEF Activity, Indexed, Transferring, Syncing

LEMMA TransferringStep == IInv /\ [Next]_vars => Transferring'
  <1>. SUFFICES ASSUME IInv, [Next]_vars PROVE Transferring'
    OBVIOUS
  <1>. USE DEF Transferring
  <1>1. Transferring
    BY ActivityIs DEF IInv
  <1>2. then \in {"idle", "setClosing"}
    BY DEF IInv, Types
  <1>3. /\ NoIo.Status = "none" /\ NoIo.refs = <<>>
    BY DEF NoIo
  <1>4. CASE XenBusStart \/ XenBusStop \/ UNCHANGED vars
    BY <1>1, <1>4 DEF XenBusStart, XenBusStop, vars, driver, Started
  <1>5. CASE XenPvBlockFrontInitialization \/ PublishRing \/ RegisterWatchBackend
             \/ XenPvBlkDxeDriverBindingStop \/ XenPvBlkDxeBlockIoFlushBlocks
             \/ UnregisterWatch \/ XenPvBlockFree
    BY <1>1, <1>3, <1>5 DEF XenPvBlockFrontInitialization, PublishRing, RegisterWatchBackend,
       XenPvBlkDxeDriverBindingStop, XenPvBlkDxeBlockIoFlushBlocks, UnregisterWatch,
       XenPvBlockFree, Started
  <1>6. CASE AwaitConnected \/ InstallBlockIo \/ XenPvBlockFrontShutdown \/ AwaitInitWait
    <2>1. UNCHANGED <<IoData, call>> /\ pc \notin {"io", "push", "notify"}
          /\ pc' \notin {"io", "push", "notify"}
      BY <1>6 DEF AwaitConnected, InstallBlockIo, XenPvBlockFrontShutdown, AwaitInitWait,
         XenPvBlkWaitForBackendState, SetState, GiveUp
    <2>. QED
      BY <1>1, <1>3, <2>1 DEF Started
  <1>7. ASSUME NEW lba \in Lbas, NEW buffer \in Buffers, NEW blocks \in BlockCounts,
               ReadWriteBlocks(lba, buffer, blocks)
        PROVE  Transferring'
    <2>0. blocks \in Nat /\ blocks > 0 /\ media.BlockSize \in Nat /\ media.BlockSize > 0
      BY XenPvBlkAssumption DEF IInv, Types, Geometries
    <2>1. blocks * media.BlockSize \in Nat /\ blocks * media.BlockSize > 0
      BY <2>0, Z3
    <2>2. /\ call'.BufferSize = blocks * media.BlockSize /\ call'.done = 0
          /\ call'.moved = {} /\ IoData' = NoIo /\ pc' = "io"
      BY <1>1, <1>7 DEF ReadWriteBlocks
    <2>. QED
      BY <1>3, <2>1, <2>2 DEF Started
  <1>8. CASE XenPvBlockAsyncIo
    <2>1. PICK size, segments, refs : AsyncIoEffect(size, segments, refs)
      BY <1>8, AsyncIoIs
    <2>2. pc' = "push" /\ IoData'.Status = "EFI_ALREADY_STARTED"
      BY <1>8, <2>1 DEF XenPvBlockAsyncIo, AsyncIoEffect
    <2>3. /\ call'.BufferSize = call.BufferSize /\ call'.done = call.done + size
          /\ call.done \in Nat /\ call.BufferSize \in Nat
      BY <2>1 DEF AsyncIoEffect, IInv, Types
    <2>4. call'.BufferSize > 0 /\ call'.done <= call'.BufferSize
      BY <2>1, <2>3 DEF AsyncIoEffect
    <2>. QED
      BY <2>2, <2>4 DEF Started
  <1>9. CASE XenPvBlockPushOperation \/ RingPushRequests
    BY <1>1, <1>9 DEF XenPvBlockPushOperation, RingPushRequests, Started
  <1>10. CASE CheckNotify
    BY <1>1, <1>3, <1>10 DEF CheckNotify, Started, Flushing
  <1>11. CASE XenPvBlockAsyncIoPoll
    <2>1. PICK from, a, b, d, n \in Nat : PollEffect(from, a, b, d, n)
      BY <1>11, PollIs
    <2>2. UNCHANGED <<pc, call>> /\ pc \in {"io", "Sync"}
      BY <1>11, PollIs DEF XenPvBlockAsyncIoPoll
    <2>3. CASE Started
      <3>1. PICK status \in Statuses : IoData' = [Status |-> status, refs |-> <<>>]
        BY <2>1, <2>3 DEF PollEffect
      <3>2. ~Started' /\ IoData'.refs = <<>> /\ IoData'.Status # "none" /\ pc = "io"
        BY <1>1, <1>3, <2>2, <2>3, <3>1 DEF Started, Statuses
      <3>. QED
        BY <1>1, <2>2, <3>2
    <2>4. CASE ~Started
      BY <1>1, <2>1, <2>2, <2>4 DEF PollEffect, Started
    <2>. QED
      BY <2>3, <2>4
  <1>12. CASE ReadWriteBlocksReturn \/ XenPvBlockSyncDone
    <2>1. IoData' = NoIo /\ pc' \notin {"io", "push", "notify"}
      BY <1>1, <1>2, <1>12 DEF ReadWriteBlocksReturn, XenPvBlockSyncDone
    <2>. QED
      BY <1>3, <2>1 DEF Started
  <1>13. CASE BackendConnect \/ BackendUnplug \/ BackendFollow \/ BackendTake \/ BackendSleep
    <2>1. UNCHANGED <<pc, IoData, call>>
      BY <1>13 DEF BackendConnect, BackendUnplug, BackendFollow, BackendTake, BackendSleep, driver
    <2>. QED
      BY <1>1, <2>1 DEF Started
  <1>14. CASE Respond
    <2>1. PICK request \in backend.taken, status \in Statuses : BackendRespond(request, status)
      BY <1>14 DEF Respond, Statuses
    <2>2. PICK from, a, b, d, n \in Nat : RespondEffect(request, from, a, b, d, n)
      BY RespondIs
    <2>3. ~(pc = "io" /\ ~Started)
      BY <2>2 DEF RespondEffect, Ring
    <2>4. call'.BufferSize = call.BufferSize /\ call'.done = call.done /\ UNCHANGED <<pc, IoData>>
      BY <2>1 DEF BackendRespond, IInv, Types
    <2>. QED
      BY <1>1, <2>3, <2>4 DEF Started
  <1>. HIDE DEF Transferring
  <1>. QED
    BY <1>4, <1>5, <1>6, <1>7, <1>8, <1>9, <1>10, <1>11, <1>12, <1>13, <1>14
       DEF Next, Calls, Steps, BackendSteps

LEMMA SyncingStep == IInv /\ [Next]_vars => Syncing'
  <1>. SUFFICES ASSUME IInv, [Next]_vars PROVE Syncing'
    OBVIOUS
  <1>. USE DEF Syncing
  <1>1. Syncing /\ Transferring
    BY ActivityIs DEF IInv
  <1>2. /\ then \in {"idle", "setClosing"} /\ Len(SyncOps) \in 0 .. 2 /\ ops \in Seq(FlushOps)
        /\ Len(ops) \in Nat /\ NoIo.Status = "none"
    BY SyncListsAre DEF IInv, Types, NoIo
  <1>3. \A s : Len(s) \in Nat =>
           (Len(s) <= Len(s) /\ \A i \in 1 .. Len(s) : s[i] = s[Len(s) - Len(s) + i])
    OBVIOUS
  <1>4. CASE XenBusStart \/ XenBusStop \/ UNCHANGED vars
    BY <1>1, <1>4 DEF XenBusStart, XenBusStop, vars, driver, Started
  <1>5. CASE XenPvBlockFrontInitialization \/ PublishRing \/ RegisterWatchBackend
             \/ UnregisterWatch
    BY <1>1, <1>5 DEF XenPvBlockFrontInitialization, PublishRing, RegisterWatchBackend,
       UnregisterWatch, Started
  <1>6. CASE AwaitConnected \/ XenPvBlockFrontShutdown \/ AwaitInitWait
    <2>1. UNCHANGED <<IoData, ops, SyncOps>> /\ pc \notin {"Sync", "push", "notify"}
      BY <1>6 DEF AwaitConnected, XenPvBlockFrontShutdown, AwaitInitWait,
         XenPvBlkWaitForBackendState, SetState, GiveUp
    <2>. QED
      BY <1>1, <2>1 DEF Started
  <1>7. CASE XenPvBlkDxeDriverBindingStop \/ XenPvBlkDxeBlockIoFlushBlocks
    <2>1. /\ ops' = SyncOps /\ SyncOps' = SyncOps /\ pc' = "Sync" /\ IoData' = NoIo
      BY <1>1, <1>7 DEF XenPvBlkDxeDriverBindingStop, XenPvBlkDxeBlockIoFlushBlocks, Transferring
    <2>. QED
      BY <1>2, <1>3, <2>1 DEF Started
  <1>8. CASE InstallBlockIo
    <2>1. pc = "info" /\ IoData = NoIo /\ IoData' = IoData /\ ops = <<>>
      BY <1>1, <1>8 DEF InstallBlockIo, Transferring
    <2>2. CASE SyncOps' = SyncOps /\ ops' = ops
      BY <1>1, <1>2, <2>1, <2>2 DEF Started
    <2>3. CASE /\ SyncOps' \in SyncLists
               /\ (ops' = ops \/ (pc' = "Sync" /\ ops' = SyncOps'))
      <3>1. Len(SyncOps') \in 0 .. 2
        BY <2>3, SyncListsAre
      <3>. QED
        BY <1>2, <1>3, <2>1, <2>3, <3>1 DEF Started
    <2>. QED
      BY <1>8, <2>2, <2>3, Zenon DEF InstallBlockIo, SyncLists
  <1>9. CASE XenPvBlockFree
    BY <1>1, <1>9 DEF XenPvBlockFree, Started
  <1>10. CASE \E lba \in Lbas, buffer \in Buffers, blocks \in BlockCounts :
                 ReadWriteBlocks(lba, buffer, blocks)
    BY <1>1, <1>10 DEF ReadWriteBlocks, Started
  <1>11. CASE XenPvBlockAsyncIo
    BY <1>1, <1>11 DEF XenPvBlockAsyncIo
  <1>12. CASE XenPvBlockPushOperation
    <2>1. pc = "Sync" /\ ops # <<>> /\ ops' = Tail(ops) /\ SyncOps' = SyncOps /\ pc' = "push"
          /\ IoData' = IoData
      BY <1>12 DEF XenPvBlockPushOperation
    <2>2. Len(ops') = Len(ops) - 1 /\ Len(ops) > 0
          /\ \A i \in 1 .. Len(ops) - 1 : ops'[i] = ops[i + 1]
      BY <1>2, <2>1
    <2>3. ASSUME NEW i \in 1 .. Len(ops')
          PROVE  ops'[i] = SyncOps'[Len(SyncOps') - Len(ops') + i]
      <3>1. i + 1 \in 1 .. Len(ops) /\ i \in 1 .. Len(ops) - 1
        BY <1>2, <2>2
      <3>2. ops'[i] = SyncOps[Len(SyncOps) - Len(ops) + (i + 1)]
        BY <1>1, <2>2, <3>1
      <3>3. Len(SyncOps) - Len(ops) + (i + 1) = Len(SyncOps) - Len(ops') + i
        BY <1>2, <2>2, <3>1
      <3>. QED
        BY <2>1, <3>2, <3>3
    <2>4. ~Started'
      BY <1>1, <1>2, <2>1 DEF Started, Transferring
    <2>5. Len(ops') <= Len(SyncOps')
      BY <1>1, <1>2, <2>1, <2>2
    <2>. QED
      BY <2>1, <2>3, <2>4, <2>5
  <1>13. CASE RingPushRequests
    BY <1>1, <1>13 DEF RingPushRequests, Started
  <1>14. CASE CheckNotify
    BY <1>1, <1>14 DEF CheckNotify, Started, Flushing
  <1>15. CASE XenPvBlockAsyncIoPoll
    <2>1. UNCHANGED <<pc, ops, SyncOps>> /\ pc \in {"io", "Sync"}
      BY <1>15, PollIs DEF XenPvBlockAsyncIoPoll
    <2>2. Started' => Started
      <3>1. PICK from, a, b, d, n \in Nat : PollEffect(from, a, b, d, n)
        BY <1>15, PollIs
      <3>. QED
        BY <3>1 DEF PollEffect, Started
    <2>. QED
      BY <1>1, <2>1, <2>2
  <1>16. CASE ReadWriteBlocksReturn \/ XenPvBlockSyncDone
    BY <1>1, <1>2, <1>16 DEF ReadWriteBlocksReturn, XenPvBlockSyncDone, Started
  <1>17. CASE BackendConnect \/ BackendUnplug \/ BackendFollow \/ BackendTake \/ BackendSleep
    <2>1. UNCHANGED <<pc, IoData, ops, SyncOps>>
      BY <1>17 DEF BackendConnect, BackendUnplug, BackendFollow, BackendTake, BackendSleep, driver
    <2>. QED
      BY <1>1, <2>1 DEF Started
  <1>18. CASE Respond
    BY <1>1, <1>18 DEF Respond, BackendRespond, Started
  <1>. HIDE DEF Syncing
  <1>. QED
    BY <1>4, <1>5, <1>6, <1>7, <1>8, <1>9, <1>10, <1>11, <1>12, <1>13, <1>14, <1>15,
       <1>16, <1>17, <1>18 DEF Next, Calls, Steps, BackendSteps

-----------------------------------------------------------------------------
(* The references.                                                         *)

Mapped(g) == {ref \in Refs : g.entry[ref].mapped}
Used      == UNION {SeqSet(request.refs) : request \in backend.taken}

\* What the backend's maps do to the grant table.
MappedAs(g, h, refs, flag) ==
    /\ Permitted(h) = Permitted(g) /\ (Listed(g) => Listed(h))
    /\ \A r \in Refs : /\ h.entry[r].frame = g.entry[r].frame
                       /\ r \in refs => h.entry[r].mapped = flag
                       /\ r \notin refs => h.entry[r] = g.entry[r]

LEMMA MapRefsTo ==
    ASSUME NEW g \in Grants, NEW refs, NEW flag \in BOOLEAN, NEW h, h = MapRefs(g, refs, flag)
    PROVE  MappedAs(g, h, refs, flag)
  BY MapRefsIs DEF MappedAs

LEMMA AccountedIs ==
    Accounted <=>
        /\ asserted \subseteq Alignment
        /\ IF pc = "off" THEN Permitted(grants) = {} ELSE Listed(grants)
        /\ RingRef # 0 => RingRef \in Permitted(grants)
        /\ ~gaveUp => /\ Permitted(grants) = ({RingRef} \ {0}) \cup SeqSet(IoData.refs)
                      /\ Mapped(grants) = ({backend.ref} \ {0}) \cup Used
        /\ \A i, j \in 1 .. Len(IoData.refs) : IoData.refs[i] = IoData.refs[j] => i = j
        /\ \A i \in 1 .. Len(IoData.refs) : IoData.refs[i] # RingRef
  BY DEF Accounted, Mapped, Used

\* Most steps leave all of it alone.
AccountsKept ==
    /\ UNCHANGED <<grants, asserted, RingRef>> /\ IoData'.refs = IoData.refs
    /\ backend'.ref = backend.ref /\ backend'.taken = backend.taken
    /\ gaveUp => gaveUp'
    /\ pc # "off" /\ pc' # "off"

LEMMA AccountedKept ==
    ASSUME Accounted, AccountsKept
    PROVE  Accounted'
  BY DEF Accounted, AccountsKept

\* The references of the requests taken are those of the request that is started.
LEMMA UsedIs ==
    ASSUME IInv
    PROVE  /\ Used \subseteq SeqSet(IoData.refs)
           /\ ~Started => Used = {}
  <1>1. ASSUME NEW request \in backend.taken
        PROVE  /\ Started => request.refs = IoData.refs
               /\ ~Started => request.refs = <<>>
    <2>1. PICK from, a, b, d, n \in Nat : RespondEffect(request, from, a, b, d, n)
      BY RespondIs
    <2>. QED
      BY <2>1 DEF RespondEffect
  <1>2. SeqSet(<<>>) = {}
    BY DEF SeqSet
  <1>. QED
    BY <1>1, <1>2 DEF Used

LEMMA AccountedStep == IInv /\ [Next]_vars => Accounted'
  <1>. SUFFICES ASSUME IInv, [Next]_vars PROVE Accounted'
    OBVIOUS
  <1>1. Accounted /\ Handshake /\ grants \in Grants /\ IoData.refs \in Seq(Refs)
        /\ Transferring /\ gaveUp \in BOOLEAN /\ RingRef \in Refs \cup {0}
    BY ActivityIs DEF IInv, Types
  <1>2. SeqSet(<<>>) = {} /\ NoIo.refs = <<>> /\ NoIo.Status = "none"
    BY DEF SeqSet, NoIo
  <1>3. 0 \notin Refs
    BY RefsAre
  <1>4. CASE UNCHANGED vars
    BY <1>1, <1>4 DEF vars, driver, Accounted
  <1>5. CASE XenBusStart
    <2>1. Permitted(grants) = {} /\ grants' = XenGrantTableInit(grants) /\ pc' = "unbound"
          /\ UNCHANGED <<RingRef, IoData, asserted, gaveUp, backend>> /\ pc = "off"
      BY <1>1, <1>5 DEF XenBusStart, Accounted
    <2>2. grants'.entry = grants.entry /\ Listed(grants')
      BY <1>1, <2>1, ListedInit
    <2>3. Permitted(grants') = Permitted(grants) /\ Mapped(grants') = Mapped(grants)
          /\ Used' = Used
      BY <2>1, <2>2 DEF Permitted, Mapped, Used
    <2>. QED
      BY <1>1, <2>1, <2>2, <2>3, AccountedIs DEF Accounted, Mapped
  <1>6. CASE XenBusStop
    <2>1. pc = "unbound" /\ ~gaveUp /\ pc' = "off" /\ RingRef = 0 /\ IoData.refs = <<>>
          /\ UNCHANGED <<grants, RingRef, IoData, asserted, gaveUp, backend>>
      BY <1>1, <1>2, <1>6 DEF XenBusStop, Handshake, Unbound, Transferring
    <2>2. Permitted(grants) = {}
      BY <1>1, <1>2, <2>1 DEF Accounted
    <2>. QED
      BY <1>1, <2>1, <2>2 DEF Accounted
  <1>7. CASE XenPvBlockFrontInitialization
    <2>1. /\ RingRef' \in Refs /\ Listed(grants') /\ Permitted(grants') = {RingRef'}
          /\ asserted' \subseteq Alignment /\ \A ref \in Refs : ~grants'.entry[ref].mapped
      BY <1>7, InitializationIs
    <2>2. UNCHANGED <<IoData, gaveUp, backend>> /\ pc = "unbound" /\ pc' = "transaction" /\ ~gaveUp
      BY <1>7 DEF XenPvBlockFrontInitialization
    <2>3. IoData.refs = <<>> /\ backend.ref = 0 /\ backend.taken = {}
      BY <1>1, <1>2, <2>2 DEF Transferring, Handshake, Unbound
    <2>4. Mapped(grants') = {} /\ Used = {} /\ Used' = {}
      BY <2>1, <2>2, <2>3 DEF Mapped, Used
    <2>5. Accounted' <=>
            /\ asserted' \subseteq Alignment
            /\ IF pc' = "off" THEN Permitted(grants') = {} ELSE Listed(grants')
            /\ RingRef' # 0 => RingRef' \in Permitted(grants')
            /\ ~gaveUp' => /\ Permitted(grants') = ({RingRef'} \ {0}) \cup SeqSet(IoData'.refs)
                           /\ Mapped(grants') = ({backend'.ref} \ {0}) \cup Used'
            /\ \A i, j \in 1 .. Len(IoData'.refs) : IoData'.refs[i] = IoData'.refs[j] => i = j
            /\ \A i \in 1 .. Len(IoData'.refs) : IoData'.refs[i] # RingRef'
      BY DEF Accounted, Mapped, Used, SeqSet
    <2>. QED
      BY <1>2, <1>3, <2>1, <2>2, <2>3, <2>4, <2>5
  <1>8. CASE PublishRing \/ RegisterWatchBackend \/ UnregisterWatch \/ AwaitInitWait
             \/ XenPvBlkDxeDriverBindingStop \/ XenPvBlkDxeBlockIoFlushBlocks
             \/ InstallBlockIo
    <2>1. AccountsKept
      BY <1>8 DEF PublishRing, RegisterWatchBackend, UnregisterWatch, AwaitInitWait,
         XenPvBlkDxeDriverBindingStop, XenPvBlkDxeBlockIoFlushBlocks, InstallBlockIo, GiveUp,
         AccountsKept
    <2>. QED
      BY <1>1, <2>1, AccountedKept
  <1>9. CASE AwaitConnected \/ XenPvBlockFrontShutdown
    <2>1. AccountsKept
      BY <1>9 DEF AwaitConnected, XenPvBlockFrontShutdown, XenPvBlkWaitForBackendState, SetState,
         GiveUp, AccountsKept
    <2>. QED
      BY <1>1, <2>1, AccountedKept
  <1>10. CASE \/ XenPvBlockPushOperation \/ RingPushRequests
              \/ \E lba \in Lbas, buffer \in Buffers, blocks \in BlockCounts :
                    ReadWriteBlocks(lba, buffer, blocks)
    <2>1. AccountsKept
      BY <1>10 DEF XenPvBlockPushOperation, RingPushRequests, ReadWriteBlocks, AccountsKept
    <2>. QED
      BY <1>1, <2>1, AccountedKept
  <1>11. CASE ReadWriteBlocksReturn \/ XenPvBlockSyncDone \/ CheckNotify
    <2>1. ASSUME ReadWriteBlocksReturn PROVE AccountsKept
      BY <1>1, <1>2, <2>1 DEF ReadWriteBlocksReturn, AccountsKept, Transferring, Started
    <2>2. ASSUME XenPvBlockSyncDone PROVE AccountsKept
      BY <1>1, <2>2 DEF XenPvBlockSyncDone, AccountsKept, IInv, Types
    <2>3. ASSUME CheckNotify PROVE AccountsKept
      <3>1. backend'.ref = backend.ref /\ backend'.taken = backend.taken
        BY <2>3 DEF CheckNotify, IInv, Types
      <3>. QED
        BY <2>3, <3>1 DEF CheckNotify, AccountsKept
    <2>. QED
      BY <1>1, <1>11, <2>1, <2>2, <2>3, AccountedKept
  <1>12. CASE XenPvBlockFree
    <2>. DEFINE h == XenGrantTableEndAccess(grants, RingRef)
    <2>1. pc = "Error" /\ pc' = "unbound" /\ RingRef # 0 /\ IoData = NoIo
          /\ UNCHANGED <<IoData, gaveUp, backend, asserted>> /\ RingRef' = 0 /\ grants' = h
      BY <1>1, <1>12 DEF XenPvBlockFree, Handshake, Unbound, Transferring
    <2>2. /\ RingRef \in Refs /\ RingRef \in Permitted(grants) /\ Listed(grants)
          /\ asserted \subseteq Alignment
      BY <1>1, <2>1 DEF Accounted
    <2>3. Used' = Used /\ SeqSet(IoData'.refs) = {} /\ IoData'.refs = <<>>
      BY <1>2, <2>1 DEF Used
    <2>4. CASE grants.entry[RingRef].mapped
      <3>1. h = grants
        BY <1>1, <2>2, <2>4, EndAccess
      <3>2. gaveUp
        <4>1. SUFFICES ASSUME ~gaveUp PROVE FALSE
          BY <1>1
        <4>2. backend.ref = 0 /\ backend.taken = {}
          BY <1>1, <2>1, <4>1 DEF Handshake, Gone
        <4>3. Mapped(grants) = {}
          BY <1>1, <4>1, <4>2, AccountedIs DEF Used
        <4>. QED
          BY <2>2, <2>4, <4>3 DEF Mapped
      <3>. HIDE DEF h
      <3>. QED
        BY <2>1, <2>2, <2>3, <3>1, <3>2 DEF Accounted
    <2>5. CASE ~grants.entry[RingRef].mapped
      <3>1. Listed(h) /\ Permitted(h) = Permitted(grants) \ {RingRef}
        BY <1>1, <2>2, <2>5, ListedEnd, Zenon
      <3>2. h.entry[RingRef] = Unused /\ \A r \in Refs \ {RingRef} : h.entry[r] = grants.entry[r]
        BY <1>1, <2>2, <2>5, EndAccess
      <3>. HIDE DEF h
      <3>3. Mapped(h) = Mapped(grants)
        BY <2>5, <3>2 DEF Mapped, Unused
      <3>4. ~gaveUp => Permitted(h) = {}
        BY <1>1, <1>2, <2>1, <3>1 DEF Accounted
      <3>5. ~gaveUp => Mapped(h) = ({backend.ref} \ {0}) \cup Used
        BY <1>1, <3>3, AccountedIs
      <3>6. IoData'.refs = <<>> /\ Len(<<>>) = 0
        BY <2>3
      <3>. QED
        BY <2>1, <2>2, <2>3, <3>1, <3>4, <3>5, <3>6 DEF Accounted, Mapped, Used
    <2>. QED
      BY <2>4, <2>5
  <1>13. CASE XenPvBlockAsyncIo
    <2>1. PICK size, segments, refs : AsyncIoEffect(size, segments, refs)
      BY <1>13, AsyncIoIs
    <2>2. /\ pc = "io" /\ pc' = "push" /\ ~Started /\ UNCHANGED <<RingRef, gaveUp, backend>>
      BY <1>13 DEF XenPvBlockAsyncIo, Started
    <2>3. ~gaveUp /\ RingRef # 0 /\ RingRef \in Refs
      BY <1>1, <2>2 DEF Handshake, Unbound
    <2>4. Permitted(grants) = {RingRef}
      BY <2>2, <2>3, AvailableRefs
    <2>. DEFINE n == Len(segments)
    <2>5. /\ Listed(grants') /\ n \in Nat
          /\ \A k \in 1 .. n : refs[k] \in Refs \ Permitted(grants)
          /\ \A i, j \in 1 .. n : refs[i] = refs[j] => i = j
          /\ \A r \in Refs : r \in Permitted(grants')
                               <=> r \in Permitted(grants) \/ \E k \in 1 .. n : r = refs[k]
          /\ \A k \in 1 .. n :
                grants'.entry[refs[k]] = [frame |-> segments[k].page, permit |-> TRUE, mapped |-> FALSE]
          /\ \A r \in Refs : (\A k \in 1 .. n : r # refs[k]) => grants'.entry[r] = grants.entry[r]
          /\ Len(refs) = n /\ DOMAIN refs = 1 .. n /\ IoData'.refs = refs
          /\ asserted' \subseteq Alignment
      BY <2>1 DEF AsyncIoEffect, GrantedAll
    <2>. HIDE DEF n
    <2>6. Used = {} /\ Used' = Used
      BY <2>2, UsedIs DEF Used
    <2>7. Mapped(grants) = {backend.ref} \ {0}
      BY <1>1, <2>3, <2>6, AccountedIs
    <2>8. Mapped(grants') = Mapped(grants)
      <3>1. ASSUME NEW r \in Refs, \A k \in 1 .. n : r # refs[k]
            PROVE  r \in Mapped(grants') <=> r \in Mapped(grants)
        BY <2>5, <3>1 DEF Mapped
      <3>2. ASSUME NEW k \in 1 .. n
            PROVE  refs[k] \notin Mapped(grants') /\ refs[k] \notin Mapped(grants)
        <4>1. refs[k] # RingRef
          BY <2>4, <2>5
        <4>3. grants'.entry[refs[k]] = [frame |-> segments[k].page, permit |-> TRUE, mapped |-> FALSE]
          BY <2>5
        <4>4. grants'.entry[refs[k]].mapped = FALSE
          BY <4>3
        <4>2. backend.ref # 0 => backend.ref = RingRef
          BY <1>1, <2>3 DEF Handshake
        <4>. QED
          BY <2>7, <4>1, <4>2, <4>4 DEF Mapped
      <3>3. Mapped(grants') \subseteq Refs /\ Mapped(grants) \subseteq Refs
        BY DEF Mapped
      <3>. QED
        BY <3>1, <3>2, <3>3
    <2>9. Permitted(grants') = {RingRef} \cup SeqSet(refs)
      <3>1. SeqSet(refs) = {refs[k] : k \in 1 .. n}
        BY <2>5 DEF SeqSet
      <3>2. Permitted(grants') \subseteq Refs
        BY DEF Permitted
      <3>. QED
        BY <2>3, <2>4, <2>5, <3>1, <3>2
    <2>10. ({RingRef} \ {0}) = {RingRef}
      BY <2>3
    <2>11. \A i \in 1 .. Len(refs) : refs[i] # RingRef
      BY <2>4, <2>5
    <2>. HIDE DEF Mapped, Permitted
    <2>12. Mapped(grants') = ({backend'.ref} \ {0}) \cup Used'
      BY <2>2, <2>6, <2>7, <2>8
    <2>. QED
      BY <2>2, <2>3, <2>5, <2>9, <2>10, <2>11, <2>12 DEF Accounted, Mapped, Used
  <1>14. CASE XenPvBlockAsyncIoPoll
    <2>1. PICK from, a, b, d, n \in Nat : PollEffect(from, a, b, d, n)
      BY <1>14, PollIs
    <2>2. UNCHANGED <<pc, RingRef, asserted, gaveUp, backend>> /\ pc \in {"io", "Sync"} /\ ~gaveUp
      BY <1>14, PollIs DEF XenPvBlockAsyncIoPoll
    <2>3. CASE ~Started
      <3>1. AccountsKept
        BY <2>1, <2>2, <2>3 DEF PollEffect, AccountsKept
      <3>. QED
        BY <1>1, <3>1, AccountedKept
    <2>4. CASE Started
      <3>. DEFINE refs == IoData.refs
                  k0 == Len(refs)
      <3>1. /\ backend.taken = {} /\ IoData'.refs = <<>>
            /\ Listed(grants')
            /\ \A r \in Refs : r \in Permitted(grants')
                                 <=> r \in Permitted(grants) /\ \A k \in 1 .. k0 : r # refs[k]
            /\ \A k \in 1 .. k0 : grants'.entry[refs[k]] = Unused
            /\ \A r \in Refs : (\A k \in 1 .. k0 : r # refs[k]) => grants'.entry[r] = grants.entry[r]
        BY <2>1, <2>4 DEF PollEffect, EndedAll
      <3>2. DOMAIN refs = 1 .. k0 /\ SeqSet(refs) = {refs[k] : k \in 1 .. k0}
            /\ \A k \in 1 .. k0 : refs[k] \in Refs
        BY <1>1 DEF SeqSet
      <3>3. /\ RingRef # 0 /\ RingRef \in Refs /\ asserted \subseteq Alignment
            /\ \A k \in 1 .. k0 : refs[k] # RingRef
        BY <1>1, <2>2 DEF Handshake, Unbound, Accounted
      <3>4. Permitted(grants) = {RingRef} \cup SeqSet(refs)
        BY <1>1, <2>2, <3>3 DEF Accounted
      <3>. HIDE DEF k0, refs
      <3>5. Permitted(grants') = {RingRef}
        <4>1. Permitted(grants') \subseteq Refs
          BY DEF Permitted
        <4>. QED
          BY <3>1, <3>2, <3>3, <3>4, <4>1
      <3>6. Used = {} /\ Used' = {}
        BY <2>2, <3>1 DEF Used
      <3>7. Mapped(grants) = ({backend.ref} \ {0}) /\ (backend.ref # 0 => backend.ref = RingRef)
        BY <1>1, <2>2, <3>6, AccountedIs DEF Handshake
      <3>8. Mapped(grants') = Mapped(grants)
        <4>1. ASSUME NEW r \in Refs, \A k \in 1 .. k0 : r # refs[k]
              PROVE  r \in Mapped(grants') <=> r \in Mapped(grants)
          BY <3>1, <4>1 DEF Mapped
        <4>2. ASSUME NEW k \in 1 .. k0
              PROVE  refs[k] \notin Mapped(grants') /\ refs[k] \notin Mapped(grants)
          BY <3>1, <3>3, <3>7 DEF Mapped, Unused
        <4>3. Mapped(grants') \subseteq Refs /\ Mapped(grants) \subseteq Refs
          BY DEF Mapped
        <4>. QED
          BY <4>1, <4>2, <4>3
      <3>9. Mapped(grants') = ({backend'.ref} \ {0}) \cup Used'
        BY <2>2, <3>6, <3>7, <3>8
      <3>10. Permitted(grants') = ({RingRef'} \ {0}) \cup SeqSet(IoData'.refs)
        BY <1>2, <2>2, <3>1, <3>3, <3>5
      <3>11. Len(IoData'.refs) = 0
        BY <3>1
      <3>. QED
        BY <2>2, <3>1, <3>3, <3>5, <3>9, <3>10, <3>11 DEF Accounted, Mapped, Used
    <2>. QED
      BY <2>3, <2>4
  <1>15. CASE BackendConnect
    <2>1. /\ grants' = MapRefs(grants, {RingRef}, TRUE) /\ RingRef # 0 /\ RingRef \in Refs
          /\ backend'.ref = RingRef /\ backend'.taken = {} /\ backend.state = InitWait
          /\ UNCHANGED <<pc, RingRef, IoData, asserted, gaveUp>>
      BY <1>1, <1>15 DEF BackendConnect, NoBackend, driver
    <2>2. backend.ref = 0 /\ backend.taken = {} /\ pc # "off"
      BY <1>1, <2>1 DEF Handshake, Unbound
    <2>3. Used = {} /\ Used' = {}
      BY <2>1, <2>2 DEF Used
    <2>4. MappedAs(grants, grants', {RingRef}, TRUE)
      BY <1>1, <2>1, MapRefsTo
    <2>5. ~gaveUp => Mapped(grants) = {}
      BY <1>1, <2>2, <2>3, AccountedIs
    <2>6. ~gaveUp => Mapped(grants') = {RingRef}
      <3>1. ASSUME ~gaveUp PROVE Mapped(grants') = {RingRef}
        <4>1. grants'.entry[RingRef].mapped = TRUE
          BY <2>1, <2>4 DEF MappedAs
        <4>2. ASSUME NEW r \in Refs, r # RingRef PROVE ~grants'.entry[r].mapped
          <5>1. grants'.entry[r] = grants.entry[r]
            BY <2>4, <4>2 DEF MappedAs
          <5>2. ~grants.entry[r].mapped
            BY <2>5, <3>1 DEF Mapped
          <5>. QED
            BY <5>1, <5>2
        <4>. QED
          BY <2>1, <4>1, <4>2 DEF Mapped
      <3>. QED
        BY <3>1
    <2>7. ~gaveUp' => Mapped(grants') = ({backend'.ref} \ {0}) \cup Used'
      BY <2>1, <2>3, <2>6
    <2>. QED
      BY <1>1, <2>1, <2>2, <2>4, <2>7 DEF Accounted, Mapped, Used, MappedAs
  <1>16. CASE BackendUnplug \/ BackendSleep
    <2>1. backend'.ref = backend.ref /\ backend'.taken = backend.taken
      BY <1>16 DEF BackendUnplug, BackendSleep, IInv, Types
    <2>2. UNCHANGED <<pc, grants, asserted, RingRef, IoData, gaveUp>>
      BY <1>16 DEF BackendUnplug, BackendSleep, driver
    <2>. QED
      BY <1>1, <2>1, <2>2 DEF Accounted
  <1>17. CASE BackendFollow
    <2>1. UNCHANGED <<pc, asserted, RingRef, IoData, gaveUp>>
      BY <1>17 DEF BackendFollow, driver
    <2>2. CASE UNCHANGED grants /\ backend' = [backend EXCEPT !.state = Closing]
      <3>1. backend'.ref = backend.ref /\ backend'.taken = backend.taken
        BY <2>2 DEF IInv, Types
      <3>. QED
        BY <1>1, <2>1, <2>2, <3>1 DEF Accounted
    <2>3. CASE UNCHANGED grants /\ backend.ref = 0
               /\ (backend' = NoBackend \/ backend' = [NoBackend EXCEPT !.state = Closed])
      <3>1. backend'.ref = 0 /\ backend'.taken = {} /\ backend.taken = {}
        BY <1>1, <2>3 DEF NoBackend, Handshake
      <3>. QED
        BY <1>1, <2>1, <2>3, <3>1 DEF Accounted
    <2>4. CASE /\ frontState = Closed /\ backend.ref # 0
               /\ backend' = [NoBackend EXCEPT !.state = Closed]
               /\ grants' = MapRefs(grants, {backend.ref}, FALSE)
      <3>1. backend'.ref = 0 /\ backend'.taken = {} /\ backend.ref \in Refs
        BY <2>4 DEF NoBackend, IInv, Types
      <3>2. MappedAs(grants, grants', {backend.ref}, FALSE)
        BY <1>1, <2>4, MapRefsTo
      <3>3. ~gaveUp => backend.taken = {}
        <4>1. ~gaveUp => pc \notin {"io", "push", "notify", "Sync"}
          BY <1>1, <2>4 DEF Handshake, Working, Connected, Closed
        <4>. QED
          BY <4>1, QuietRing
      <3>4. ~gaveUp => Mapped(grants) = {backend.ref}
        BY <1>1, <2>4, <3>3, AccountedIs DEF Used
      <3>5. ~gaveUp => Mapped(grants') = {}
        BY <3>2, <3>4 DEF Mapped, MappedAs
      <3>6. Used' = {}
        BY <3>1 DEF Used
      <3>7. ~gaveUp' => Mapped(grants') = ({backend'.ref} \ {0}) \cup Used'
        BY <2>1, <3>1, <3>5, <3>6
      <3>8. pc = "off" => Permitted(grants') = {}
        BY <1>1, <3>2 DEF Accounted, MappedAs
      <3>. QED
        BY <1>1, <2>1, <3>2, <3>7, <3>8 DEF Accounted, Mapped, Used, MappedAs
    <2>. QED
      BY <1>1, <1>17, <2>2, <2>3, <2>4 DEF BackendFollow, Handshake
  <1>18. CASE BackendTake
    <2>. DEFINE request == sring.slot[Slot(backend.req_cons)]
    <2>1. ~gaveUp /\ backend.ref # 0
      BY <1>18, TakeIs
    <2>2. PICK from, a, b, d, n \in Nat :
                 /\ Ring(from, a, b, d, n) /\ b < d
                 /\ request = Batch(from)[Len(Batch(from)) - n + b + 1]
      BY <1>18, TakeIs
    <2>3. /\ UNCHANGED <<pc, asserted, RingRef, IoData, gaveUp>>
          /\ backend' = [backend EXCEPT !.req_cons = EventIdx(@ + 1), !.checking = FALSE,
                              !.taken = @ \cup {request}]
          /\ grants' = MapRefs(grants, SeqSet(request.refs), TRUE)
      BY <1>18 DEF BackendTake, driver
    <2>. HIDE DEF request
    <2>4. backend'.ref = backend.ref /\ backend'.taken = backend.taken \cup {request}
      BY <2>3 DEF IInv, Types
    <2>5. request.refs = <<>> \/ request.refs = IoData.refs
      <3>. DEFINE B == Batch(from)
      <3>1. BatchOf(B, from)
        BY <2>2, BatchIs DEF Ring
      <3>2. request = B[Len(B) - n + b + 1]
        BY <2>2
      <3>. HIDE DEF B
      <3>3. Len(B) - n + b + 1 \in 1 .. Len(B)
        BY <2>2, <3>1 DEF Ring, BatchOf, B
      <3>4. CASE ~Started
        BY <3>1, <3>2, <3>3, <3>4 DEF BatchOf
      <3>5. CASE Started
        <4>1. B = <<ReadRequest(from)>>
          BY <3>1, <3>5 DEF BatchOf
        <4>2. Len(B) = 1 /\ B[1] = ReadRequest(from)
          BY <4>1
        <4>3. request = ReadRequest(from)
          BY <3>2, <3>3, <4>2
        <4>. QED
          BY <4>3 DEF ReadRequest
      <3>. QED
        BY <3>4, <3>5
    <2>6. SeqSet(request.refs) \subseteq Refs
      BY <1>1, <1>2, <2>5 DEF SeqSet
    <2>7. MappedAs(grants, grants', SeqSet(request.refs), TRUE)
      BY <1>1, <2>3, MapRefsTo
    <2>8. Mapped(grants') = Mapped(grants) \cup SeqSet(request.refs)
      BY <2>6, <2>7 DEF Mapped, MappedAs
    <2>9. Used' = Used \cup SeqSet(request.refs)
      BY <2>4 DEF Used
    <2>10. Mapped(grants) = ({backend.ref} \ {0}) \cup Used
      BY <1>1, <2>1, AccountedIs
    <2>11. Mapped(grants') = ({backend'.ref} \ {0}) \cup Used'
      BY <2>4, <2>8, <2>9, <2>10
    <2>12. pc # "off"
      BY <1>1, <2>1 DEF Handshake, Unbound
    <2>. QED
      BY <1>1, <2>3, <2>7, <2>11, <2>12 DEF Accounted, Mapped, Used, MappedAs
  <1>19. CASE Respond
    <2>1. PICK request \in backend.taken, status \in Statuses : BackendRespond(request, status)
      BY <1>19 DEF Respond, Statuses
    <2>2. PICK from, a, b, d, n \in Nat : RespondEffect(request, from, a, b, d, n)
      BY RespondIs
    <2>3. ~gaveUp /\ backend.ref # 0
      BY TakenIs
    <2>4. /\ UNCHANGED <<pc, asserted, RingRef, IoData, gaveUp>>
          /\ backend' = [backend EXCEPT !.taken = @ \ {request}]
          /\ grants' = MapRefs(grants, SeqSet(request.refs), FALSE)
      BY <2>1 DEF BackendRespond
    <2>5. backend'.ref = backend.ref /\ backend'.taken = backend.taken \ {request}
      BY <2>4 DEF IInv, Types
    <2>6. MappedAs(grants, grants', SeqSet(request.refs), FALSE)
      BY <1>1, <2>4, MapRefsTo
    <2>7. Mapped(grants') = Mapped(grants) \ SeqSet(request.refs)
      BY <2>6 DEF Mapped, MappedAs
    <2>8. Mapped(grants) = ({backend.ref} \ {0}) \cup Used
      BY <1>1, <2>3, AccountedIs
    <2>9. backend.ref \notin SeqSet(request.refs) /\ Used' = Used \ SeqSet(request.refs)
      <3>1. CASE ~Started
        <4>1. SeqSet(request.refs) = {} /\ Used = {}
          BY <1>2, <2>2, <3>1, UsedIs DEF RespondEffect
        <4>2. Used' = {}
          BY <2>5, <4>1 DEF Used
        <4>. QED
          BY <4>1, <4>2
      <3>2. CASE Started
        <4>1. request.refs = IoData.refs
          BY <2>2, <3>2 DEF RespondEffect
        <4>2. backend.taken = {request}
          <5>1. IsFiniteSet(backend.taken) /\ Cardinality(backend.taken) = 1
            BY <2>2, <3>2 DEF RespondEffect, Ring
          <5>2. PICK x : backend.taken = {x}
            BY <5>1, FS_Singleton
          <5>. QED
            BY <5>2
        <4>3. Used = SeqSet(request.refs) /\ Used' = {}
          BY <2>5, <4>2 DEF Used
        <4>4. backend.ref = RingRef
          BY <1>1, <2>3 DEF Handshake
        <4>5. backend.ref \notin SeqSet(request.refs)
          BY <1>1, <4>1, <4>4 DEF Accounted, SeqSet
        <4>. QED
          BY <4>3, <4>5
      <3>. QED
        BY <3>1, <3>2
    <2>10. Mapped(grants') = ({backend'.ref} \ {0}) \cup Used'
      BY <2>3, <2>5, <2>7, <2>8, <2>9
    <2>11. pc # "off"
      BY <1>1, <2>3 DEF Handshake, Unbound
    <2>. QED
      BY <1>1, <2>4, <2>6, <2>10, <2>11 DEF Accounted, Mapped, Used, MappedAs
  <1>. QED
    BY <1>4, <1>5, <1>6, <1>7, <1>8, <1>9, <1>10, <1>11, <1>12, <1>13, <1>14, <1>15,
       <1>16, <1>17, <1>18, <1>19 DEF Next, Calls, Steps, BackendSteps

-----------------------------------------------------------------------------
(* The ring.                                                               *)

\* The part of Ring that the requests in flight make up, for any frontend F, shared ring S,
\* backend K and batch B.
RingAt(F, S, K, B, a, b, d, n) ==
    /\ {a, b, d, n} \subseteq 0 .. 2 /\ a <= b /\ b <= d /\ d <= n /\ n <= RING_SIZE
    /\ S.rsp_prod = RingIdx(F.rsp_cons, a) /\ K.req_cons = RingIdx(F.rsp_cons, b)
    /\ S.req_prod = RingIdx(F.rsp_cons, d) /\ F.req_prod_pvt = RingIdx(F.rsp_cons, n)
    /\ n <= Len(B)
    /\ \A i \in b .. n - 1 : S.slot[Slot(RingIdx(F.rsp_cons, i))] = B[Len(B) - n + i + 1]
    /\ \A request \in K.taken : \E i \in 1 .. Len(B) - n + b : request = B[i]
    /\ IsFiniteSet(K.taken) /\ Cardinality(K.taken) = b - a

\* The responses in the slots.
Answers(r, slot, a, status, moved, blocks) ==
    \A i \in 0 .. a - 1 :
        LET response == slot[Slot(RingIdx(r, i))]
        IN  /\ response.op = "BLKIF_OP_READ" <=> status = "EFI_ALREADY_STARTED"
            /\ status = "EFI_ALREADY_STARTED" => response.status \in Statuses
            /\ status = "EFI_ALREADY_STARTED" /\ response.status = "EFI_SUCCESS" => moved = blocks

AtStep(d, n) ==
    /\ pc = "push" => d = n - 1
    /\ pc # "push" => d = n
    /\ pc \notin {"io", "push", "notify", "Sync"} => n = 0
    /\ pc = "io" /\ ~Started => n = 0

\* The request that is started.
Reading(from, a, n) ==
    Started =>
        /\ n = 1 /\ from \in Nat /\ from < call.done
        /\ a = 0 => call.moved = Extent(from)
        /\ LET segments == Segments(call.Buffer + from, call.done - from)
           IN  /\ Len(IoData.refs) = Len(segments)
               /\ \A k \in 1 .. Len(segments) :
                     grants.entry[IoData.refs[k]].frame = segments[k].page

LEMMA RingIs ==
    ASSUME NEW from, NEW a, NEW b, NEW d, NEW n
    PROVE  /\ Ring(from, a, b, d, n) <=>
                 /\ RingAt(front, sring, backend, Batch(from), a, b, d, n)
                 /\ Answers(front.rsp_cons, sring.slot, a, IoData.Status, call.moved,
                            Extent(call.done))
                 /\ AtStep(d, n) /\ Reading(from, a, n)
           /\ Ring(from, a, b, d, n)' <=>
                 /\ RingAt(front', sring', backend', Batch(from)', a, b, d, n)
                 /\ Answers(front'.rsp_cons, sring'.slot, a, IoData'.Status, call'.moved,
                            Extent(call.done)')
                 /\ AtStep(d, n)' /\ Reading(from, a, n)'
  <1>. HIDE DEF Batch, Extent, Slot, RingIdx, Segments
  <1>1. Ring(from, a, b, d, n) <=>
                 /\ RingAt(front, sring, backend, Batch(from), a, b, d, n)
                 /\ Answers(front.rsp_cons, sring.slot, a, IoData.Status, call.moved,
                            Extent(call.done))
                 /\ AtStep(d, n) /\ Reading(from, a, n)
    BY Zenon DEF Ring, RingAt, Answers, AtStep, Reading, Started, Idx
  <1>2. Ring(from, a, b, d, n)' <=>
                 /\ RingAt(front', sring', backend', Batch(from)', a, b, d, n)
                 /\ Answers(front'.rsp_cons, sring'.slot, a, IoData'.Status, call'.moved,
                            Extent(call.done)')
                 /\ AtStep(d, n)' /\ Reading(from, a, n)'
    BY Zenon DEF Ring, RingAt, Answers, AtStep, Reading, Started, Idx
  <1>. QED
    BY <1>1, <1>2

\* A request is put into the ring.
Pushes(F, S, K, B, G, T, C, request, a, b, d, n) ==
    /\ n \in 0 .. 1 /\ RingAt(F, S, K, B, a, b, d, n) /\ n < RING_SIZE
    /\ F.rsp_cons \in Indices /\ Len(B) \in Nat /\ S.slot \in [0 .. RING_SIZE - 1 -> Message]
    /\ G.rsp_cons = F.rsp_cons /\ G.req_prod_pvt = EventIdx(F.req_prod_pvt + 1)
    /\ T.rsp_prod = S.rsp_prod /\ T.req_prod = S.req_prod
    /\ T.slot = [S.slot EXCEPT ![Slot(F.req_prod_pvt)] = request]
    /\ Len(C) = Len(B) + 1 /\ (\A i \in 1 .. Len(B) : C[i] = B[i]) /\ C[Len(C)] = request

LEMMA RingPush ==
    ASSUME NEW F, NEW S, NEW K, NEW B, NEW G, NEW T, NEW C, NEW request,
           NEW a, NEW b, NEW d, NEW n, Pushes(F, S, K, B, G, T, C, request, a, b, d, n)
    PROVE  RingAt(G, T, K, C, a, b, d, n + 1)
  <1>0. /\ n \in 0 .. 1 /\ RingAt(F, S, K, B, a, b, d, n) /\ n < RING_SIZE
        /\ F.rsp_cons \in Indices /\ Len(B) \in Nat /\ S.slot \in [0 .. RING_SIZE - 1 -> Message]
        /\ G.rsp_cons = F.rsp_cons /\ G.req_prod_pvt = EventIdx(F.req_prod_pvt + 1)
        /\ T.rsp_prod = S.rsp_prod /\ T.req_prod = S.req_prod
        /\ T.slot = [S.slot EXCEPT ![Slot(F.req_prod_pvt)] = request]
        /\ Len(C) = Len(B) + 1 /\ (\A i \in 1 .. Len(B) : C[i] = B[i]) /\ C[Len(C)] = request
    BY DEF Pushes
  <1>. DEFINE r == F.rsp_cons
  <1>1. /\ {a, b, d, n} \subseteq 0 .. 2 /\ a <= b /\ b <= d /\ d <= n /\ n <= RING_SIZE
        /\ n <= Len(B) /\ S.rsp_prod = RingIdx(r, a) /\ K.req_cons = RingIdx(r, b)
        /\ S.req_prod = RingIdx(r, d) /\ F.req_prod_pvt = RingIdx(r, n)
        /\ \A i \in b .. n - 1 : S.slot[Slot(RingIdx(r, i))] = B[Len(B) - n + i + 1]
        /\ \A q \in K.taken : \E i \in 1 .. Len(B) - n + b : q = B[i]
        /\ IsFiniteSet(K.taken) /\ Cardinality(K.taken) = b - a
    BY <1>0 DEF RingAt
  <1>2. r \in Indices /\ RING_SIZE \in Nat /\ G.rsp_cons = r
    BY <1>0, IdxFacts
  <1>. HIDE DEF r
  <1>3. G.req_prod_pvt = RingIdx(r, n + 1)
    BY <1>0, <1>1, <1>2, RingIdxIs
  <1>4. ASSUME NEW i \in b .. n
        PROVE  T.slot[Slot(RingIdx(r, i))] = C[Len(C) - (n + 1) + i + 1]
    <2>1. i \in 0 .. RING_SIZE - 1 /\ n \in 0 .. RING_SIZE - 1 /\ i \in 0 .. RING_SIZE
      BY <1>0, <1>1, <1>2
    <2>2. Slot(RingIdx(r, i)) \in 0 .. RING_SIZE - 1
          /\ (Slot(RingIdx(r, i)) = Slot(RingIdx(r, n)) => i = n)
      BY <1>0, <1>2, <2>1, SlotIs
    <2>3. CASE i = n
      <3>1. Len(C) - (n + 1) + i + 1 = Len(C)
        BY <1>0, <2>3
      <3>. QED
        BY <1>0, <1>1, <2>2, <2>3, <3>1
    <2>4. CASE i # n
      <3>1. i \in b .. n - 1 /\ Len(C) - (n + 1) + i + 1 = Len(B) - n + i + 1
            /\ Len(B) - n + i + 1 \in 1 .. Len(B)
        BY <1>0, <1>1, <2>4
      <3>2. T.slot[Slot(RingIdx(r, i))] = S.slot[Slot(RingIdx(r, i))]
        BY <1>0, <1>1, <2>2, <2>4
      <3>. QED
        BY <1>0, <1>1, <3>1, <3>2
    <2>. QED
      BY <1>0, <2>3, <2>4
  <1>5. ASSUME NEW q \in K.taken PROVE \E i \in 1 .. Len(C) - (n + 1) + b : q = C[i]
    <2>1. PICK i \in 1 .. Len(B) - n + b : q = B[i]
      BY <1>0, <1>1
    <2>2. i \in 1 .. Len(B) /\ i \in 1 .. Len(C) - (n + 1) + b
      BY <1>0, <1>1, <2>1
    <2>. QED
      BY <1>0, <2>1, <2>2
  <1>6. /\ {a, b, d, n + 1} \subseteq 0 .. 2 /\ a <= b /\ b <= d /\ d <= n + 1
        /\ n + 1 <= RING_SIZE /\ n + 1 <= Len(C) /\ (n + 1) - 1 = n
    BY <1>0, <1>1, <1>2
  <1>. QED
    BY <1>0, <1>1, <1>2, <1>3, <1>4, <1>5, <1>6 DEF RingAt

\* The requests put into the ring are published.
LEMMA RingPublish ==
    ASSUME NEW F, NEW S, NEW K, NEW B, NEW T, NEW a, NEW b, NEW d, NEW n,
           RingAt(F, S, K, B, a, b, d, n),
           T.rsp_prod = S.rsp_prod, T.slot = S.slot, T.req_prod = F.req_prod_pvt
    PROVE  RingAt(F, T, K, B, a, b, n, n)
  BY DEF RingAt

\* A response is read.
LEMMA RingRead ==
    ASSUME NEW F, NEW S, NEW K, NEW B, NEW G, NEW T,
           NEW a \in 0 .. 2, NEW b \in 0 .. 2, NEW d \in 0 .. 2, NEW n \in 0 .. 2,
           RingAt(F, S, K, B, a, b, d, n), a >= 1, F.rsp_cons \in Indices, Len(B) \in Nat,
           S.slot \in [0 .. RING_SIZE - 1 -> Message],
           G.rsp_cons = EventIdx(F.rsp_cons + 1), G.req_prod_pvt = F.req_prod_pvt,
           T.rsp_prod = S.rsp_prod, T.req_prod = S.req_prod,
           T.slot = [S.slot EXCEPT ![Slot(F.rsp_cons)] = Empty]
    PROVE  RingAt(G, T, K, B, a - 1, b - 1, d - 1, n - 1)
  <1>. DEFINE r == F.rsp_cons
              s == EventIdx(F.rsp_cons + 1)
  <1>1. /\ {a, b, d, n} \subseteq 0 .. 2 /\ a <= b /\ b <= d /\ d <= n /\ n <= RING_SIZE
        /\ n <= Len(B) /\ S.rsp_prod = RingIdx(r, a) /\ K.req_cons = RingIdx(r, b)
        /\ S.req_prod = RingIdx(r, d) /\ F.req_prod_pvt = RingIdx(r, n)
        /\ \A i \in b .. n - 1 : S.slot[Slot(RingIdx(r, i))] = B[Len(B) - n + i + 1]
        /\ \A q \in K.taken : \E i \in 1 .. Len(B) - n + b : q = B[i]
        /\ IsFiniteSet(K.taken) /\ Cardinality(K.taken) = b - a
    BY DEF RingAt
  <1>2. r \in Indices /\ RING_SIZE \in Nat /\ RING_SIZE >= 1 /\ G.rsp_cons = s
        /\ T.slot = [S.slot EXCEPT ![Slot(r)] = Empty] /\ r = RingIdx(r, 0)
    BY IdxFacts, RingIdxIs
  <1>3. \A i \in 0 .. RING_SIZE : RingIdx(s, i) = RingIdx(r, i + 1)
    BY <1>2, RingIdxIs
  <1>. HIDE DEF r, s
  <1>4. \A i \in 1 .. RING_SIZE : RingIdx(s, i - 1) = RingIdx(r, i)
    <2>1. ASSUME NEW i \in 1 .. RING_SIZE PROVE RingIdx(s, i - 1) = RingIdx(r, i)
      <3>1. i - 1 \in 0 .. RING_SIZE /\ (i - 1) + 1 = i
        BY <1>2
      <3>2. RingIdx(s, i - 1) = RingIdx(r, (i - 1) + 1)
        BY <1>3, <3>1
      <3>. QED
        BY <3>1, <3>2
    <2>. QED
      BY <2>1
  <1>5. {a, b, d, n} \subseteq 1 .. RING_SIZE
    BY <1>1, <1>2
  <1>6. /\ T.rsp_prod = RingIdx(s, a - 1) /\ K.req_cons = RingIdx(s, b - 1)
        /\ T.req_prod = RingIdx(s, d - 1) /\ G.req_prod_pvt = RingIdx(s, n - 1)
    BY <1>1, <1>4, <1>5
  <1>7. ASSUME NEW i \in b - 1 .. (n - 1) - 1
        PROVE  T.slot[Slot(RingIdx(s, i))] = B[Len(B) - (n - 1) + i + 1]
    <2>1. i + 1 \in b .. n - 1 /\ i + 1 \in 0 .. RING_SIZE - 1 /\ i + 1 # 0
          /\ i \in 0 .. RING_SIZE /\ 0 \in 0 .. RING_SIZE - 1 /\ i + 1 \in 0 .. RING_SIZE
      BY <1>1, <1>2, <1>5, SMTT(30)
    <2>2. RingIdx(s, i) = RingIdx(r, i + 1)
      BY <1>3, <2>1
    <2>. DEFINE j == i + 1
    <2>3. Slot(RingIdx(r, j)) \in 0 .. RING_SIZE - 1 /\ Slot(RingIdx(r, j)) # Slot(RingIdx(r, 0))
      <3>. HIDE DEF j
      <3>1. j \in 0 .. RING_SIZE - 1 /\ j \in 0 .. RING_SIZE /\ j # 0
        BY <2>1 DEF j
      <3>. QED
        BY <1>2, <2>1, <3>1, SlotIs
    <2>4. T.slot[Slot(RingIdx(r, j))] = S.slot[Slot(RingIdx(r, j))]
      <3>. HIDE DEF j
      <3>. QED
        BY <1>2, <2>3
    <2>5. S.slot[Slot(RingIdx(r, j))] = B[Len(B) - n + j + 1]
      <3>. HIDE DEF j
      <3>1. j \in b .. n - 1
        BY <2>1 DEF j
      <3>. QED
        BY <1>1, <3>1
    <2>6. Len(B) - n + j + 1 = Len(B) - (n - 1) + i + 1
      BY <2>1
    <2>. QED
      BY <2>2, <2>4, <2>5, <2>6
  <1>8. Len(B) - (n - 1) + (b - 1) = Len(B) - n + b /\ (b - 1) - (a - 1) = b - a
    OBVIOUS
  <1>9. /\ {a - 1, b - 1, d - 1, n - 1} \subseteq 0 .. 2 /\ a - 1 <= b - 1 /\ b - 1 <= d - 1
        /\ d - 1 <= n - 1 /\ n - 1 <= RING_SIZE /\ n - 1 <= Len(B)
    BY <1>1, <1>2
  <1>. QED
    BY <1>1, <1>2, <1>6, <1>7, <1>8, <1>9 DEF RingAt

\* The backend takes a request.
LEMMA RingTake ==
    ASSUME NEW F, NEW S, NEW K, NEW B, NEW T, NEW L,
           NEW a \in 0 .. 2, NEW b \in 0 .. 2, NEW d \in 0 .. 2, NEW n \in 0 .. 2,
           RingAt(F, S, K, B, a, b, d, n), b < d, F.rsp_cons \in Indices, Len(B) \in Nat,
           \A i, j \in 1 .. Len(B) : B[i] = B[j] => i = j,
           S.slot \in [0 .. RING_SIZE - 1 -> Message],
           T.rsp_prod = S.rsp_prod, T.req_prod = S.req_prod,
           T.slot = [S.slot EXCEPT ![Slot(K.req_cons)] = Empty],
           L.req_cons = EventIdx(K.req_cons + 1),
           L.taken = K.taken \cup {S.slot[Slot(K.req_cons)]}
    PROVE  RingAt(F, T, L, B, a, b + 1, d, n)
  <1>. DEFINE r == F.rsp_cons
              e == Len(B) - n + b + 1
  <1>1. /\ {a, b, d, n} \subseteq 0 .. 2 /\ a <= b /\ b <= d /\ d <= n /\ n <= RING_SIZE
        /\ n <= Len(B) /\ S.rsp_prod = RingIdx(r, a) /\ K.req_cons = RingIdx(r, b)
        /\ S.req_prod = RingIdx(r, d) /\ F.req_prod_pvt = RingIdx(r, n)
        /\ \A i \in b .. n - 1 : S.slot[Slot(RingIdx(r, i))] = B[Len(B) - n + i + 1]
        /\ \A q \in K.taken : \E i \in 1 .. Len(B) - n + b : q = B[i]
        /\ IsFiniteSet(K.taken) /\ Cardinality(K.taken) = b - a
    BY DEF RingAt
  <1>2. r \in Indices /\ RING_SIZE \in Nat
    BY IdxFacts
  <1>. HIDE DEF r
  <1>3. b \in b .. n - 1 /\ e \in 1 .. Len(B) /\ e > Len(B) - n + b /\ b \in 0 .. RING_SIZE - 1
        /\ b \in 0 .. RING_SIZE
    BY <1>1, <1>2
  <1>4. S.slot[Slot(K.req_cons)] = B[e]
    BY <1>1, <1>3
  <1>. HIDE DEF e
  <1>5. L.req_cons = RingIdx(r, b + 1)
    BY <1>1, <1>2, <1>3, RingIdxIs
  <1>6. ASSUME NEW i \in b + 1 .. n - 1
        PROVE  T.slot[Slot(RingIdx(r, i))] = B[Len(B) - n + i + 1]
    <2>1. i \in b .. n - 1 /\ i \in 0 .. RING_SIZE - 1 /\ i \in 0 .. RING_SIZE /\ i # b
      BY <1>1, <1>2
    <2>2. Slot(RingIdx(r, i)) \in 0 .. RING_SIZE - 1 /\ Slot(RingIdx(r, i)) # Slot(RingIdx(r, b))
      BY <1>2, <1>3, <2>1, SlotIs
    <2>3. T.slot[Slot(RingIdx(r, i))] = S.slot[Slot(RingIdx(r, i))]
      BY <1>1, <2>2
    <2>. QED
      BY <1>1, <2>1, <2>3
  <1>7. B[e] \notin K.taken
    <2>1. SUFFICES ASSUME B[e] \in K.taken PROVE FALSE
      OBVIOUS
    <2>2. PICK i \in 1 .. Len(B) - n + b : B[e] = B[i]
      BY <1>1, <2>1
    <2>3. i \in 1 .. Len(B) /\ i # e
      BY <1>1, <1>3, <2>2
    <2>. QED
      BY <1>3, <2>2, <2>3
  <1>8. IsFiniteSet(L.taken) /\ Cardinality(L.taken) = (b + 1) - a
    <2>1. IsFiniteSet(K.taken \cup {B[e]})
          /\ Cardinality(K.taken \cup {B[e]}) = Cardinality(K.taken) + 1
      BY <1>1, <1>7, FS_AddElement
    <2>2. L.taken = K.taken \cup {B[e]}
      BY <1>4
    <2>3. (b - a) + 1 = (b + 1) - a
      OBVIOUS
    <2>4. Cardinality(K.taken \cup {B[e]}) = (b - a) + 1
      BY <1>1, <2>1
    <2>. QED
      BY <2>1, <2>2, <2>3, <2>4, Zenon
  <1>9. ASSUME NEW q \in L.taken PROVE \E i \in 1 .. Len(B) - n + (b + 1) : q = B[i]
    <2>1. CASE q \in K.taken
      <3>1. PICK i \in 1 .. Len(B) - n + b : q = B[i]
        BY <1>1, <2>1
      <3>2. i \in 1 .. Len(B) - n + (b + 1)
        BY <1>1, <3>1
      <3>. QED
        BY <3>1, <3>2
    <2>2. CASE q = B[e]
      <3>1. e \in 1 .. Len(B) - n + (b + 1)
        BY <1>1, <1>3 DEF e
      <3>. QED
        BY <2>2, <3>1
    <2>. QED
      BY <1>4, <2>1, <2>2
  <1>10. /\ {a, b + 1, d, n} \subseteq 0 .. 2 /\ a <= b + 1 /\ b + 1 <= d
    BY <1>1
  <1>. QED
    BY <1>1, <1>2, <1>5, <1>6, <1>8, <1>9, <1>10 DEF RingAt, r

\* The backend responds to one of the requests that it has taken.
Responds(F, S, K, B, T, L, request, response, a, b, d, n) ==
    /\ {a, b, d, n} \subseteq 0 .. 2 /\ RingAt(F, S, K, B, a, b, d, n) /\ a < b
    /\ request \in K.taken /\ F.rsp_cons \in Indices /\ Len(B) \in Nat
    /\ S.slot \in [0 .. RING_SIZE - 1 -> Message]
    /\ T.rsp_prod = EventIdx(S.rsp_prod + 1) /\ T.req_prod = S.req_prod
    /\ T.slot = [S.slot EXCEPT ![Slot(S.rsp_prod)] = response]
    /\ L.req_cons = K.req_cons /\ L.taken = K.taken \ {request}

LEMMA RingRespond ==
    ASSUME NEW F, NEW S, NEW K, NEW B, NEW T, NEW L, NEW request, NEW response,
           NEW a, NEW b, NEW d, NEW n, Responds(F, S, K, B, T, L, request, response, a, b, d, n)
    PROVE  /\ RingAt(F, T, L, B, a + 1, b, d, n)
           /\ \A i \in 0 .. a - 1 : T.slot[Slot(RingIdx(F.rsp_cons, i))]
                                      = S.slot[Slot(RingIdx(F.rsp_cons, i))]
           /\ T.slot[Slot(RingIdx(F.rsp_cons, a))] = response
  <1>0. /\ {a, b, d, n} \subseteq 0 .. 2 /\ RingAt(F, S, K, B, a, b, d, n) /\ a < b
        /\ request \in K.taken /\ F.rsp_cons \in Indices /\ Len(B) \in Nat
        /\ S.slot \in [0 .. RING_SIZE - 1 -> Message]
        /\ T.rsp_prod = EventIdx(S.rsp_prod + 1) /\ T.req_prod = S.req_prod
        /\ T.slot = [S.slot EXCEPT ![Slot(S.rsp_prod)] = response]
        /\ L.req_cons = K.req_cons /\ L.taken = K.taken \ {request}
    BY DEF Responds
  <1>. DEFINE r == F.rsp_cons
  <1>1. /\ {a, b, d, n} \subseteq 0 .. 2 /\ a <= b /\ b <= d /\ d <= n /\ n <= RING_SIZE
        /\ n <= Len(B) /\ S.rsp_prod = RingIdx(r, a) /\ K.req_cons = RingIdx(r, b)
        /\ S.req_prod = RingIdx(r, d) /\ F.req_prod_pvt = RingIdx(r, n)
        /\ \A i \in b .. n - 1 : S.slot[Slot(RingIdx(r, i))] = B[Len(B) - n + i + 1]
        /\ \A q \in K.taken : \E i \in 1 .. Len(B) - n + b : q = B[i]
        /\ IsFiniteSet(K.taken) /\ Cardinality(K.taken) = b - a
    BY <1>0 DEF RingAt
  <1>2. r \in Indices /\ RING_SIZE \in Nat
    BY <1>0, IdxFacts
  <1>. HIDE DEF r
  <1>3. a \in 0 .. RING_SIZE - 1 /\ a \in 0 .. RING_SIZE
    BY <1>0, <1>1, <1>2
  <1>4. T.rsp_prod = RingIdx(r, a + 1)
    BY <1>0, <1>1, <1>2, <1>3, RingIdxIs
  <1>5. ASSUME NEW i \in 0 .. n - 1, i # a
        PROVE  T.slot[Slot(RingIdx(r, i))] = S.slot[Slot(RingIdx(r, i))]
    <2>1. i \in 0 .. RING_SIZE - 1 /\ i \in 0 .. RING_SIZE
      BY <1>0, <1>1, <1>2
    <2>2. Slot(RingIdx(r, i)) \in 0 .. RING_SIZE - 1 /\ Slot(RingIdx(r, i)) # Slot(RingIdx(r, a))
      BY <1>0, <1>2, <1>3, <1>5, <2>1, SlotIs
    <2>. QED
      BY <1>0, <1>1, <2>2
  <1>6. T.slot[Slot(RingIdx(r, a))] = response
    <2>1. Slot(RingIdx(r, a)) \in 0 .. RING_SIZE - 1
      BY <1>0, <1>2, <1>3, SlotIs
    <2>. QED
      BY <1>0, <1>1, <2>1
  <1>7. \A i \in b .. n - 1 : T.slot[Slot(RingIdx(r, i))] = B[Len(B) - n + i + 1]
    BY <1>0, <1>1, <1>5
  <1>8. \A i \in 0 .. a - 1 : T.slot[Slot(RingIdx(r, i))] = S.slot[Slot(RingIdx(r, i))]
    BY <1>0, <1>1, <1>5
  <1>9. IsFiniteSet(L.taken) /\ Cardinality(L.taken) = b - (a + 1)
    <2>1. IsFiniteSet(K.taken \ {request})
          /\ Cardinality(K.taken \ {request}) = Cardinality(K.taken) - 1
      BY <1>0, <1>1, FS_RemoveElement
    <2>. QED
      BY <1>0, <1>1, <2>1
  <1>10. \A q \in L.taken : \E i \in 1 .. Len(B) - n + b : q = B[i]
    BY <1>0, <1>1
  <1>11. /\ {a + 1, b, d, n} \subseteq 0 .. 2 /\ a + 1 <= b
    BY <1>0, <1>1
  <1>. HIDE DEF RingAt
  <1>12. RingAt(F, T, L, B, a + 1, b, d, n)
    BY <1>0, <1>1, <1>2, <1>4, <1>7, <1>9, <1>10, <1>11 DEF RingAt, r
  <1>. QED
    BY <1>0, <1>6, <1>8, <1>12 DEF r

\* Nothing is in flight.
Idle ==
    /\ ~Started /\ backend.taken = {}
    /\ sring.rsp_prod = front.rsp_cons /\ backend.req_cons = front.rsp_cons
    /\ sring.req_prod = front.rsp_cons /\ front.req_prod_pvt = front.rsp_cons

LEMMA EmptyRing ==
    ASSUME NEW F, NEW S, NEW K, NEW B, Len(B) \in Nat, F.rsp_cons \in Indices,
           K.taken = {}, S.rsp_prod = F.rsp_cons, K.req_cons = F.rsp_cons,
           S.req_prod = F.rsp_cons, F.req_prod_pvt = F.rsp_cons
    PROVE  RingAt(F, S, K, B, 0, 0, 0, 0)
  <1>1. IsFiniteSet({}) /\ Cardinality({}) = 0
    BY FS_EmptySet
  <1>2. RingIdx(F.rsp_cons, 0) = F.rsp_cons /\ RING_SIZE \in Nat
    BY RingIdxIs, IdxFacts
  <1>. QED
    BY <1>1, <1>2 DEF RingAt

LEMMA IdleIs ==
    ASSUME IInv, ~gaveUp, backend.ref # 0,
           \/ pc \notin {"io", "push", "notify", "Sync"}
           \/ pc = "io" /\ ~Started
           \/ pc = "Sync" /\ front.req_prod_pvt = front.rsp_cons
    PROVE  Idle
  <1>1. PICK from, a, b, d, n \in Nat : Ring(from, a, b, d, n)
    BY DEF IInv, Rings
  <1>. DEFINE r == front.rsp_cons
  <1>2. r \in Indices /\ RING_SIZE \in Nat /\ RingIdx(r, 0) = r
    BY RingIdxIs, IdxFacts DEF IInv, Types
  <1>3. /\ {a, b, d, n} \subseteq 0 .. 2 /\ a <= b /\ b <= d /\ d <= n /\ n <= RING_SIZE
        /\ sring.rsp_prod = RingIdx(r, a) /\ backend.req_cons = RingIdx(r, b)
        /\ sring.req_prod = RingIdx(r, d) /\ front.req_prod_pvt = RingIdx(r, n)
        /\ IsFiniteSet(backend.taken) /\ Cardinality(backend.taken) = b - a
    BY <1>1 DEF Ring, Idx
  <1>4. n = 0
    <2>1. CASE pc \notin {"io", "push", "notify", "Sync"} \/ (pc = "io" /\ ~Started)
      BY <1>1, <2>1 DEF Ring
    <2>2. CASE front.req_prod_pvt = front.rsp_cons
      <3>1. RingIdx(r, n) = RingIdx(r, 0) /\ n \in 0 .. RING_SIZE /\ 0 \in 0 .. RING_SIZE
        BY <1>2, <1>3, <2>2
      <3>. HIDE DEF r
      <3>. QED
        BY <1>2, <3>1, RingIdxIs
    <2>. QED
      BY <2>1, <2>2
  <1>5. a = 0 /\ b = 0 /\ d = 0
    BY <1>3, <1>4
  <1>6. backend.taken = {}
    BY <1>3, <1>5, FS_EmptySet
  <1>7. ~Started
    BY <1>1, <1>4 DEF Ring
  <1>. QED
    BY <1>2, <1>3, <1>4, <1>5, <1>6, <1>7 DEF Idle

LEMMA IdleRing ==
    ASSUME Types', Syncing', Idle', pc' # "push"
    PROVE  Rings'
  <1>1. Len(Batch(0)') \in Nat
    <2>1. Batch(0)' = [i \in 1 .. Len(SyncOps') - Len(ops') |-> FlushRequest(SyncOps'[i])]
      BY DEF Batch, Idle, FlushRequest
    <2>2. Len(SyncOps') \in Nat /\ Len(ops') \in Nat /\ Len(ops') <= Len(SyncOps')
      BY SyncListsAre DEF Types, Syncing
    <2>3. Len(SyncOps') - Len(ops') \in Nat
      BY <2>2
    <2>. QED
      BY <2>1, <2>3
  <1>2. RingAt(front', sring', backend', Batch(0)', 0, 0, 0, 0)
    BY <1>1, EmptyRing DEF Idle, Types
  <1>3. Answers(front'.rsp_cons, sring'.slot, 0, IoData'.Status, call'.moved, Extent(call.done)')
    BY DEF Answers
  <1>4. AtStep(0, 0)' /\ Reading(0, 0, 0)'
    BY DEF AtStep, Reading, Idle
  <1>5. Ring(0, 0, 0, 0, 0)'
    BY <1>2, <1>3, <1>4, RingIs
  <1>6. \E from, a, b, d, n \in Nat : Ring(from, a, b, d, n)'
    BY <1>5
  <1>. QED
    BY <1>6 DEF Rings

\* The driver's side of the ring stays as it is.
BatchKept ==
    /\ UNCHANGED <<IoData, SyncOps, ops>>
    /\ call'.Sector = call.Sector /\ call'.Buffer = call.Buffer /\ call'.done = call.done
    /\ \A ref \in Refs : grants'.entry[ref].frame = grants.entry[ref].frame

LEMMA BatchKeeps ==
    ASSUME BatchKept, NEW from
    PROVE  Batch(from)' = Batch(from) /\ Extent(call.done)' = Extent(call.done)
           /\ Extent(from)' = Extent(from)
  BY DEF BatchKept, Batch, Started, ReadRequest, Extent

LEMMA ReadingKept ==
    ASSUME IInv, BatchKept, NEW from, NEW a, NEW n, NEW c, Reading(from, a, n),
           c = 0 => a = 0 /\ call'.moved = call.moved
    PROVE  Reading(from, c, n)'
  <1>1. SUFFICES ASSUME Started PROVE Reading(from, c, n)'
    BY DEF Reading, Started, BatchKept
  <1>. DEFINE segments == Segments(call.Buffer + from, call.done - from)
  <1>2. /\ n = 1 /\ from \in Nat /\ from < call.done /\ (a = 0 => call.moved = Extent(from))
        /\ Len(IoData.refs) = Len(segments)
        /\ \A k \in 1 .. Len(segments) : grants.entry[IoData.refs[k]].frame = segments[k].page
    BY <1>1 DEF Reading
  <1>3. segments' = segments
    BY DEF BatchKept
  <1>. HIDE DEF segments
  <1>4. Extent(from)' = Extent(from) /\ UNCHANGED IoData /\ call'.done = call.done
    BY BatchKeeps DEF BatchKept
  <1>5. \A k \in 1 .. Len(IoData.refs) : IoData.refs[k] \in Refs
    BY DEF IInv, Types
  <1>6. \A k \in 1 .. Len(segments) : grants'.entry[IoData.refs[k]].frame = segments[k].page
    BY <1>2, <1>5 DEF BatchKept
  <1>7. c = 0 => call'.moved = Extent(from)'
    BY <1>2, <1>4
  <1>8. /\ n = 1 /\ from \in Nat /\ from < call'.done /\ (c = 0 => call'.moved = Extent(from)')
        /\ Len(IoData'.refs) = Len(segments')
        /\ \A k \in 1 .. Len(segments') : grants'.entry[IoData'.refs[k]].frame = segments'[k].page
    BY <1>2, <1>3, <1>4, <1>6, <1>7
  <1>. QED
    BY <1>8, Zenon DEF Reading, segments

\* A step that only moves the driver on.
RingKept ==
    /\ BatchKept /\ UNCHANGED front /\ call'.moved = call.moved
    /\ sring'.rsp_prod = sring.rsp_prod /\ sring'.req_prod = sring.req_prod
    /\ sring'.slot = sring.slot
    /\ backend'.req_cons = backend.req_cons /\ backend'.taken = backend.taken

LEMMA RingKeeps ==
    ASSUME IInv, RingKept, NEW from, NEW a, NEW b, NEW d, NEW n,
           Ring(from, a, b, d, n), AtStep(d, n)'
    PROVE  Ring(from, a, b, d, n)'
  <1>1. /\ RingAt(front, sring, backend, Batch(from), a, b, d, n)
        /\ Answers(front.rsp_cons, sring.slot, a, IoData.Status, call.moved, Extent(call.done))
        /\ Reading(from, a, n)
    BY RingIs
  <1>2. Batch(from)' = Batch(from) /\ Extent(call.done)' = Extent(call.done)
    BY BatchKeeps DEF RingKept
  <1>3. RingAt(front', sring', backend', Batch(from)', a, b, d, n)
    <2>1. /\ front' = front /\ sring'.rsp_prod = sring.rsp_prod
          /\ sring'.req_prod = sring.req_prod /\ sring'.slot = sring.slot
          /\ backend'.req_cons = backend.req_cons /\ backend'.taken = backend.taken
      BY DEF RingKept
    <2>. QED
      BY <1>1, <1>2, <2>1 DEF RingAt
  <1>4. Answers(front'.rsp_cons, sring'.slot, a, IoData'.Status, call'.moved, Extent(call.done)')
    BY <1>1, <1>2, Zenon DEF RingKept, BatchKept
  <1>5. Reading(from, a, n)'
    BY <1>1, ReadingKept DEF RingKept
  <1>. QED
    BY <1>3, <1>4, <1>5, RingIs

\* A step of the driver when nothing is in flight.
LEMMA QuietStep ==
    ASSUME IInv, Types', Syncing', ~gaveUp, backend.ref # 0,
           \/ pc \notin {"io", "push", "notify", "Sync"}
           \/ pc = "io" /\ ~Started
           \/ pc = "Sync" /\ front.req_prod_pvt = front.rsp_cons,
           UNCHANGED <<front, sring, backend>>, IoData' = NoIo, pc' # "push"
    PROVE  Rings'
  <1>1. Idle
    BY IdleIs
  <1>2. Idle'
    BY <1>1 DEF Idle, Started, NoIo
  <1>. QED
    BY <1>2, IdleRing

\* XenPvBlockAsyncIo().
LEMMA AsyncIoRing ==
    ASSUME IInv, XenPvBlockAsyncIo
    PROVE  Rings'
  <1>1. PICK size, segments, refs : AsyncIoEffect(size, segments, refs)
    BY AsyncIoIs
  <1>0. PICK from \in Nat : from = call.done
    BY DEF IInv, Types
  <1>. DEFINE request == [op |-> "BLKIF_OP_READ", sector |-> call.Sector + call.done,
                          refs |-> refs, segments |-> segments]
  <1>2. /\ pc = "io" /\ pc' = "push" /\ IoData.Status \in {"none", "EFI_SUCCESS"} /\ ~Full
        /\ front' = [front EXCEPT !.req_prod_pvt = EventIdx(@ + 1)] /\ UNCHANGED backend
    BY DEF XenPvBlockAsyncIo
  <1>3. /\ size \in Nat /\ size > 0
        /\ segments = Segments(call.Buffer + from, size)
        /\ Len(refs) = Len(segments) /\ GrantedAll(grants, refs, segments, Len(segments), grants')
        /\ IoData' = [Status |-> "EFI_ALREADY_STARTED", refs |-> refs]
        /\ call' = [call EXCEPT !.done = @ + size]
        /\ sring' = [sring EXCEPT !.slot[Slot(front.req_prod_pvt)] = request]
    BY <1>0, <1>1 DEF AsyncIoEffect
  <1>. HIDE DEF request
  <1>4. /\ call'.Sector = call.Sector /\ call'.Buffer = call.Buffer /\ call'.done = from + size
        /\ call'.moved = call.moved /\ from \in Nat /\ call.Sector \in Nat /\ call.Buffer \in Nat
        /\ IoData'.Status = "EFI_ALREADY_STARTED" /\ IoData'.refs = refs /\ Started'
    BY <1>0, <1>3 DEF IInv, Types, Started
  <1>5. ~Started /\ ~gaveUp /\ backend.ref # 0
    BY <1>2 DEF Started, IInv, Handshake, Working
  <1>6. Idle
    BY <1>2, <1>5, IdleIs
  <1>7. /\ front'.rsp_cons = front.rsp_cons /\ front'.req_prod_pvt = EventIdx(front.req_prod_pvt + 1)
        /\ sring'.rsp_prod = sring.rsp_prod /\ sring'.req_prod = sring.req_prod
        /\ sring'.slot = [sring.slot EXCEPT ![Slot(front.req_prod_pvt)] = request]
        /\ front.rsp_cons \in Indices /\ sring.slot \in [0 .. RING_SIZE - 1 -> Message]
    BY <1>2, <1>3 DEF IInv, Types
  <1>8. RingAt(front, sring, backend, <<>>, 0, 0, 0, 0)
    BY <1>6, <1>7, EmptyRing DEF Idle
  <1>9. RingAt(front', sring', backend, <<request>>, 0, 0, 0, 1)
    <2>. DEFINE B == <<>>
                C == <<request>>
                z == 0
    <2>1. /\ Len(B) \in Nat /\ Len(C) = Len(B) + 1 /\ C[Len(C)] = request
          /\ (\A i \in 1 .. Len(B) : C[i] = B[i])
          /\ z < RING_SIZE /\ z \in 0 .. 1 /\ z + 1 = 1
      BY IdxFacts
    <2>2. RingAt(front, sring, backend, B, z, z, z, z)
      BY <1>8
    <2>. HIDE DEF B, C, z
    <2>3. Pushes(front, sring, backend, B, front', sring', C, request, z, z, z, z)
      BY <1>7, <2>1, <2>2 DEF Pushes
    <2>4. RingAt(front', sring', backend, C, z, z, z, z + 1)
      BY <2>3, RingPush
    <2>. QED
      BY <2>1, <2>4 DEF C, z
  <1>10. Batch(from)' = <<request>>
    <2>1. call'.done - from = size
      BY <1>3, <1>4
    <2>2. ReadRequest(from)' = request
      BY <1>0, <1>3, <1>4, <2>1 DEF ReadRequest, request
    <2>. QED
      BY <1>4, <2>2 DEF Batch
  <1>11. call'.moved = Extent(from)'
    <2>1. Extent(from)' = Extent(from)
      BY <1>4 DEF Extent
    <2>2. CASE IoData.Status = "none"
      <3>1. call.done = 0 /\ call.moved = {}
        BY <1>2, <2>2 DEF IInv, Activity
      <3>2. Extent(0) = {}
        BY DEF Extent
      <3>. QED
        BY <1>0, <1>4, <2>1, <3>1, <3>2
    <2>3. CASE IoData.Status = "EFI_SUCCESS"
      BY <1>0, <1>2, <1>4, <2>1, <2>3 DEF IInv, Transfer
    <2>. QED
      BY <1>2, <2>2, <2>3
  <1>12. Reading(from, 0, 1)'
    <2>1. Segments(call'.Buffer + from, call'.done - from) = segments
      <3>1. call'.done - from = size
        BY <1>3, <1>4
      <3>. QED
        BY <1>3, <1>4, <3>1
    <2>2. \A k \in 1 .. Len(segments) : grants'.entry[refs[k]].frame = segments[k].page
      <3>1. ASSUME NEW k \in 1 .. Len(segments)
            PROVE  grants'.entry[refs[k]].frame = segments[k].page
        <4>1. grants'.entry[refs[k]] = [frame |-> segments[k].page, permit |-> TRUE,
                                        mapped |-> FALSE]
          BY <1>3 DEF GrantedAll
        <4>. QED
          BY <4>1
      <3>. QED
        BY <3>1
    <2>3. from < call'.done
      BY <1>3, <1>4
    <2>. QED
      BY <1>3, <1>4, <1>11, <2>1, <2>2, <2>3 DEF Reading
  <1>13. Answers(front'.rsp_cons, sring'.slot, 0, IoData'.Status, call'.moved, Extent(call.done)')
    BY DEF Answers
  <1>14. AtStep(0, 1)'
    BY <1>2 DEF AtStep
  <1>15. Ring(from, 0, 0, 0, 1)'
    BY <1>2, <1>9, <1>10, <1>12, <1>13, <1>14, RingIs
  <1>. QED
    BY <1>15 DEF Rings

\* XenPvBlockPushOperation().
LEMMA PushOperationRing ==
    ASSUME IInv, XenPvBlockPushOperation
    PROVE  Rings'
  <1>. DEFINE request == FlushRequest(ops[1])
  <1>1. /\ pc = "Sync" /\ pc' = "push" /\ ops # <<>> /\ ops' = Tail(ops) /\ ~Full
        /\ front' = [front EXCEPT !.req_prod_pvt = EventIdx(@ + 1)]
        /\ sring' = [sring EXCEPT !.slot[Slot(front.req_prod_pvt)] = request]
        /\ UNCHANGED <<IoData, SyncOps, call, backend, grants>>
    BY DEF XenPvBlockPushOperation, FlushRequest
  <1>. HIDE DEF request
  <1>2. ~Started /\ ~gaveUp /\ backend.ref # 0 /\ ~Started'
    BY <1>1 DEF Started, IInv, Handshake, Working, Activity, NoIo
  <1>3. PICK from, a, b, d, n \in Nat : Ring(from, a, b, d, n)
    BY <1>2 DEF IInv, Rings
  <1>4. /\ RingAt(front, sring, backend, Batch(from), a, b, d, n)
        /\ Answers(front.rsp_cons, sring.slot, a, IoData.Status, call.moved, Extent(call.done))
        /\ AtStep(d, n)
    BY <1>3, RingIs
  <1>. DEFINE B == Batch(from)
              C == [i \in 1 .. Len(SyncOps) - Len(ops') |-> FlushRequest(SyncOps[i])]
  <1>5. Batch(from)' = C
    BY <1>1, <1>2 DEF Batch, FlushRequest
  <1>6. BatchOf(B, from)
    BY <1>2, BatchIs
  <1>7. /\ Len(ops) \in Nat /\ Len(ops) > 0 /\ Len(ops') = Len(ops) - 1
        /\ Len(SyncOps) \in 0 .. 2 /\ Len(ops) <= Len(SyncOps)
        /\ ops[1] = SyncOps[Len(SyncOps) - Len(ops) + 1]
    <2>1. Len(SyncOps) \in 0 .. 2 /\ Len(ops) <= Len(SyncOps) /\ ops \in Seq(FlushOps)
          /\ \A i \in 1 .. Len(ops) : ops[i] = SyncOps[Len(SyncOps) - Len(ops) + i]
      BY SyncListsAre DEF IInv, Types, Activity
    <2>2. Len(ops) \in Nat /\ Len(ops) > 0 /\ Len(ops') = Len(ops) - 1
      BY <1>1, <2>1
    <2>. QED
      BY <2>1, <2>2
  <1>8. /\ Len(B) = Len(SyncOps) - Len(ops)
        /\ \A i \in 1 .. Len(B) : B[i] = FlushRequest(SyncOps[i])
    BY <1>2, <1>6 DEF BatchOf
  <1>. HIDE DEF B
  <1>9. /\ Len(C) = Len(B) + 1 /\ Len(B) \in Nat /\ Len(C) <= 2
        /\ (\A i \in 1 .. Len(B) : C[i] = B[i]) /\ C[Len(C)] = request
    <2>1. Len(C) = Len(SyncOps) - Len(ops') /\ Len(SyncOps) - Len(ops') \in Nat
      BY <1>7
    <2>2. \A i \in 1 .. Len(C) : C[i] = FlushRequest(SyncOps[i])
      BY <2>1
    <2>. HIDE DEF C
    <2>3. Len(C) = Len(B) + 1 /\ Len(B) \in Nat /\ Len(C) <= 2 /\ Len(C) \in 1 .. Len(C)
          /\ Len(C) = Len(SyncOps) - Len(ops) + 1
      BY <1>7, <1>8, <2>1, SMTT(30)
    <2>4. C[Len(C)] = request
      BY <1>7, <2>2, <2>3 DEF request
    <2>5. \A i \in 1 .. Len(B) : C[i] = B[i]
      BY <1>8, <2>2, <2>3
    <2>. QED
      BY <2>3, <2>4, <2>5
  <1>. HIDE DEF C
  <1>10. n < RING_SIZE /\ n <= Len(B) /\ n \in 0 .. 1 /\ d = n /\ a <= n
    <2>1. /\ {a, b, d, n} \subseteq 0 .. 2 /\ a <= b /\ b <= d /\ d <= n
          /\ n <= RING_SIZE /\ n <= Len(B) /\ front.req_prod_pvt = RingIdx(front.rsp_cons, n)
      BY <1>4 DEF RingAt, B
    <2>2. EventIdx(front.req_prod_pvt - front.rsp_cons) = n
      BY <2>1, RingIdxIs, IdxFacts DEF IInv, Types
    <2>3. n # RING_SIZE
      BY <1>1, <2>2 DEF Full, EventIdx
    <2>4. d = n
      BY <1>1, <1>4 DEF AtStep
    <2>. DEFINE l == Len(B)
                m == Len(C)
    <2>5. l \in Nat /\ m = l + 1 /\ m <= 2 /\ n <= l /\ a <= b /\ b <= d /\ d <= n
          /\ n <= RING_SIZE
      BY <1>9, <2>1
    <2>. HIDE DEF l, m
    <2>6. n \in 0 .. 1
      BY <2>5
    <2>7. a <= n /\ n < RING_SIZE
      BY <2>3, <2>5, IdxFacts
    <2>. QED
      BY <2>1, <2>4, <2>6, <2>7
  <1>11. /\ front'.rsp_cons = front.rsp_cons
         /\ front'.req_prod_pvt = EventIdx(front.req_prod_pvt + 1)
         /\ sring'.rsp_prod = sring.rsp_prod /\ sring'.req_prod = sring.req_prod
         /\ sring'.slot = [sring.slot EXCEPT ![Slot(front.req_prod_pvt)] = request]
         /\ front.rsp_cons \in Indices /\ sring.slot \in [0 .. RING_SIZE - 1 -> Message]
    BY <1>1 DEF IInv, Types
  <1>12. RingAt(front', sring', backend, C, a, b, d, n + 1)
    <2>1. RingAt(front, sring, backend, B, a, b, d, n)
      BY <1>4 DEF B
    <2>2. Pushes(front, sring, backend, B, front', sring', C, request, a, b, d, n)
      BY <1>9, <1>10, <1>11, <2>1 DEF Pushes
    <2>. QED
      BY <2>2, RingPush
  <1>13. Answers(front'.rsp_cons, sring'.slot, a, IoData'.Status, call'.moved, Extent(call.done)')
    <2>. DEFINE r == front.rsp_cons
    <2>1. ASSUME NEW i \in 0 .. a - 1
          PROVE  sring'.slot[Slot(RingIdx(r, i))] = sring.slot[Slot(RingIdx(r, i))]
      <3>1. i \in 0 .. RING_SIZE - 1 /\ n \in 0 .. RING_SIZE - 1 /\ i # n /\ i \in 0 .. RING_SIZE
        BY <1>10, IdxFacts
      <3>2. front.req_prod_pvt = RingIdx(r, n)
        BY <1>4 DEF RingAt
      <3>3. Slot(RingIdx(r, i)) \in 0 .. RING_SIZE - 1
            /\ Slot(RingIdx(r, i)) # Slot(RingIdx(r, n))
        BY <1>11, <3>1, SlotIs
      <3>. QED
        BY <1>11, <3>2, <3>3
    <2>2. IoData' = IoData /\ call' = call /\ IoData.Status # "EFI_ALREADY_STARTED"
      BY <1>1, <1>2 DEF Started
    <2>3. \A i \in 0 .. a - 1 : sring.slot[Slot(RingIdx(r, i))].op # "BLKIF_OP_READ"
      BY <1>4, <2>2 DEF Answers
    <2>4. \A i \in 0 .. a - 1 : sring'.slot[Slot(RingIdx(r, i))].op # "BLKIF_OP_READ"
      BY <2>1, <2>3
    <2>. QED
      BY <1>11, <2>2, <2>4 DEF Answers
  <1>14. AtStep(d, n + 1)' /\ Reading(from, a, n + 1)'
    BY <1>1, <1>2, <1>10 DEF AtStep, Reading
  <1>15. Ring(from, a, b, d, n + 1)'
    BY <1>1, <1>5, <1>12, <1>13, <1>14, RingIs
  <1>16. n + 1 \in Nat
    OBVIOUS
  <1>. QED
    BY <1>15, <1>16 DEF Rings

\* RING_PUSH_REQUESTS_AND_CHECK_NOTIFY.
LEMMA PublishedRing ==
    ASSUME IInv, RingPushRequests
    PROVE  Rings'
  <1>1. /\ pc = "push" /\ pc' = "notify" /\ sring' = [sring EXCEPT !.req_prod = front.req_prod_pvt]
        /\ UNCHANGED <<IoData, SyncOps, ops, call, backend, grants, front>>
    BY DEF RingPushRequests
  <1>2. ~gaveUp /\ backend.ref # 0
    BY <1>1 DEF IInv, Handshake, Working
  <1>3. PICK from, a, b, d, n \in Nat : Ring(from, a, b, d, n)
    BY <1>2 DEF IInv, Rings
  <1>4. /\ RingAt(front, sring, backend, Batch(from), a, b, d, n)
        /\ Answers(front.rsp_cons, sring.slot, a, IoData.Status, call.moved, Extent(call.done))
        /\ Reading(from, a, n)
    BY <1>3, RingIs
  <1>5. sring'.rsp_prod = sring.rsp_prod /\ sring'.slot = sring.slot
        /\ sring'.req_prod = front.req_prod_pvt
    BY <1>1 DEF IInv, Types
  <1>6. BatchKept
    BY <1>1 DEF BatchKept
  <1>7. Batch(from)' = Batch(from) /\ Extent(call.done)' = Extent(call.done)
    BY <1>6, BatchKeeps
  <1>8. RingAt(front', sring', backend', Batch(from)', a, b, n, n)
    BY <1>1, <1>4, <1>5, <1>7, RingPublish
  <1>9. Answers(front'.rsp_cons, sring'.slot, a, IoData'.Status, call'.moved, Extent(call.done)')
    BY <1>1, <1>4, <1>5, <1>7
  <1>10. Reading(from, a, n)'
    BY <1>1, <1>4, <1>6, ReadingKept
  <1>11. AtStep(n, n)'
    BY <1>1 DEF AtStep
  <1>12. Ring(from, a, b, n, n)'
    BY <1>8, <1>9, <1>10, <1>11, RingIs
  <1>. QED
    BY <1>12 DEF Rings

\* XenPvBlockAsyncIoPoll().
LEMMA PollRing ==
    ASSUME IInv, XenPvBlockAsyncIoPoll, Types', Syncing'
    PROVE  Rings'
  <1>1. PICK from, a, b, d, n \in Nat : PollEffect(from, a, b, d, n)
    BY PollIs
  <1>2. /\ front' = [front EXCEPT !.rsp_cons = EventIdx(@ + 1)]
        /\ sring' = [sring EXCEPT !.slot[Slot(front.rsp_cons)] = Empty]
        /\ UNCHANGED <<pc, call, SyncOps, ops, backend>> /\ pc \in {"io", "Sync"}
    BY PollIs DEF XenPvBlockAsyncIoPoll
  <1>3. /\ RingAt(front, sring, backend, Batch(from), a, b, d, n) /\ a >= 1
        /\ Answers(front.rsp_cons, sring.slot, a, IoData.Status, call.moved, Extent(call.done))
        /\ AtStep(d, n) /\ Reading(from, a, n)
    BY <1>1, RingIs DEF PollEffect
  <1>. DEFINE B == Batch(from)
              r == front.rsp_cons
              s == EventIdx(r + 1)
  <1>4. /\ front'.rsp_cons = s /\ front'.req_prod_pvt = front.req_prod_pvt
        /\ sring'.rsp_prod = sring.rsp_prod /\ sring'.req_prod = sring.req_prod
        /\ sring'.slot = [sring.slot EXCEPT ![Slot(r)] = Empty]
        /\ r \in Indices /\ s \in Indices /\ sring.slot \in [0 .. RING_SIZE - 1 -> Message]
    BY <1>2, IdxFacts DEF IInv, Types
  <1>5. Len(B) \in Nat
    <2>1. Started => from < call.done
      BY <1>3 DEF Reading
    <2>2. BatchOf(B, from)
      BY <2>1, BatchIs
    <2>. HIDE DEF B
    <2>. QED
      BY <2>2 DEF BatchOf
  <1>6. {a, b, d, n} \subseteq 0 .. 2 /\ a <= b /\ b <= d /\ d <= n /\ n <= RING_SIZE
    BY <1>3 DEF RingAt
  <1>7. RingAt(front', sring', backend, B, a - 1, b - 1, d - 1, n - 1)
    <2>1. RingAt(front, sring, backend, B, a, b, d, n)
      BY <1>3
    <2>. HIDE DEF B
    <2>. QED
      BY <1>3, <1>4, <1>5, <1>6, <2>1, RingRead DEF s, r
  <1>8. CASE Started
    <2>1. n = 1 /\ a = 1 /\ b = 1 /\ d = 1
      BY <1>3, <1>6, <1>8 DEF Reading
    <2>2. RingAt(front', sring', backend, B, 0, 0, 0, 0)
      BY <1>7, <2>1
    <2>3. RingIdx(s, 0) = s
      <3>. HIDE DEF s
      <3>. QED
        BY <1>4, RingIdxIs
    <2>. HIDE DEF B, s
    <2>4. /\ sring'.rsp_prod = s /\ backend.req_cons = s /\ sring'.req_prod = s
          /\ front'.req_prod_pvt = s
      BY <1>4, <2>2, <2>3 DEF RingAt
    <2>5. backend.taken = {} /\ ~Started'
      BY <1>1, <1>8 DEF PollEffect, Started, Statuses
    <2>6. Idle' /\ pc' # "push"
      BY <1>2, <1>4, <2>4, <2>5 DEF Idle
    <2>. QED
      BY <2>6, IdleRing
  <1>9. CASE ~Started
    <2>1. UNCHANGED <<grants, IoData>>
      BY <1>1, <1>9 DEF PollEffect
    <2>2. BatchKept
      BY <1>2, <2>1 DEF BatchKept
    <2>3. Batch(from)' = B
      BY <2>2, BatchKeeps
    <2>. HIDE DEF B
    <2>4. \A i \in 0 .. a - 1 : sring.slot[Slot(RingIdx(r, i))].op # "BLKIF_OP_READ"
      BY <1>3, <1>9 DEF Answers, Started
    <2>5. ASSUME NEW i \in 0 .. (a - 1) - 1
          PROVE  sring'.slot[Slot(RingIdx(s, i))].op # "BLKIF_OP_READ"
      <3>1. i + 1 \in 0 .. a - 1 /\ i + 1 \in 0 .. RING_SIZE - 1 /\ i + 1 \in 0 .. RING_SIZE
            /\ i \in 0 .. RING_SIZE /\ 0 \in 0 .. RING_SIZE - 1 /\ i + 1 # 0
        BY <1>6, IdxFacts
      <3>2. RingIdx(s, i) = RingIdx(r, i + 1) /\ RingIdx(r, 0) = r
        <4>. HIDE DEF r
        <4>. QED
          BY <1>4, <3>1, RingIdxIs
      <3>. DEFINE j == i + 1
      <3>3. j \in 0 .. RING_SIZE - 1 /\ j \in 0 .. RING_SIZE /\ j # 0 /\ j \in 0 .. a - 1
        BY <3>1
      <3>. HIDE DEF j
      <3>4. Slot(RingIdx(r, j)) \in 0 .. RING_SIZE - 1 /\ Slot(RingIdx(r, j)) # Slot(RingIdx(r, 0))
        BY <1>4, <3>1, <3>3, SlotIs
      <3>5. sring'.slot[Slot(RingIdx(r, j))] = sring.slot[Slot(RingIdx(r, j))]
        BY <1>4, <3>2, <3>4
      <3>6. sring'.slot[Slot(RingIdx(r, j))].op # "BLKIF_OP_READ"
        BY <2>4, <3>3, <3>5
      <3>. QED
        BY <3>2, <3>6 DEF j
    <2>. HIDE DEF s
    <2>6. Answers(front'.rsp_cons, sring'.slot, a - 1, IoData'.Status, call'.moved,
                  Extent(call.done)')
      BY <1>4, <1>9, <2>1, <2>5 DEF Answers, Started
    <2>7. AtStep(d - 1, n - 1)' /\ Reading(from, a - 1, n - 1)'
      BY <1>2, <1>3, <1>6, <1>9, <2>1 DEF AtStep, Reading, Started
    <2>8. Ring(from, a - 1, b - 1, d - 1, n - 1)'
      BY <1>2, <1>7, <2>3, <2>6, <2>7, RingIs
    <2>9. {a - 1, b - 1, d - 1, n - 1} \subseteq Nat
      BY <1>3, <1>6
    <2>. QED
      BY <2>8, <2>9 DEF Rings
  <1>. QED
    BY <1>8, <1>9

\* BackendTake.
LEMMA TakeRing ==
    ASSUME IInv, BackendTake
    PROVE  Rings'
  <1>. DEFINE request == sring.slot[Slot(backend.req_cons)]
  <1>1. PICK from, a, b, d, n \in Nat : Ring(from, a, b, d, n) /\ b < d
    BY TakeIs
  <1>2. /\ UNCHANGED <<pc, front, call, SyncOps, ops, IoData>>
        /\ backend' = [backend EXCEPT !.req_cons = EventIdx(@ + 1), !.checking = FALSE,
                            !.taken = @ \cup {request}]
        /\ sring' = [sring EXCEPT !.slot[Slot(backend.req_cons)] = Empty]
        /\ grants' = MapRefs(grants, SeqSet(request.refs), TRUE)
    BY DEF BackendTake, driver
  <1>3. MappedAs(grants, grants', SeqSet(request.refs), TRUE)
    BY <1>2, MapRefsTo DEF IInv, Types
  <1>4. /\ RingAt(front, sring, backend, Batch(from), a, b, d, n)
        /\ Answers(front.rsp_cons, sring.slot, a, IoData.Status, call.moved, Extent(call.done))
        /\ AtStep(d, n) /\ Reading(from, a, n)
    BY <1>1, RingIs
  <1>. DEFINE B == Batch(from)
              r == front.rsp_cons
  <1>5. /\ sring'.rsp_prod = sring.rsp_prod /\ sring'.req_prod = sring.req_prod
        /\ sring'.slot = [sring.slot EXCEPT ![Slot(backend.req_cons)] = Empty]
        /\ backend'.req_cons = EventIdx(backend.req_cons + 1)
        /\ backend'.taken = backend.taken \cup {request}
        /\ r \in Indices /\ sring.slot \in [0 .. RING_SIZE - 1 -> Message]
    BY <1>2 DEF IInv, Types
  <1>6. BatchKept
    <2>. HIDE DEF request
    <2>. QED
      BY <1>2, <1>3 DEF BatchKept, MappedAs
  <1>7. Batch(from)' = B /\ Extent(call.done)' = Extent(call.done)
    BY <1>6, BatchKeeps
  <1>8. BatchOf(B, from)
    <2>1. Started => from < call.done
      BY <1>4 DEF Reading
    <2>. QED
      BY <2>1, BatchIs
  <1>9. RingAt(front, sring, backend, B, a, b, d, n)
    BY <1>4
  <1>. HIDE DEF B
  <1>10. Len(B) \in Nat /\ \A i, j \in 1 .. Len(B) : B[i] = B[j] => i = j
    BY <1>8 DEF BatchOf
  <1>11. {a, b, d, n} \subseteq 0 .. 2 /\ a <= b /\ b <= d /\ d <= n /\ n <= RING_SIZE
         /\ backend.req_cons = RingIdx(r, b)
    BY <1>9 DEF RingAt
  <1>12. RingAt(front, sring', backend', B, a, b + 1, d, n)
    BY <1>1, <1>5, <1>9, <1>10, <1>11, RingTake
  <1>13. \A i \in 0 .. a - 1 : sring'.slot[Slot(RingIdx(r, i))] = sring.slot[Slot(RingIdx(r, i))]
    <2>1. ASSUME NEW i \in 0 .. a - 1
          PROVE  sring'.slot[Slot(RingIdx(r, i))] = sring.slot[Slot(RingIdx(r, i))]
      <3>1. i \in 0 .. RING_SIZE - 1 /\ b \in 0 .. RING_SIZE - 1 /\ i # b /\ i \in 0 .. RING_SIZE
        BY <1>1, <1>11, IdxFacts
      <3>2. Slot(RingIdx(r, i)) \in 0 .. RING_SIZE - 1
            /\ Slot(RingIdx(r, i)) # Slot(RingIdx(r, b))
        BY <1>5, <3>1, SlotIs
      <3>. QED
        BY <1>5, <1>11, <3>2
    <2>. QED
      BY <2>1
  <1>14. Answers(front'.rsp_cons, sring'.slot, a, IoData'.Status, call'.moved,
                 Extent(call.done)')
    <2>1. front' = front /\ IoData' = IoData /\ call' = call
      BY <1>2
    <2>. QED
      BY <1>4, <1>7, <1>13, <2>1 DEF Answers
  <1>15. Reading(from, a, n)' /\ AtStep(d, n)'
    BY <1>2, <1>4, <1>6, ReadingKept DEF AtStep, Started
  <1>16. Ring(from, a, b + 1, d, n)'
    BY <1>2, <1>7, <1>12, <1>14, <1>15, RingIs
  <1>17. b + 1 \in Nat
    OBVIOUS
  <1>. QED
    BY <1>16, <1>17 DEF Rings

\* BackendRespond().
LEMMA RespondRing ==
    ASSUME IInv, Respond
    PROVE  Rings'
  <1>1. PICK request \in backend.taken, status \in Statuses : BackendRespond(request, status)
    BY DEF Respond, Statuses
  <1>2. PICK from, a, b, d, n \in Nat : RespondEffect(request, from, a, b, d, n)
    BY RespondIs
  <1>. DEFINE response == [op |-> request.op, status |-> status]
  <1>3. /\ UNCHANGED <<pc, SyncOps, ops, IoData, front>>
        /\ call' = IF status = "EFI_SUCCESS"
                   THEN [call EXCEPT !.moved = @ \cup Moves(request)] ELSE call
        /\ sring' = [sring EXCEPT !.slot[Slot(sring.rsp_prod)] = response,
                                  !.rsp_prod = EventIdx(@ + 1)]
        /\ backend' = [backend EXCEPT !.taken = @ \ {request}]
        /\ grants' = MapRefs(grants, SeqSet(request.refs), FALSE)
    BY <1>1 DEF BackendRespond
  <1>4. MappedAs(grants, grants', SeqSet(request.refs), FALSE)
    BY <1>3, MapRefsTo DEF IInv, Types
  <1>5. /\ Ring(from, a, b, d, n) /\ a < b
        /\ RingAt(front, sring, backend, Batch(from), a, b, d, n)
        /\ Answers(front.rsp_cons, sring.slot, a, IoData.Status, call.moved, Extent(call.done))
        /\ AtStep(d, n) /\ Reading(from, a, n)
    BY <1>2, RingIs DEF RespondEffect
  <1>. DEFINE B == Batch(from)
              r == front.rsp_cons
  <1>6. /\ sring'.rsp_prod = EventIdx(sring.rsp_prod + 1) /\ sring'.req_prod = sring.req_prod
        /\ sring'.slot = [sring.slot EXCEPT ![Slot(sring.rsp_prod)] = response]
        /\ backend'.req_cons = backend.req_cons
        /\ backend'.taken = backend.taken \ {request}
        /\ r \in Indices /\ sring.slot \in [0 .. RING_SIZE - 1 -> Message]
    BY <1>3 DEF IInv, Types
  <1>7. call'.Sector = call.Sector /\ call'.Buffer = call.Buffer /\ call'.done = call.done
        /\ call'.moved = IF status = "EFI_SUCCESS" THEN call.moved \cup Moves(request)
                                                   ELSE call.moved
    BY <1>3 DEF IInv, Types
  <1>8. BatchKept
    BY <1>3, <1>4, <1>7 DEF BatchKept, MappedAs
  <1>9. Batch(from)' = B /\ Extent(call.done)' = Extent(call.done)
    BY <1>8, BatchKeeps
  <1>10. BatchOf(B, from)
    <2>1. Started => from < call.done
      BY <1>5 DEF Reading
    <2>. QED
      BY <2>1, BatchIs
  <1>11. RingAt(front, sring, backend, B, a, b, d, n)
    BY <1>5
  <1>. HIDE DEF B, response
  <1>12. Len(B) \in Nat
    BY <1>10 DEF BatchOf
  <1>13. {a, b, d, n} \subseteq 0 .. 2
    BY <1>11 DEF RingAt
  <1>14. /\ RingAt(front, sring', backend', B, a + 1, b, d, n)
         /\ \A i \in 0 .. a - 1 : sring'.slot[Slot(RingIdx(r, i))]
                                    = sring.slot[Slot(RingIdx(r, i))]
         /\ sring'.slot[Slot(RingIdx(r, a))] = response
    <2>1. Responds(front, sring, backend, B, sring', backend', request, response, a, b, d, n)
      BY <1>1, <1>5, <1>6, <1>11, <1>12, <1>13 DEF Responds
    <2>. QED
      BY <2>1, RingRespond
  <1>15. response.op = request.op /\ response.status = status
    BY DEF response
  <1>16. front' = front /\ IoData' = IoData
    BY <1>3
  <1>17. Answers(front'.rsp_cons, sring'.slot, a + 1, IoData'.Status, call'.moved,
                 Extent(call.done)')
    <2>1. CASE ~Started
      <3>1. \A i \in 0 .. a - 1 : sring.slot[Slot(RingIdx(r, i))].op # "BLKIF_OP_READ"
        BY <1>5, <2>1 DEF Answers, Started
      <3>2. request.op # "BLKIF_OP_READ"
        BY <1>2, <2>1 DEF RespondEffect, FlushOps, Barrier, FlushCache
      <3>3. ASSUME NEW i \in 0 .. (a + 1) - 1
            PROVE  sring'.slot[Slot(RingIdx(r, i))].op # "BLKIF_OP_READ"
        <4>1. i \in 0 .. a - 1 \/ i = a
          BY <1>13
        <4>. QED
          BY <1>14, <1>15, <3>1, <3>2, <4>1
      <3>. QED
        BY <1>16, <2>1, <3>3 DEF Answers, Started
    <2>2. CASE Started
      <3>1. a = 0 /\ request.op = "BLKIF_OP_READ"
            /\ call.moved \cup Moves(request) = Extent(call.done)
        BY <1>2, <2>2 DEF RespondEffect
      <3>2. status = "EFI_SUCCESS" => call'.moved = Extent(call.done)'
        BY <1>7, <1>9, <3>1
      <3>3. ASSUME NEW i \in 0 .. (a + 1) - 1
            PROVE  sring'.slot[Slot(RingIdx(r, i))] = response
        <4>1. i = a
          BY <3>1
        <4>. QED
          BY <1>14, <4>1
      <3>. QED
        BY <1>15, <1>16, <2>2, <3>1, <3>2, <3>3 DEF Answers, Started
    <2>. QED
      BY <2>1, <2>2
  <1>18. Reading(from, a + 1, n)'
    <2>1. a + 1 # 0
      OBVIOUS
    <2>. QED
      BY <1>5, <1>8, <2>1, ReadingKept
  <1>19. AtStep(d, n)'
    BY <1>3, <1>5 DEF AtStep, Started
  <1>20. Ring(from, a + 1, b, d, n)'
    BY <1>9, <1>14, <1>16, <1>17, <1>18, <1>19, RingIs
  <1>21. a + 1 \in Nat
    OBVIOUS
  <1>. QED
    BY <1>20, <1>21 DEF Rings

LEMMA RingsStep == IInv /\ [Next]_vars => Rings'
  <1>. SUFFICES ASSUME IInv, [Next]_vars PROVE Rings'
    OBVIOUS
  <1>1. Types' /\ Syncing' /\ Handshake'
    BY TypesStep, SyncingStep, HandshakeStep
  <1>2. SUFFICES ASSUME ~gaveUp', backend'.ref # 0 PROVE Rings'
    BY DEF Rings
  <1>3. pc' \notin Unbound \cup Gone \cup {"transaction"}
    BY <1>1, <1>2 DEF Handshake
  <1>4. Handshake /\ Activity
    BY DEF IInv
  \* Steps that only move the driver on.
  <1>5. ASSUME RingKept, ~gaveUp, backend.ref # 0,
               pc' = pc \/ (pc = "notify" /\ pc' \in {"io", "Sync"} /\ (pc' = "io" => Started))
        PROVE  Rings'
    <2>1. PICK from, a, b, d, n \in Nat : Ring(from, a, b, d, n)
      BY <1>5 DEF IInv, Rings
    <2>2. AtStep(d, n)'
      BY <1>5, <2>1 DEF Ring, AtStep, Started, RingKept, BatchKept
    <2>3. Ring(from, a, b, d, n)'
      BY <1>5, <2>1, <2>2, RingKeeps
    <2>. QED
      BY <2>3 DEF Rings
  \* Steps with nothing in flight.
  <1>6. ASSUME UNCHANGED <<front, sring, backend>>, ~gaveUp, IoData' = NoIo, pc' # "push",
               \/ pc \notin {"io", "push", "notify", "Sync"}
               \/ pc = "io" /\ ~Started
               \/ pc = "Sync" /\ front.req_prod_pvt = front.rsp_cons
        PROVE  Rings'
    <2>1. backend.ref # 0
      BY <1>2, <1>6
    <2>. QED
      BY <1>1, <1>6, <2>1, QuietStep
  <1>7. CASE UNCHANGED vars
    <2>1. RingKept /\ ~gaveUp /\ backend.ref # 0 /\ pc' = pc
      BY <1>2, <1>7 DEF vars, driver, RingKept, BatchKept
    <2>. QED
      BY <1>5, <2>1
  <1>8. CASE XenBusStart \/ XenBusStop \/ XenPvBlockFrontInitialization \/ XenPvBlockFree
             \/ UnregisterWatch \/ AwaitInitWait
    <2>1. pc' \in Unbound \cup Gone \cup {"transaction"}
      BY <1>8 DEF XenBusStart, XenBusStop, XenPvBlockFrontInitialization, XenPvBlockFree,
                  UnregisterWatch, AwaitInitWait, Unbound, Gone
    <2>. QED
      BY <1>3, <2>1
  <1>9. CASE PublishRing \/ RegisterWatchBackend \/ AwaitConnected \/ XenPvBlockFrontShutdown
    <2>1. /\ UNCHANGED <<front, sring, backend, IoData>> /\ (gaveUp => gaveUp')
          /\ pc \notin {"io", "push", "notify", "Sync"} /\ pc' # "push"
      BY <1>9 DEF PublishRing, RegisterWatchBackend, AwaitConnected, XenPvBlockFrontShutdown,
                  XenPvBlkWaitForBackendState, SetState, GiveUp
    <2>2. IoData' = NoIo
      BY <1>4, <2>1 DEF Activity
    <2>. QED
      BY <1>2, <1>6, <2>1, <2>2
  <1>10. CASE InstallBlockIo \/ XenPvBlkDxeDriverBindingStop \/ XenPvBlkDxeBlockIoFlushBlocks
              \/ \E lba \in Lbas, buffer \in Buffers, blocks \in BlockCounts :
                    ReadWriteBlocks(lba, buffer, blocks)
    <2>1. /\ UNCHANGED <<front, sring, backend, IoData>> /\ (gaveUp => gaveUp')
          /\ pc \notin {"io", "push", "notify", "Sync"} /\ pc' # "push"
      BY <1>10 DEF InstallBlockIo, XenPvBlkDxeDriverBindingStop, XenPvBlkDxeBlockIoFlushBlocks,
                   ReadWriteBlocks, GiveUp
    <2>2. IoData' = NoIo
      BY <1>4, <2>1 DEF Activity
    <2>. QED
      BY <1>2, <1>6, <2>1, <2>2
  <1>11. CASE XenPvBlockAsyncIo
    BY <1>11, AsyncIoRing
  <1>12. CASE XenPvBlockPushOperation
    BY <1>12, PushOperationRing
  <1>13. CASE RingPushRequests
    BY <1>13, PublishedRing
  <1>14. CASE CheckNotify
    <2>1. /\ UNCHANGED <<grants, SyncOps, ops, call, IoData, front, sring, gaveUp>>
          /\ pc = "notify" /\ pc' = IF Flushing THEN "Sync" ELSE "io"
          /\ (backend' = [backend EXCEPT !.awake = TRUE] \/ backend' = backend)
      BY <1>14 DEF CheckNotify
    <2>2. backend'.ref = backend.ref /\ backend'.req_cons = backend.req_cons
          /\ backend'.taken = backend.taken
      BY <2>1 DEF IInv, Types
    <2>3. RingKept
      BY <2>1, <2>2 DEF RingKept, BatchKept
    <2>4. pc' \in {"io", "Sync"} /\ (pc' = "io" => Started)
      BY <2>1 DEF Flushing, Started
    <2>. QED
      BY <1>2, <1>5, <2>1, <2>2, <2>3, <2>4
  <1>15. CASE XenPvBlockAsyncIoPoll
    BY <1>1, <1>15, PollRing
  <1>16. CASE ReadWriteBlocksReturn
    <2>1. /\ UNCHANGED <<front, sring, backend, gaveUp>> /\ pc = "io" /\ ~Started
          /\ IoData' = NoIo /\ pc' = "idle"
      BY <1>16 DEF ReadWriteBlocksReturn, Started
    <2>. QED
      BY <1>2, <1>6, <2>1
  <1>17. CASE XenPvBlockSyncDone
    <2>1. /\ UNCHANGED <<front, sring, backend, gaveUp, IoData>> /\ pc = "Sync" /\ pc' = then
          /\ front.req_prod_pvt = front.rsp_cons
      BY <1>17 DEF XenPvBlockSyncDone
    <2>2. then \in {"idle", "setClosing"} /\ IoData = NoIo
      BY <1>4, <2>1 DEF IInv, Types, Activity
    <2>. QED
      BY <1>2, <1>6, <2>1, <2>2
  <1>18. CASE BackendConnect
    <2>1. /\ frontState = Connected /\ backend.state = InitWait
          /\ backend' = [NoBackend EXCEPT !.state = Connected, !.ref = RingRef]
          /\ UNCHANGED <<pc, IoData, front, sring, gaveUp>>
      BY <1>18 DEF BackendConnect, driver
    <2>2. Fresh /\ backend.ref = 0
      BY <1>4, <2>1 DEF Handshake, Activity
    <2>3. pc \notin {"io", "push", "notify", "Sync"}
      BY <1>4, <2>2 DEF Handshake, Working
    <2>4. ~Started
      BY <1>4, <2>3 DEF Activity, Started, NoIo
    <2>5. backend'.taken = {} /\ backend'.req_cons = 0
      BY <2>1 DEF NoBackend
    <2>6. Idle'
      BY <2>1, <2>2, <2>4, <2>5 DEF Idle, Started, Fresh
    <2>. QED
      BY <1>1, <2>1, <2>3, <2>6, IdleRing
  <1>19. CASE BackendUnplug \/ BackendSleep
    <2>1. /\ UNCHANGED <<pc, front, call, SyncOps, ops, IoData, grants, gaveUp>>
          /\ \/ sring' = sring
             \/ sring' = [sring EXCEPT !.req_event = EventIdx(backend.req_cons + 1)]
          /\ \/ backend' = [backend EXCEPT !.state = Closing]
             \/ backend' = [backend EXCEPT !.awake = FALSE, !.checking = FALSE]
             \/ backend' = [backend EXCEPT !.checking = TRUE]
      BY <1>19 DEF BackendUnplug, BackendSleep, driver
    <2>2. backend'.ref = backend.ref /\ backend'.req_cons = backend.req_cons
          /\ backend'.taken = backend.taken
      BY <2>1 DEF IInv, Types
    <2>3. sring'.rsp_prod = sring.rsp_prod /\ sring'.req_prod = sring.req_prod
          /\ sring'.slot = sring.slot
      BY <2>1 DEF IInv, Types
    <2>4. RingKept
      BY <2>1, <2>2, <2>3 DEF RingKept, BatchKept
    <2>. QED
      BY <1>2, <1>5, <2>1, <2>2, <2>4
  <1>20. CASE BackendFollow
    <2>1. UNCHANGED <<pc, front, call, SyncOps, ops, IoData, sring, gaveUp>>
      BY <1>20 DEF BackendFollow, driver
    <2>2. \/ backend' = [backend EXCEPT !.state = Closing] /\ UNCHANGED grants
          \/ backend' = [NoBackend EXCEPT !.state = Closed]
          \/ backend' = NoBackend
      BY <1>20 DEF BackendFollow
    <2>3. backend' = [backend EXCEPT !.state = Closing] /\ UNCHANGED grants
      BY <1>2, <2>2 DEF NoBackend
    <2>4. backend'.ref = backend.ref /\ backend'.req_cons = backend.req_cons
          /\ backend'.taken = backend.taken
      BY <2>3 DEF IInv, Types
    <2>5. RingKept
      BY <2>1, <2>3, <2>4 DEF RingKept, BatchKept
    <2>. QED
      BY <1>2, <1>5, <2>1, <2>4, <2>5
  <1>21. CASE BackendTake
    BY <1>21, TakeRing
  <1>22. CASE Respond
    BY <1>22, RespondRing
  <1>. QED
    BY <1>7, <1>8, <1>9, <1>10, <1>11, <1>12, <1>13, <1>14, <1>15, <1>16, <1>17, <1>18,
       <1>19, <1>20, <1>21, <1>22 DEF Next, Calls, Steps, BackendSteps

-----------------------------------------------------------------------------
(* The transfer.                                                           *)

\* Nothing of it changes.
TransferKept ==
    UNCHANGED <<IoData, call>> /\ (pc' = "io" => pc = "io" \/ Started)

LEMMA TransferStep == IInv /\ [Next]_vars => Transfer'
  <1>. SUFFICES ASSUME IInv, [Next]_vars PROVE Transfer'
    OBVIOUS
  <1>1. Transfer /\ Transferring
    BY ActivityIs DEF IInv
  <1>2. NoIo.Status = "none"
    BY DEF NoIo
  <1>3. ASSUME TransferKept PROVE Transfer'
    BY <1>1, <1>3 DEF TransferKept, Transfer, Started, Extent
  <1>4. CASE UNCHANGED vars
    BY <1>3, <1>4 DEF vars, driver, TransferKept
  <1>5. CASE pc' # "io"
    BY <1>5 DEF Transfer
  <1>6. CASE XenBusStart \/ XenBusStop \/ XenPvBlockFrontInitialization \/ PublishRing
             \/ RegisterWatchBackend \/ XenPvBlkDxeDriverBindingStop \/ UnregisterWatch
             \/ XenPvBlkDxeBlockIoFlushBlocks \/ XenPvBlockFree \/ XenPvBlockAsyncIo
             \/ XenPvBlockPushOperation \/ RingPushRequests \/ ReadWriteBlocksReturn
    BY <1>5, <1>6 DEF XenBusStart, XenBusStop, XenPvBlockFrontInitialization, PublishRing,
       RegisterWatchBackend, XenPvBlkDxeDriverBindingStop, UnregisterWatch,
       XenPvBlkDxeBlockIoFlushBlocks, XenPvBlockFree, XenPvBlockAsyncIo,
       XenPvBlockPushOperation, RingPushRequests, ReadWriteBlocksReturn
  <1>7. CASE AwaitConnected \/ InstallBlockIo \/ XenPvBlockFrontShutdown \/ AwaitInitWait
    <2>1. pc' # "io"
      BY <1>7 DEF AwaitConnected, InstallBlockIo, XenPvBlockFrontShutdown, AwaitInitWait,
                  XenPvBlkWaitForBackendState, SetState, GiveUp
    <2>. QED
      BY <1>5, <2>1
  <1>8. CASE \E lba \in Lbas, buffer \in Buffers, blocks \in BlockCounts :
                ReadWriteBlocks(lba, buffer, blocks)
    <2>1. IoData' = NoIo
      BY <1>1, <1>8 DEF ReadWriteBlocks, Transferring
    <2>. QED
      BY <1>2, <2>1 DEF Transfer
  <1>9. CASE CheckNotify
    BY <1>3, <1>9 DEF CheckNotify, TransferKept, Flushing, Started
  <1>10. CASE XenPvBlockSyncDone
    <2>1. then # "io" /\ pc' = then
      BY <1>10 DEF XenPvBlockSyncDone, IInv, Types
    <2>. QED
      BY <1>5, <2>1
  <1>11. CASE XenPvBlockAsyncIoPoll
    <2>1. PICK from, a, b, d, n \in Nat : PollEffect(from, a, b, d, n)
      BY <1>11, PollIs
    <2>2. UNCHANGED <<pc, call>>
      BY <1>11 DEF XenPvBlockAsyncIoPoll
    <2>3. CASE ~Started
      <3>1. UNCHANGED IoData
        BY <2>1, <2>3 DEF PollEffect
      <3>. QED
        BY <1>3, <2>2, <3>1 DEF TransferKept
    <2>4. CASE Started
      <3>1. IoData'.Status = "EFI_SUCCESS" => call.moved = Extent(call.done)
        BY <2>1, <2>4 DEF PollEffect
      <3>2. Extent(call.done)' = Extent(call.done)
        BY <2>2 DEF Extent
      <3>. QED
        BY <2>2, <3>1, <3>2 DEF Transfer
    <2>. QED
      BY <2>3, <2>4
  <1>12. CASE BackendConnect \/ BackendUnplug \/ BackendFollow \/ BackendTake \/ BackendSleep
    BY <1>3, <1>12 DEF BackendConnect, BackendUnplug, BackendFollow, BackendTake, BackendSleep,
                       driver, TransferKept
  <1>13. CASE Respond
    <2>1. PICK request \in backend.taken, status \in Statuses : BackendRespond(request, status)
      BY <1>13 DEF Respond, Statuses
    <2>2. PICK from, a, b, d, n \in Nat : RespondEffect(request, from, a, b, d, n)
      BY RespondIs
    <2>3. UNCHANGED <<pc, IoData>>
      BY <2>1 DEF BackendRespond
    <2>4. ~(pc = "io" /\ ~Started)
      BY <2>2 DEF RespondEffect, Ring
    <2>. QED
      BY <2>3, <2>4 DEF Transfer, Started
  <1>. QED
    BY <1>4, <1>6, <1>7, <1>8, <1>9, <1>10, <1>11, <1>12, <1>13
       DEF Next, Calls, Steps, BackendSteps

-----------------------------------------------------------------------------
(* The theorems.                                                           *)

\* The invariant is inductive: no step of the driver, the backend or the toolstack breaks it.
LEMMA NextInv == IInv /\ [Next]_vars => IInv'
  <1>. SUFFICES ASSUME IInv, [Next]_vars PROVE IInv'
    OBVIOUS
  <1>1. Types' /\ Handshake' /\ Accounted' /\ Rings' /\ Transfer'
    BY TypesStep, HandshakeStep, AccountedStep, RingsStep, TransferStep
  <1>2. Indexed' /\ Transferring' /\ Syncing'
    BY IndexedStep, TransferringStep, SyncingStep
  <1>3. Activity'
    BY <1>2 DEF Activity, Indexed, Transferring, Syncing
  <1>. QED
    BY <1>1, <1>3 DEF IInv

LEMMA Invariant == Spec => []IInv
  BY InitInv, NextInv, PTL DEF Spec

\* The variables have their types: in particular all indices of the ring stay UINT32s.
THEOREM TypeCorrect == Spec => []TypeOK
  <1>1. IInv => TypeOK
    <2>1. SUFFICES ASSUME Types, asserted \subseteq Alignment PROVE TypeOK
      BY DEF IInv, Accounted
    <2>2. /\ grants.list \in [0 .. NR_GRANT_ENTRIES - 1 -> 0 .. NR_GRANT_ENTRIES - 1]
          /\ RingRef \in Refs \cup {0} /\ backend.ref \in Refs \cup {0}
      BY <2>1 DEF Types, Grants, Entries
    <2>3. {front.req_prod_pvt, front.rsp_cons, sring.req_prod, sring.req_event, sring.rsp_prod,
           backend.req_cons} \subseteq Indices
      BY <2>1 DEF Types
    <2>4. frontState \in 1 .. 6 /\ backend.state \in 1 .. 6
      BY <2>1 DEF Types, Initialising, InitWait, Connected, Closing, Closed
    <2>5. {fired, gaveUp} \subseteq BOOLEAN
      BY <2>1, Zenon DEF Types
    <2>6. asserted \subseteq Alignment \cup {"NumSegments", "Ref"}
      BY <2>1
    <2>. QED
      BY <2>1, <2>2, <2>3, <2>4, <2>5, <2>6 DEF TypeOK, Types
  <1>. QED
    BY <1>1, Invariant, PTL

\* XenPvBlockFrontShutdown() and XenPvBlockAsyncIoPoll(): the ring and the pages of a transfer
\* belong to the driver for as long as the backend may use them.
THEOREM BackendInOwnedPagesTheorem == Spec => []BackendInOwnedPages
  <1>1. ASSUME IInv, NEW request \in backend.taken
        PROVE  /\ request.refs # <<>> => pc = "io" \/ pc = "notify"
               /\ \A k \in DOMAIN request.refs :
                     /\ grants.entry[request.refs[k]].frame = request.segments[k].page
                     /\ grants.entry[request.refs[k]].mapped
    <2>1. ~gaveUp /\ backend.ref # 0
      BY <1>1, RespondIs
    <2>2. PICK from, a, b, d, n \in Nat : RespondEffect(request, from, a, b, d, n)
      BY <1>1, RespondIs
    <2>3. CASE ~Started
      <3>1. request.refs = <<>> /\ DOMAIN <<>> = {}
        BY <2>2, <2>3 DEF RespondEffect
      <3>. QED
        BY <3>1
    <2>4. CASE Started
      <3>. DEFINE segments == Segments(call.Buffer + from, call.done - from)
      <3>1. /\ request = ReadRequest(from) /\ d = 1 /\ n = 1 /\ Ring(from, a, b, d, n)
        BY <2>2, <2>4 DEF RespondEffect
      <3>2. request.refs = IoData.refs /\ request.segments = segments
        BY <3>1 DEF ReadRequest
      <3>3. /\ Len(IoData.refs) = Len(segments)
            /\ \A k \in 1 .. Len(segments) :
                  grants.entry[IoData.refs[k]].frame = segments[k].page
            /\ pc # "push"
        BY <2>4, <3>1 DEF Ring
      <3>. HIDE DEF segments
      <3>4. pc \in {"io", "notify"}
        BY <1>1, <2>4, <3>3 DEF IInv, Activity, Started, NoIo
      <3>5. IoData.refs \in Seq(Refs) /\ DOMAIN IoData.refs = 1 .. Len(IoData.refs)
        BY <1>1 DEF IInv, Types
      <3>6. ASSUME NEW k \in 1 .. Len(IoData.refs)
            PROVE  grants.entry[IoData.refs[k]].mapped
        <4>1. Mapped(grants) = ({backend.ref} \ {0}) \cup Used
          BY <1>1, <2>1, AccountedIs DEF IInv
        <4>2. IoData.refs[k] \in SeqSet(request.refs)
          BY <3>2, <3>5 DEF SeqSet
        <4>3. IoData.refs[k] \in Mapped(grants)
          BY <1>1, <4>1, <4>2 DEF Used
        <4>. QED
          BY <4>3 DEF Mapped
      <3>. QED
        BY <3>2, <3>3, <3>4, <3>5, <3>6
    <2>. QED
      BY <2>3, <2>4
  <1>2. IInv => BackendInOwnedPages
    <2>1. SUFFICES ASSUME IInv PROVE BackendInOwnedPages
      OBVIOUS
    <2>2. backend.ref # 0 /\ ~gaveUp => "Ring" \in held /\ backend.ref = RingRef
      BY <2>1 DEF IInv, Handshake
    <2>. QED
      BY <1>1, <2>1, <2>2 DEF BackendInOwnedPages
  <1>. QED
    BY <1>2, Invariant, PTL

\* XenGrantTableGrantAccess() and ...EndAccess(): no reference is lost, none is handed out
\* twice, and the table is never exhausted.
THEOREM GrantsAccountedTheorem == Spec => []GrantsAccounted
  <1>1. IInv => GrantsAccounted
    <2>1. SUFFICES ASSUME IInv PROVE GrantsAccounted
      OBVIOUS
    <2>2. InUse = Permitted(grants)
      BY DEF InUse, Permitted
    <2>3. pc # "off" => FreeEntries(grants, Cardinality(Refs \ Permitted(grants)))
                           = Refs \ Permitted(grants)
      BY <2>1, ListedEntries DEF IInv, Types, Accounted
    <2>. QED
      BY <2>1, <2>2, <2>3 DEF GrantsAccounted, IInv, Accounted
  <1>. QED
    BY <1>1, Invariant, PTL

-----------------------------------------------------------------------------
(* The geometry of the disk, and transfers of whole sectors.               *)

InTransfer == pc = "io" \/ Started

\* Between its start and its return a transfer only advances, with each of its requests.
SameTransfer ==
    /\ InTransfer
    /\ UNCHANGED media
    /\ call'.Lba = call.Lba /\ call'.Sector = call.Sector
    /\ call'.Buffer = call.Buffer /\ call'.BufferSize = call.BufferSize
    /\ XenPvBlockAsyncIo \/ call'.done = call.done

Begin ==
    \E lba \in Lbas, buffer \in Buffers, blocks \in BlockCounts :
        ReadWriteBlocks(lba, buffer, blocks)

LEMMA TransferAdvances ==
    ASSUME IInv, [Next]_vars
    PROVE  /\ Begin \/ (InTransfer' => SameTransfer)
           /\ XenPvBlockAsyncIo \/ asserted' \subseteq asserted \cup {"Ref"}
  <1>. DEFINE Quiet == asserted' \subseteq asserted \cup {"Ref"}
  <1>0. NoIo.Status = "none" /\ (pc \notin {"io", "push", "notify"} => ~Started)
    BY DEF IInv, Activity, Started, NoIo
  <1>1. CASE UNCHANGED vars
    BY <1>1 DEF vars, driver, InTransfer, Started, SameTransfer
  <1>2. CASE XenBusStart \/ XenBusStop \/ XenPvBlockFrontInitialization \/ PublishRing
             \/ RegisterWatchBackend \/ UnregisterWatch \/ XenPvBlockFree
             \/ XenPvBlkDxeDriverBindingStop \/ XenPvBlkDxeBlockIoFlushBlocks
    <2>1. ~Started /\ pc' # "io" /\ UNCHANGED IoData
      BY <1>0, <1>2 DEF XenBusStart, XenBusStop, XenPvBlockFrontInitialization, PublishRing,
         RegisterWatchBackend, UnregisterWatch, XenPvBlockFree, XenPvBlkDxeDriverBindingStop,
         XenPvBlkDxeBlockIoFlushBlocks
    <2>2. Quiet
      BY <1>2 DEF XenBusStart, XenBusStop, XenPvBlockFrontInitialization, PublishRing,
         RegisterWatchBackend, UnregisterWatch, XenPvBlockFree, XenPvBlkDxeDriverBindingStop,
         XenPvBlkDxeBlockIoFlushBlocks
    <2>. QED
      BY <2>1, <2>2 DEF InTransfer, Started
  <1>3. CASE AwaitConnected \/ InstallBlockIo \/ XenPvBlockFrontShutdown \/ AwaitInitWait
    <2>1. /\ pc' # "io" /\ UNCHANGED <<IoData, asserted>>
          /\ pc \notin {"io", "push", "notify"}
      BY <1>3 DEF AwaitConnected, InstallBlockIo, XenPvBlockFrontShutdown, AwaitInitWait,
         XenPvBlkWaitForBackendState, SetState, GiveUp
    <2>. QED
      BY <1>0, <2>1 DEF InTransfer, Started
  <1>4. CASE Begin
    BY <1>4 DEF Begin, ReadWriteBlocks
  <1>5. CASE XenPvBlockAsyncIo
    <2>1. PICK size, segments, refs : AsyncIoEffect(size, segments, refs)
      BY <1>5, AsyncIoIs
    <2>2. call' = [call EXCEPT !.done = @ + size] /\ UNCHANGED media /\ pc = "io"
      BY <1>5, <2>1 DEF AsyncIoEffect, XenPvBlockAsyncIo
    <2>3. /\ call'.Lba = call.Lba /\ call'.Sector = call.Sector
          /\ call'.Buffer = call.Buffer /\ call'.BufferSize = call.BufferSize
      BY <2>2 DEF IInv, Types
    <2>. QED
      BY <1>5, <2>2, <2>3 DEF SameTransfer, InTransfer
  <1>6. CASE XenPvBlockPushOperation \/ RingPushRequests
    <2>1. /\ UNCHANGED <<IoData, call, media, asserted>>
          /\ pc' = IF pc = "push" THEN "notify" ELSE "push"
      BY <1>6 DEF XenPvBlockPushOperation, RingPushRequests
    <2>. QED
      BY <2>1 DEF SameTransfer, InTransfer, Started
  <1>7. CASE CheckNotify
    BY <1>7 DEF CheckNotify, Flushing, SameTransfer, InTransfer, Started
  <1>8. CASE XenPvBlockAsyncIoPoll
    <2>1. PICK from, a, b, d, n \in Nat : PollEffect(from, a, b, d, n)
      BY <1>8, PollIs
    <2>2. UNCHANGED <<pc, call, media, asserted>>
      BY <1>8 DEF XenPvBlockAsyncIoPoll
    <2>3. InTransfer' => InTransfer
      BY <2>1, <2>2 DEF InTransfer, Started, PollEffect
    <2>. QED
      BY <2>2, <2>3 DEF SameTransfer
  <1>9. CASE ReadWriteBlocksReturn
    BY <1>0, <1>9 DEF ReadWriteBlocksReturn, InTransfer, Started
  <1>10. CASE XenPvBlockSyncDone
    <2>1. pc = "Sync" /\ pc' = then /\ then \in {"idle", "setClosing"}
          /\ UNCHANGED <<IoData, asserted>>
      BY <1>10 DEF XenPvBlockSyncDone, IInv, Types
    <2>. QED
      BY <1>0, <2>1 DEF InTransfer, Started
  <1>11. CASE BackendConnect \/ BackendUnplug \/ BackendFollow \/ BackendTake \/ BackendSleep
    <2>1. UNCHANGED <<pc, IoData, call, media, asserted>>
      BY <1>11 DEF BackendConnect, BackendUnplug, BackendFollow, BackendTake, BackendSleep, driver
    <2>. QED
      BY <2>1 DEF SameTransfer, InTransfer, Started
  <1>12. CASE Respond
    <2>1. PICK request \in backend.taken, status \in {"EFI_SUCCESS", "EFI_DEVICE_ERROR"} :
             BackendRespond(request, status)
      BY <1>12 DEF Respond
    <2>2. UNCHANGED <<pc, IoData, media, asserted>>
      BY <2>1 DEF BackendRespond
    <2>3. call' = call \/ call' = [call EXCEPT !.moved = @ \cup Moves(request)]
      BY <2>1 DEF BackendRespond
    <2>4. /\ call'.Lba = call.Lba /\ call'.Sector = call.Sector /\ call'.Buffer = call.Buffer
          /\ call'.BufferSize = call.BufferSize /\ call'.done = call.done
      BY <2>3 DEF IInv, Types
    <2>. QED
      BY <2>2, <2>4 DEF SameTransfer, InTransfer, Started
  <1>. QED
    BY <1>1, <1>2, <1>3, <1>4, <1>5, <1>6, <1>7, <1>8, <1>9, <1>10, <1>11, <1>12
       DEF Next, Calls, Steps, BackendSteps, Begin

\* The media are those of no disk or of one that the driver found.
LEMMA MediaChanges ==
    ASSUME IInv, [Next]_vars
    PROVE  \/ media' = media \/ media' = NoMedia
           \/ \E size \in SectorSizes, type \in DeviceTypes :
                 (type = "cdrom" => CdRomBlockSize % size = 0) /\ media' = Media(size, type)
  <1>1. CASE InstallBlockIo
    BY <1>1 DEF InstallBlockIo
  <1>2. CASE XenPvBlockFree
    BY <1>2 DEF XenPvBlockFree
  <1>3. CASE UNCHANGED vars \/ XenBusStart \/ XenBusStop \/ XenPvBlockFrontInitialization
             \/ PublishRing \/ RegisterWatchBackend \/ UnregisterWatch \/ Begin
             \/ XenPvBlkDxeDriverBindingStop \/ XenPvBlkDxeBlockIoFlushBlocks
    BY <1>3 DEF vars, driver, XenBusStart, XenBusStop, XenPvBlockFrontInitialization, PublishRing,
       RegisterWatchBackend, UnregisterWatch, Begin, ReadWriteBlocks,
       XenPvBlkDxeDriverBindingStop, XenPvBlkDxeBlockIoFlushBlocks
  <1>4. CASE AwaitConnected \/ XenPvBlockFrontShutdown \/ AwaitInitWait
    BY <1>4 DEF AwaitConnected, XenPvBlockFrontShutdown, AwaitInitWait,
       XenPvBlkWaitForBackendState, SetState
  <1>5. CASE XenPvBlockAsyncIo \/ XenPvBlockPushOperation \/ RingPushRequests \/ CheckNotify
             \/ XenPvBlockAsyncIoPoll \/ ReadWriteBlocksReturn \/ XenPvBlockSyncDone
    BY <1>5 DEF XenPvBlockAsyncIo, XenPvBlockPushOperation, RingPushRequests, CheckNotify,
       XenPvBlockAsyncIoPoll, ReadWriteBlocksReturn, XenPvBlockSyncDone
  <1>6. CASE BackendConnect \/ BackendUnplug \/ BackendFollow \/ BackendTake \/ BackendSleep
             \/ Respond
    BY <1>6 DEF BackendConnect, BackendUnplug, BackendFollow, BackendTake, BackendSleep, Respond,
       BackendRespond, driver
  <1>. QED
    BY <1>1, <1>2, <1>3, <1>4, <1>5, <1>6 DEF Next, Calls, Steps, BackendSteps, Begin

\* The blocks lie on the disk, and a transfer lies in its blocks.
Geometry ==
    /\ media.SectorSize \in SectorSizes \cup {1}
    /\ media.BlockSize % media.SectorSize = 0
    /\ (media.LastBlock + 1) * media.BlockSize <= Sectors * media.SectorSize
    /\ InTransfer =>
          /\ call.Sector = call.Lba * media.BlockSize
          /\ call.Sector + call.BufferSize <= Sectors * media.SectorSize
          /\ call.Sector % media.SectorSize = 0 /\ call.BufferSize % media.SectorSize = 0

\* What is a multiple of the sector size stays one.
LEMMA Multiples ==
    ASSUME NEW n \in Nat, n > 0
    PROVE  /\ 0 % n = 0
           /\ \A k \in Nat, a \in Nat : a % n = 0 => (k * a) % n = 0
           /\ \A a, b \in Nat : a % n = 0 /\ b % n = 0 =>
                 (a + b) % n = 0 /\ (b <= a => (a - b) % n = 0)
  <1>1. ASSUME NEW q \in Nat PROVE (q * n) % n = 0
    BY <1>1, Z3
  <1>2. ASSUME NEW a \in Nat, a % n = 0 PROVE \E q \in Nat : a = q * n
    BY <1>2, Z3
  <1>3. 0 % n = 0
    BY <1>1, Z3
  <1>4. ASSUME NEW k \in Nat, NEW a \in Nat, a % n = 0 PROVE (k * a) % n = 0
    <2>1. PICK q \in Nat : a = q * n
      BY <1>2, <1>4
    <2>2. k * q \in Nat /\ k * a = (k * q) * n
      BY <2>1, Z3
    <2>. QED
      BY <1>1, <2>2
  <1>5. ASSUME NEW a \in Nat, NEW b \in Nat, a % n = 0, b % n = 0
        PROVE  (a + b) % n = 0 /\ (b <= a => (a - b) % n = 0)
    <2>1. PICK p \in Nat : a = p * n
      BY <1>2, <1>5
    <2>2. PICK q \in Nat : b = q * n
      BY <1>2, <1>5
    <2>3. p + q \in Nat /\ a + b = (p + q) * n
      BY <2>1, <2>2, Z3
    <2>4. ASSUME b <= a PROVE p - q \in Nat /\ a - b = (p - q) * n
      BY <2>1, <2>2, <2>4, Z3
    <2>. QED
      BY <1>1, <2>3, <2>4
  <1>. QED
    BY <1>3, <1>4, <1>5

LEMMA GeometryInit == Init => Geometry
  <1>1. 1 % 1 = 0 /\ Sectors \in Nat /\ Sectors >= 1
    BY XenPvBlkAssumption
  <1>. QED
    BY <1>1 DEF Init, Geometry, NoMedia, NoIo, InTransfer, Started

LEMMA GeometryStep == IInv /\ Geometry /\ [Next]_vars => Geometry'
  <1>. SUFFICES ASSUME IInv, Geometry, [Next]_vars PROVE Geometry'
    OBVIOUS
  <1>. DEFINE Disk == /\ media.SectorSize \in SectorSizes \cup {1}
                      /\ media.BlockSize % media.SectorSize = 0
                      /\ (media.LastBlock + 1) * media.BlockSize <= Sectors * media.SectorSize
              Within == /\ call.Sector = call.Lba * media.BlockSize
                        /\ call.Sector + call.BufferSize <= Sectors * media.SectorSize
                        /\ call.Sector % media.SectorSize = 0
                        /\ call.BufferSize % media.SectorSize = 0
  <1>1. Disk'
    <2>1. CASE media' = media
      BY <2>1 DEF Geometry
    <2>2. CASE media' = NoMedia
      <3>1. 1 % 1 = 0 /\ Sectors \in Nat /\ Sectors >= 1
        BY XenPvBlkAssumption
      <3>. QED
        BY <2>2, <3>1 DEF NoMedia
    <2>3. CASE \E size \in SectorSizes, type \in DeviceTypes :
                  (type = "cdrom" => CdRomBlockSize % size = 0) /\ media' = Media(size, type)
      BY <2>3, MediaIs
    <2>. QED
      BY <2>1, <2>2, <2>3, MediaChanges
  <1>2. ASSUME InTransfer' PROVE Within'
    <2>1. CASE Begin
      <3>1. PICK lba \in Lbas, buffer \in Buffers, blocks \in BlockCounts :
               ReadWriteBlocks(lba, buffer, blocks)
        BY <2>1 DEF Begin
      <3>. DEFINE B == media.BlockSize
                  L == media.LastBlock
      <3>2. /\ ~(lba > L \/ blocks - 1 > L - lba) /\ UNCHANGED media
            /\ call'.Lba = lba /\ call'.Sector = lba * B /\ call'.BufferSize = blocks * B
        BY <3>1 DEF ReadWriteBlocks
      <3>3. /\ lba \in Nat /\ blocks \in Nat /\ B \in Nat /\ B > 0 /\ L \in Nat
            /\ media.SectorSize \in Nat /\ media.SectorSize > 0 /\ Sectors \in Nat
        BY XenPvBlkAssumption DEF IInv, Types, Geometries
      <3>4. (L + 1) * B <= Sectors * media.SectorSize /\ B % media.SectorSize = 0
        BY DEF Geometry
      <3>. HIDE DEF B, L
      <3>5. lba + blocks <= L + 1
        BY <3>2, <3>3
      <3>6. lba * B + blocks * B <= (L + 1) * B
        <4>1. (lba + blocks) * B <= (L + 1) * B
          BY <3>3, <3>5, Z3
        <4>. QED
          BY <3>3, <4>1, Z3
      <3>7. lba * B + blocks * B <= Sectors * media.SectorSize
        <4>1. /\ lba * B \in Int /\ blocks * B \in Int /\ (L + 1) * B \in Int
              /\ Sectors * media.SectorSize \in Int
          BY <3>3
        <4>. QED
          BY <3>4, <3>6, <4>1
      <3>8. (lba * B) % media.SectorSize = 0 /\ (blocks * B) % media.SectorSize = 0
        BY <3>3, <3>4, Multiples
      <3>. QED
        BY <3>2, <3>7, <3>8 DEF B
    <2>2. CASE SameTransfer
      BY <2>2 DEF SameTransfer, Geometry
    <2>. QED
      BY <1>2, <2>1, <2>2, TransferAdvances
  <1>. QED
    BY <1>1, <1>2 DEF Geometry

LEMMA GeometryInvariant == Spec => []Geometry
  <1>. QED
    BY Invariant, GeometryInit, GeometryStep, PTL DEF Spec

\* XenPvBlkDxeBlockIoReadWriteBlocks() and XenPvBlockIo(): a transfer that succeeds has moved each
\* of its blocks between its place on the disk and the buffer, and nothing else, for every
\* sector size and type of the disk, and no sector is beyond the end of the disk.
THEOREM TransferCompleteTheorem == Spec => []TransferComplete
  <1>1. ASSUME IInv, Geometry PROVE TransferComplete
    <2>1. SUFFICES ASSUME pc = "io", IoData.Status = "EFI_SUCCESS"
                   PROVE  /\ call.moved = {<<call.Lba * media.BlockSize + i, call.Buffer + i>> :
                                             i \in 0 .. call.done - 1}
                          /\ \A move \in call.moved : move[1] < Sectors * media.SectorSize
      BY DEF TransferComplete
    <2>2. call.moved = Extent(call.done)
      BY <1>1, <2>1 DEF IInv, Transfer
    <2>3. /\ call.Sector = call.Lba * media.BlockSize
          /\ call.Sector + call.BufferSize <= Sectors * media.SectorSize
      BY <1>1, <2>1 DEF Geometry, InTransfer
    <2>4. /\ call.done <= call.BufferSize /\ call.done \in Nat /\ call.BufferSize \in Nat
          /\ call.Sector \in Nat /\ call.Buffer \in Nat
      BY <1>1, <2>1 DEF IInv, Activity, Types
    <2>5. Sectors * media.SectorSize \in Int
      BY <1>1, XenPvBlkAssumption DEF IInv, Types, Geometries
    <2>6. ASSUME NEW move \in call.moved PROVE move[1] < Sectors * media.SectorSize
      <3>1. PICK i \in 0 .. call.done - 1 : move = <<call.Sector + i, call.Buffer + i>>
        BY <2>2 DEF Extent
      <3>2. move[1] = call.Sector + i
        BY <3>1
      <3>. QED
        BY <2>3, <2>4, <2>5, <3>1, <3>2
    <2>. QED
      BY <2>2, <2>3, <2>6 DEF Extent
  <1>. QED
    BY <1>1, Invariant, GeometryInvariant, PTL

\* A page holds whole sectors of every disk.
PagesInSectors == \A size \in SectorSizes : PageSectors % size = 0

\* The requests of a transfer end where a sector ends.
InSectors ==
    /\ RequestsInSectors
    /\ InTransfer => call.done % media.SectorSize = 0

LEMMA InSectorsInvariant == ASSUME PagesInSectors PROVE Spec => []InSectors
  <1>1. Init => InSectors
    <2>1. 0 % 1 = 0
      OBVIOUS
    <2>. QED
      BY DEF Init, InSectors, RequestsInSectors, InTransfer, Started, NoIo
  <1>2. ASSUME IInv, Geometry, InSectors, [Next]_vars PROVE InSectors'
    <2>. DEFINE S == media.SectorSize
    <2>1. S \in Nat /\ S > 0 /\ PageSectors % S = 0 /\ PageSectors \in Nat
      <3>1. PageSectors % 1 = 0 /\ PageSectors \in Nat
        BY XenPvBlkAssumption
      <3>. QED
        BY <1>2, <3>1 DEF IInv, Types, Geometries, Geometry, PagesInSectors
    <2>. HIDE DEF S
    <2>2. CASE XenPvBlockAsyncIo
      <3>. DEFINE sector   == call.Sector + call.done
                  address  == call.Buffer + call.done
                  rest     == call.BufferSize - call.done
                  size     == IoSize(address, rest)
                  segments == Segments(address, size)
                  after    == GrantAll(segments)
                  refs     == [k \in DOMAIN segments |-> NextFree(after[k - 1])]
      <3>1. /\ pc = "io" /\ call.done < call.BufferSize
            /\ asserted' = asserted \cup AssertsFailed(sector, size, address, segments, refs)
            /\ call' = [call EXCEPT !.done = @ + size] /\ UNCHANGED media
        BY <2>2 DEF XenPvBlockAsyncIo
      <3>2. /\ call.Sector \in Nat /\ call.done \in Nat /\ call.BufferSize \in Nat
            /\ call.Buffer \in Nat /\ rest \in Nat /\ rest > 0 /\ address \in Nat
            /\ call'.done = call.done + size
        BY <1>2, <3>1 DEF IInv, Types
      <3>3. call.Sector % S = 0 /\ call.done % S = 0 /\ call.BufferSize % S = 0
        BY <1>2, <3>1 DEF Geometry, InSectors, InTransfer, S
      <3>4. sector % S = 0 /\ rest % S = 0
        <4>1. call.done <= call.BufferSize
          BY <3>1, <3>2
        <4>. QED
          BY <2>1, <3>2, <3>3, <4>1, Multiples, Zenon
      <3>5. size % S = 0 /\ size \in Nat
        <4>. DEFINE M == BLKIF_MAX_SEGMENTS_PER_REQUEST
        <4>1. M \in Nat /\ M - 1 \in Nat
          BY XenPvBlkAssumption
        <4>2. (M * PageSectors) % S = 0 /\ ((M - 1) * PageSectors) % S = 0
          BY <2>1, <4>1, Multiples
        <4>3. size \in {M * PageSectors, (M - 1) * PageSectors, rest}
          BY DEF IoSize, Least
        <4>4. size \in Nat
          BY <2>1, <3>2, <4>1, <4>3
        <4>. HIDE DEF size, rest, M
        <4>. QED
          BY <3>4, <4>2, <4>3, <4>4
      <3>. HIDE DEF sector, address, rest, size, segments, refs
      <3>6. {"Sector", "Size"} \cap AssertsFailed(sector, size, address, segments, refs) = {}
        BY <3>4, <3>5 DEF AssertsFailed, S
      <3>7. RequestsInSectors'
        BY <1>2, <3>1, <3>6 DEF InSectors, RequestsInSectors
      <3>8. call'.done % S = 0
        <4>1. (call.done + size) % S = 0
          BY <2>1, <3>2, <3>3, <3>5, Multiples, Zenon
        <4>. QED
          BY <3>2, <4>1
      <3>. QED
        BY <3>1, <3>7, <3>8 DEF InSectors, S
    <2>3. CASE ~XenPvBlockAsyncIo
      <3>1. RequestsInSectors'
        <4>1. asserted' \subseteq asserted \cup {"Ref"}
          BY <1>2, <2>3, TransferAdvances
        <4>. QED
          BY <1>2, <4>1 DEF InSectors, RequestsInSectors
      <3>2. CASE Begin
        <4>1. call'.done = 0 /\ UNCHANGED media
          BY <3>2 DEF Begin, ReadWriteBlocks
        <4>2. 0 % S = 0
          BY <2>1, Multiples
        <4>. QED
          BY <3>1, <4>1, <4>2 DEF InSectors, S
      <3>3. CASE InTransfer' => SameTransfer
        BY <1>2, <2>3, <3>1, <3>3 DEF InSectors, SameTransfer
      <3>. QED
        BY <1>2, <3>2, <3>3, TransferAdvances
    <2>. QED
      BY <2>2, <2>3
  <1>. QED
    BY <1>1, <1>2, Invariant, GeometryInvariant, PTL DEF Spec

\* XenPvBlockAsyncIo(): the first two ASSERT()s hold, for every disk whose sectors divide a page.
THEOREM RequestsInSectorsTheorem == ASSUME PagesInSectors PROVE Spec => []RequestsInSectors
  <1>1. InSectors => RequestsInSectors
    BY DEF InSectors
  <1>. QED
    BY <1>1, InSectorsInvariant, PTL

\* The callers' buffers are aligned to the sectors of every disk, which Media->IoAlign does not
\* ask of them.
BuffersInSectors == \A size \in SectorSizes, buffer \in Buffers : buffer % size = 0

FromSectors == BuffersAligned /\ (InTransfer => call.Buffer % media.SectorSize = 0)

\* XenPvBlockAsyncIo(): the third ASSERT() holds too if the callers' buffers are aligned to the
\* sectors: all requests of a transfer, not just its first, begin at an aligned address.
THEOREM BuffersAlignedTheorem ==
    ASSUME PagesInSectors, BuffersInSectors PROVE Spec => []BuffersAligned
  <1>1. Init => FromSectors
    BY DEF Init, FromSectors, BuffersAligned, InTransfer, Started, NoIo
  <1>2. ASSUME IInv, Geometry, InSectors, FromSectors, [Next]_vars PROVE FromSectors'
    <2>. DEFINE S == media.SectorSize
    <2>1. S \in Nat /\ S > 0 /\ \A buffer \in Buffers : buffer \in Nat /\ buffer % S = 0
      <3>1. \A buffer \in Buffers : buffer \in Nat /\ buffer % 1 = 0
        BY XenPvBlkAssumption
      <3>. QED
        BY <1>2, <3>1 DEF IInv, Types, Geometries, Geometry, BuffersInSectors
    <2>. HIDE DEF S
    <2>2. BuffersAligned'
      <3>1. CASE XenPvBlockAsyncIo
        <4>. DEFINE sector   == call.Sector + call.done
                    address  == call.Buffer + call.done
                    size     == IoSize(address, call.BufferSize - call.done)
                    segments == Segments(address, size)
                    after    == GrantAll(segments)
                    refs     == [k \in DOMAIN segments |-> NextFree(after[k - 1])]
        <4>1. /\ pc = "io" /\ call.Buffer \in Nat /\ call.done \in Nat
              /\ asserted' = asserted \cup AssertsFailed(sector, size, address, segments, refs)
          BY <1>2, <3>1 DEF XenPvBlockAsyncIo, IInv, Types
        <4>2. call.Buffer % S = 0 /\ call.done % S = 0
          BY <1>2, <4>1 DEF InSectors, FromSectors, InTransfer, S
        <4>3. address % S = 0
          BY <2>1, <4>1, <4>2, Multiples, Zenon
        <4>. HIDE DEF sector, address, size, segments, refs
        <4>4. "Buffer" \notin AssertsFailed(sector, size, address, segments, refs)
          BY <4>3 DEF AssertsFailed, S
        <4>. QED
          BY <1>2, <4>1, <4>4 DEF FromSectors, BuffersAligned
      <3>2. CASE ~XenPvBlockAsyncIo
        <4>1. asserted' \subseteq asserted \cup {"Ref"}
          BY <1>2, <3>2, TransferAdvances
        <4>. QED
          BY <1>2, <4>1 DEF FromSectors, BuffersAligned
      <3>. QED
        BY <3>1, <3>2
    <2>3. InTransfer' => (call.Buffer % media.SectorSize = 0)'
      <3>1. CASE Begin
        <4>1. call'.Buffer \in Buffers /\ UNCHANGED media
          BY <3>1 DEF Begin, ReadWriteBlocks
        <4>. QED
          BY <2>1, <4>1 DEF S
      <3>2. CASE InTransfer' => SameTransfer
        BY <1>2, <3>2 DEF FromSectors, SameTransfer
      <3>. QED
        BY <1>2, <3>1, <3>2, TransferAdvances
    <2>. QED
      BY <2>2, <2>3 DEF FromSectors
  <1>3. FromSectors => BuffersAligned
    BY DEF FromSectors
  <1>. QED
    BY <1>1, <1>2, <1>3, Invariant, GeometryInvariant, InSectorsInvariant, PTL DEF Spec

=============================================================================
