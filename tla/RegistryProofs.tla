--------------------------- MODULE RegistryProofs ---------------------------
(***************************************************************************)
(* Proofs about module SessionRegistry, for any clients, terminals,         *)
(* sessions, names and panes.                                               *)
(*                                                                         *)
(* Ownership rests on identifiers that are used once, and on the conditions *)
(* that a commit checks again after its child was spawned.  The order of    *)
(* the views also needs to know where a terminal's last view can come from: *)
(* its session, or one that has left the registry for good.  Names are kept *)
(* apart by their reservations, except for one that is released twice.      *)
(***************************************************************************)
EXTENDS SessionRegistry, FiniteSetTheorems, WellFoundedInduction, TLAPS

(***************************************************************************)
(* The inductive invariant.                                                 *)
(***************************************************************************)
\* TypeOK, apart from published.
Types ==
    /\ terminals \subseteq Terminal
    /\ owner \in [Terminal -> Session \cup {None}]
    /\ life \in [Terminal -> {"none", "running", "ended"}]
    /\ used \subseteq Session /\ closing \subseteq Session
    /\ layout \in [Session -> Seq(Terminal)]
    /\ name \in [Session -> Name \cup {None}]
    /\ zoom \in [Session -> Terminal \cup {None}]
    /\ revision \in [Session -> Nat]
    /\ pending \subseteq Name
    /\ nextAutomatic \in 1..(MaxName + 1)
    /\ job \in [Client -> [op : Op, name : Name \cup {None}, target : Terminal \cup {None}]]

\* Ownership, as a statement about sets of panes and about every session.
Placement ==
    /\ \A t \in terminals : owner[t] \in Session /\ t \in PanesOf(owner[t])
    /\ \A s \in Session : \A t \in PanesOf(s) : t \in terminals /\ owner[t] = s
    /\ \A s \in Session : IsInjective(layout[s])
    /\ \A s \in Session : zoom[s] # None => zoom[s] \in PanesOf(s)
    /\ \A t \in terminals \cap Managed : PanesOf(owner[t]) = {t}

\* A session with panes was created once and has a name; a session that is
\* terminating still has panes.
Sessions ==
    /\ \A s \in Session : PanesOf(s) # {} => s \in used /\ name[s] \in Name
    /\ \A s \in closing : PanesOf(s) # {}

\* A terminal in the registry has run, so its identifier is not used again;
\* one that is not has no receivers.
Absent ==
    /\ \A t \in terminals : life[t] # "none"
    /\ \A t \in Terminal \ terminals : published[t] = None

\* A request that has reserved a name has it.
Reserved ==
    \A c \in Client : job[c].op \in {"creating", "splitting", "moving"} => job[c].name \in Name

\* The last view of a terminal is one of its session, or of one that is gone.
Origin ==
    \A t \in terminals : published[t] # None =>
        /\ published[t].session \in used
        /\ published[t].session = owner[t] \/ PanesOf(published[t].session) = {}

RegistryInv == Types /\ TypeOK /\ Placement /\ Sessions /\ Absent /\ Reserved /\ Origin /\ ViewsOrdered

(***************************************************************************)
(* Layouts.                                                                 *)
(***************************************************************************)
\* The terminals of a layout.
LEMMA Members ==
    ASSUME NEW S, NEW s \in Seq(S)
    PROVE  /\ Len(s) \in Nat /\ DOMAIN s = 1..Len(s)
           /\ \A i \in 1..Len(s) : s[i] \in S /\ s[i] \in ToSet(s)
           /\ \A e \in ToSet(s) : \E i \in 1..Len(s) : s[i] = e
           /\ ToSet(s) \subseteq S
           /\ s # <<>> <=> Len(s) > 0
           /\ s # <<>> <=> ToSet(s) # {}
           /\ IsInjective(s) <=> \A i, j \in 1..Len(s) : s[i] = s[j] => i = j
  BY DEF ToSet, IsInjective

\* Two sequences put together.
LEMMA Joined ==
    ASSUME NEW S, NEW s \in Seq(S), NEW q \in Seq(S)
    PROVE  /\ s \o q \in Seq(S) /\ Len(s \o q) = Len(s) + Len(q)
           /\ \A i \in 1..Len(s) : (s \o q)[i] = s[i]
           /\ \A i \in 1..Len(q) : (s \o q)[Len(s) + i] = q[i]
           /\ \A k \in 1..Len(s \o q) :
                 \/ k \in 1..Len(s) /\ (s \o q)[k] = s[k]
                 \/ k - Len(s) \in 1..Len(q) /\ (s \o q)[k] = q[k - Len(s)]
  <1>1. Len(s) \in Nat /\ Len(q) \in Nat
    OBVIOUS
  <1>2. s \o q \in Seq(S) /\ Len(s \o q) = Len(s) + Len(q)
    OBVIOUS
  <1>3. \A i \in 1..Len(s) : (s \o q)[i] = s[i]
    OBVIOUS
  <1>4. \A k \in 1..Len(s \o q) : k > Len(s) =>
            k - Len(s) \in 1..Len(q) /\ (s \o q)[k] = q[k - Len(s)]
    BY <1>1, <1>2
  <1>5. ASSUME NEW i \in 1..Len(q) PROVE (s \o q)[Len(s) + i] = q[i]
    <2>1. Len(s) + i \in 1..Len(s \o q) /\ Len(s) + i > Len(s) /\ Len(s) + i - Len(s) = i
      BY <1>1, <1>2
    <2> QED BY <1>4, <2>1
  <1>6. ASSUME NEW k \in 1..Len(s \o q)
        PROVE  \/ k \in 1..Len(s) /\ (s \o q)[k] = s[k]
               \/ k - Len(s) \in 1..Len(q) /\ (s \o q)[k] = q[k - Len(s)]
    <2>1. CASE k <= Len(s)
      BY <1>1, <1>3, <2>1
    <2>2. CASE k > Len(s)
      BY <1>4, <2>2
    <2> QED BY <1>1, <2>1, <2>2
  <1> QED BY <1>2, <1>3, <1>5, <1>6

\* Its members, and that none is there twice.
LEMMA JoinedMembers ==
    ASSUME NEW S, NEW s \in Seq(S), NEW q \in Seq(S)
    PROVE  /\ ToSet(s \o q) = ToSet(s) \cup ToSet(q)
           /\ IsInjective(s) /\ IsInjective(q) /\ ToSet(s) \cap ToSet(q) = {} => IsInjective(s \o q)
  <1>1. s \o q \in Seq(S) /\ Len(s) \in Nat /\ Len(q) \in Nat /\ Len(s \o q) = Len(s) + Len(q)
    BY Joined
  <1>2. \A k \in 1..Len(s \o q) :
                 \/ k \in 1..Len(s) /\ (s \o q)[k] = s[k]
                 \/ k - Len(s) \in 1..Len(q) /\ (s \o q)[k] = q[k - Len(s)]
    BY Joined
  <1>3. ASSUME NEW e \in ToSet(s \o q) PROVE e \in ToSet(s) \cup ToSet(q)
    <2>1. PICK k \in 1..Len(s \o q) : (s \o q)[k] = e
      BY <1>1, Members
    <2> QED BY <1>2, <2>1, Members
  <1>4. ASSUME NEW e \in ToSet(s) PROVE e \in ToSet(s \o q)
    <2>1. PICK k \in 1..Len(s) : s[k] = e
      BY Members
    <2>2. k \in 1..Len(s \o q) /\ (s \o q)[k] = e
      BY <1>1, <2>1, Joined
    <2> QED BY <1>1, <2>2, Members
  <1>5. ASSUME NEW e \in ToSet(q) PROVE e \in ToSet(s \o q)
    <2>1. PICK k \in 1..Len(q) : q[k] = e
      BY Members
    <2>2. Len(s) + k \in 1..Len(s \o q) /\ (s \o q)[Len(s) + k] = e
      BY <1>1, <2>1, Joined
    <2> QED BY <1>1, <2>2, Members
  <1>6. ASSUME IsInjective(s), IsInjective(q), ToSet(s) \cap ToSet(q) = {},
               NEW i \in 1..Len(s \o q), NEW j \in 1..Len(s \o q), (s \o q)[i] = (s \o q)[j]
        PROVE  i = j
    <2>a. \A k, l \in 1..Len(s) : s[k] = s[l] => k = l
      BY <1>6, Members
    <2>b. \A k, l \in 1..Len(q) : q[k] = q[l] => k = l
      BY <1>6, Members
    <2>c. \A k \in 1..Len(s), l \in 1..Len(q) : s[k] # q[l]
      <3>1. /\ \A k \in 1..Len(s) : s[k] \in ToSet(s)
            /\ \A l \in 1..Len(q) : q[l] \in ToSet(q)
        BY Members
      <3> QED BY <1>6, <3>1
    <2>1. CASE i \in 1..Len(s) /\ (s \o q)[i] = s[i] /\ j \in 1..Len(s) /\ (s \o q)[j] = s[j]
      BY <1>6, <2>1, <2>a
    <2>2. CASE i \in 1..Len(s) /\ (s \o q)[i] = s[i] /\ j - Len(s) \in 1..Len(q) /\ (s \o q)[j] = q[j - Len(s)]
      BY <1>6, <2>2, <2>c
    <2>3. CASE i - Len(s) \in 1..Len(q) /\ (s \o q)[i] = q[i - Len(s)] /\ j \in 1..Len(s) /\ (s \o q)[j] = s[j]
      BY <1>6, <2>3, <2>c
    <2>4. CASE /\ i - Len(s) \in 1..Len(q) /\ (s \o q)[i] = q[i - Len(s)]
               /\ j - Len(s) \in 1..Len(q) /\ (s \o q)[j] = q[j - Len(s)]
      <3>1. i - Len(s) = j - Len(s)
        BY <1>6, <2>4, <2>b
      <3> QED BY <1>1, <3>1
    <2> QED BY <1>2, <2>1, <2>2, <2>3, <2>4
  <1>7. IsInjective(s) /\ IsInjective(q) /\ ToSet(s) \cap ToSet(q) = {} => IsInjective(s \o q)
    BY <1>1, <1>6, Members
  <1> QED BY <1>3, <1>4, <1>5, <1>7

\* The first k terminals of a layout, and the others.
LEMMA Divided ==
    ASSUME NEW S, NEW s \in Seq(S), NEW k \in 0..Len(s)
    PROVE  /\ SubSeq(s, 1, k) \in Seq(S) /\ SubSeq(s, k + 1, Len(s)) \in Seq(S)
           /\ Len(SubSeq(s, 1, k)) = k /\ Len(SubSeq(s, k + 1, Len(s))) = Len(s) - k
           /\ \A i \in 1..k : SubSeq(s, 1, k)[i] = s[i]
           /\ \A i \in 1..(Len(s) - k) : SubSeq(s, k + 1, Len(s))[i] = s[k + i]
  <1>1. Len(s) \in Nat /\ k \in Nat /\ k <= Len(s)
    OBVIOUS
  <1>2. SubSeq(s, 1, k) \in Seq(S) /\ Len(SubSeq(s, 1, k)) = k /\ \A i \in 1..k : SubSeq(s, 1, k)[i] = s[i]
    BY <1>1
  <1>3. SubSeq(s, k + 1, Len(s)) \in Seq(S) /\ Len(SubSeq(s, k + 1, Len(s))) = Len(s) - k
    BY <1>1
  <1>4. ASSUME NEW i \in 1..(Len(s) - k) PROVE SubSeq(s, k + 1, Len(s))[i] = s[k + i]
    <2>1. k + 1 + i - 1 = k + i /\ i \in 1..(Len(s) - (k + 1) + 1)
      BY <1>1
    <2> QED BY <1>1, <2>1
  <1> QED BY <1>2, <1>3, <1>4

\* The layout without its i-th pane: LayoutExt::remove_terminal.
LEMMA Removed ==
    ASSUME NEW S, NEW s \in Seq(S), NEW i \in 1..Len(s), IsInjective(s)
    PROVE  /\ RemoveAt(s, i) \in Seq(S) /\ IsInjective(RemoveAt(s, i))
           /\ ToSet(RemoveAt(s, i)) = ToSet(s) \ {s[i]}
  <1> DEFINE a == SubSeq(s, 1, i - 1)
             b == SubSeq(s, i + 1, Len(s))
  <1>1. Len(s) \in Nat /\ i \in Nat /\ i - 1 \in 0..Len(s) /\ i \in 0..Len(s)
    OBVIOUS
  <1>2. a \in Seq(S) /\ Len(a) = i - 1 /\ \A k \in 1..(i - 1) : a[k] = s[k]
    BY <1>1, Divided
  <1>3. b \in Seq(S) /\ Len(b) = Len(s) - i /\ \A k \in 1..(Len(s) - i) : b[k] = s[i + k]
    BY <1>1, Divided
  <1>12. RemoveAt(s, i) = a \o b
    BY DEF RemoveAt
  <1> HIDE DEF a, b
  <1>4. \A k, l \in 1..Len(s) : s[k] = s[l] => k = l
    BY Members
  <1>5. IsInjective(a)
    <2>1. \A k, l \in 1..Len(a) : a[k] = a[l] => k = l
      BY <1>1, <1>2, <1>4
    <2> QED BY <1>2, <2>1, Members
  <1>6. IsInjective(b)
    <2>1. ASSUME NEW k \in 1..Len(b), NEW l \in 1..Len(b), b[k] = b[l] PROVE k = l
      <3>1. i + k \in 1..Len(s) /\ i + l \in 1..Len(s) /\ s[i + k] = s[i + l]
        BY <1>1, <1>3, <2>1
      <3>2. i + k = i + l
        BY <1>4, <3>1
      <3> QED BY <1>1, <3>2
    <2> QED BY <1>3, <2>1, Members
  <1>7. \A e \in ToSet(a) : \E k \in 1..Len(s) : k < i /\ s[k] = e
    <2> SUFFICES ASSUME NEW e \in ToSet(a) PROVE \E k \in 1..Len(s) : k < i /\ s[k] = e
      OBVIOUS
    <2>1. PICK k \in 1..Len(a) : a[k] = e
      BY <1>2, Members
    <2> QED BY <1>1, <1>2, <2>1
  <1>8. \A e \in ToSet(b) : \E k \in 1..Len(s) : k > i /\ s[k] = e
    <2> SUFFICES ASSUME NEW e \in ToSet(b) PROVE \E k \in 1..Len(s) : k > i /\ s[k] = e
      OBVIOUS
    <2>1. PICK k \in 1..Len(b) : b[k] = e
      BY <1>3, Members
    <2>2. i + k \in 1..Len(s) /\ i + k > i /\ s[i + k] = e
      BY <1>1, <1>3, <2>1
    <2> QED BY <2>2
  <1>9. ToSet(a) \cap ToSet(b) = {}
    <2> SUFFICES ASSUME NEW e \in ToSet(a), e \in ToSet(b) PROVE FALSE
      OBVIOUS
    <2>1. PICK k \in 1..Len(s) : k < i /\ s[k] = e
      BY <1>7
    <2>2. PICK l \in 1..Len(s) : l > i /\ s[l] = e
      BY <1>8
    <2>3. k = l
      BY <1>4, <2>1, <2>2
    <2> QED BY <1>1, <2>1, <2>2, <2>3
  <1>10. ASSUME NEW e \in ToSet(a) \cup ToSet(b) PROVE e \in ToSet(s) \ {s[i]}
    <2>1. PICK k \in 1..Len(s) : k # i /\ s[k] = e
      BY <1>1, <1>7, <1>8
    <2>2. e # s[i]
      BY <1>4, <2>1
    <2> QED BY <2>1, <2>2, Members
  <1>11. ASSUME NEW e \in ToSet(s) \ {s[i]} PROVE e \in ToSet(a) \cup ToSet(b)
    <2>1. PICK k \in 1..Len(s) : s[k] = e
      BY Members
    <2>2. CASE k < i
      <3>1. k \in 1..Len(a) /\ a[k] = e
        BY <1>1, <1>2, <2>1, <2>2
      <3> QED BY <1>2, <3>1, Members
    <2>3. CASE k > i
      <3>1. k - i \in 1..Len(b) /\ i + (k - i) = k
        BY <1>1, <1>3, <2>1, <2>3
      <3>2. b[k - i] = e
        BY <1>3, <2>1, <3>1
      <3> QED BY <1>3, <3>1, <3>2, Members
    <2>4. k # i
      BY <1>11, <2>1
    <2> QED BY <1>1, <2>2, <2>3, <2>4
  <1>13. a \o b \in Seq(S) /\ IsInjective(a \o b) /\ ToSet(a \o b) = ToSet(a) \cup ToSet(b)
    BY <1>2, <1>3, <1>5, <1>6, <1>9, Joined, JoinedMembers
  <1> QED BY <1>10, <1>11, <1>12, <1>13

\* The layout with a pane before its i-th one: the part of a split.
LEMMA Inserted ==
    ASSUME NEW S, NEW s \in Seq(S), NEW i \in 1..(Len(s) + 1), IsInjective(s),
           NEW e \in S, e \notin ToSet(s)
    PROVE  /\ InsertAt(s, i, e) \in Seq(S) /\ IsInjective(InsertAt(s, i, e))
           /\ ToSet(InsertAt(s, i, e)) = ToSet(s) \cup {e}
  <1> DEFINE a == SubSeq(s, 1, i - 1)
             b == SubSeq(s, i, Len(s))
  <1>1. Len(s) \in Nat /\ i \in Nat /\ i - 1 \in 0..Len(s) /\ (i - 1) + 1 = i
    OBVIOUS
  <1>2. a \in Seq(S) /\ Len(a) = i - 1 /\ \A k \in 1..(i - 1) : a[k] = s[k]
    BY <1>1, Divided
  <1>3. b \in Seq(S) /\ Len(b) = Len(s) - (i - 1) /\ \A k \in 1..(Len(s) - (i - 1)) : b[k] = s[(i - 1) + k]
    BY <1>1, Divided
  <1>4. InsertAt(s, i, e) = (a \o <<e>>) \o b
    BY DEF InsertAt
  <1> HIDE DEF a, b
  <1>5. \A k, l \in 1..Len(s) : s[k] = s[l] => k = l
    BY Members
  <1>6. IsInjective(a)
    <2>1. \A k, l \in 1..Len(a) : a[k] = a[l] => k = l
      BY <1>1, <1>2, <1>5
    <2> QED BY <1>2, <2>1, Members
  <1>7. IsInjective(b)
    <2>1. ASSUME NEW k \in 1..Len(b), NEW l \in 1..Len(b), b[k] = b[l] PROVE k = l
      <3>1. (i - 1) + k \in 1..Len(s) /\ (i - 1) + l \in 1..Len(s) /\ s[(i - 1) + k] = s[(i - 1) + l]
        BY <1>1, <1>3, <2>1
      <3>2. (i - 1) + k = (i - 1) + l
        BY <1>5, <3>1
      <3> QED BY <1>1, <3>2
    <2> QED BY <1>3, <2>1, Members
  <1>8. \A x \in ToSet(a) : \E k \in 1..Len(s) : k < i /\ s[k] = x
    <2> SUFFICES ASSUME NEW x \in ToSet(a) PROVE \E k \in 1..Len(s) : k < i /\ s[k] = x
      OBVIOUS
    <2>1. PICK k \in 1..Len(a) : a[k] = x
      BY <1>2, Members
    <2> QED BY <1>1, <1>2, <2>1
  <1>9. \A x \in ToSet(b) : \E k \in 1..Len(s) : k >= i /\ s[k] = x
    <2> SUFFICES ASSUME NEW x \in ToSet(b) PROVE \E k \in 1..Len(s) : k >= i /\ s[k] = x
      OBVIOUS
    <2>1. PICK k \in 1..Len(b) : b[k] = x
      BY <1>3, Members
    <2>2. (i - 1) + k \in 1..Len(s) /\ (i - 1) + k >= i /\ s[(i - 1) + k] = x
      BY <1>1, <1>3, <2>1
    <2> QED BY <2>2
  <1>10. ToSet(a) \cap ToSet(b) = {}
    <2> SUFFICES ASSUME NEW x \in ToSet(a), x \in ToSet(b) PROVE FALSE
      OBVIOUS
    <2>1. PICK k \in 1..Len(s) : k < i /\ s[k] = x
      BY <1>8
    <2>2. PICK l \in 1..Len(s) : l >= i /\ s[l] = x
      BY <1>9
    <2>3. k = l
      BY <1>5, <2>1, <2>2
    <2> QED BY <1>1, <2>1, <2>2, <2>3
  <1>11. ToSet(a) \cup ToSet(b) \subseteq ToSet(s)
    <2>1. \A k \in 1..Len(s) : s[k] \in ToSet(s)
      BY Members
    <2> QED BY <1>8, <1>9, <2>1
  <1>12. ASSUME NEW x \in ToSet(s) PROVE x \in ToSet(a) \cup ToSet(b)
    <2>1. PICK k \in 1..Len(s) : s[k] = x
      BY Members
    <2>2. CASE k < i
      <3>1. k \in 1..Len(a) /\ a[k] = x
        BY <1>1, <1>2, <2>1, <2>2
      <3> QED BY <1>2, <3>1, Members
    <2>3. CASE k >= i
      <3>1. k - (i - 1) \in 1..Len(b) /\ (i - 1) + (k - (i - 1)) = k
        BY <1>1, <1>3, <2>1, <2>3
      <3>2. b[k - (i - 1)] = x
        BY <1>3, <2>1, <3>1
      <3> QED BY <1>3, <3>1, <3>2, Members
    <2> QED BY <1>1, <2>2, <2>3
  <1>13. <<e>> \in Seq(S) /\ ToSet(<<e>>) = {e} /\ IsInjective(<<e>>)
    BY DEF ToSet, IsInjective
  <1>14. /\ a \o <<e>> \in Seq(S) /\ IsInjective(a \o <<e>>)
         /\ ToSet(a \o <<e>>) = ToSet(a) \cup {e}
    <2>1. PICK q : q = <<e>>
      OBVIOUS
    <2>2. q \in Seq(S) /\ ToSet(q) = {e} /\ IsInjective(q)
      BY <1>13, <2>1
    <2>3. ToSet(a) \cap ToSet(q) = {}
      BY <1>11, <2>2
    <2>4. a \o q \in Seq(S) /\ IsInjective(a \o q) /\ ToSet(a \o q) = ToSet(a) \cup ToSet(q)
      BY <1>2, <1>6, <2>2, <2>3, Joined, JoinedMembers
    <2> QED BY <2>1, <2>2, <2>4
  <1>15. (ToSet(a) \cup {e}) \cap ToSet(b) = {}
    BY <1>10, <1>11
  <1>16. /\ (a \o <<e>>) \o b \in Seq(S) /\ IsInjective((a \o <<e>>) \o b)
         /\ ToSet((a \o <<e>>) \o b) = (ToSet(a) \cup {e}) \cup ToSet(b)
    <2>1. PICK q : q = a \o <<e>>
      OBVIOUS
    <2>2. q \in Seq(S) /\ IsInjective(q) /\ ToSet(q) = ToSet(a) \cup {e}
      BY <1>14, <2>1
    <2>3. q \o b \in Seq(S) /\ IsInjective(q \o b) /\ ToSet(q \o b) = ToSet(q) \cup ToSet(b)
      BY <1>3, <1>7, <1>15, <2>2, Joined, JoinedMembers
    <2> QED BY <2>1, <2>2, <2>3
  <1> QED BY <1>4, <1>11, <1>12, <1>16

\* A layout of one pane.
LEMMA Single ==
    ASSUME NEW S, NEW s \in Seq(S), NEW e, IsInjective(s)
    PROVE  /\ ToSet(s) = {e} <=> s = <<e>>
           /\ ToSet(s) = {e} => Len(s) = 1
  <1>1. ASSUME s = <<e>> PROVE ToSet(s) = {e} /\ Len(s) = 1
    BY <1>1 DEF ToSet
  <1>2. ASSUME ToSet(s) = {e} PROVE s = <<e>>
    <2>1. PICK i \in 1..Len(s) : s[i] = e
      BY <1>2, Members
    <2>2. \A k \in 1..Len(s) : s[k] = e
      BY <1>2, Members
    <2>3. \A k, l \in 1..Len(s) : s[k] = s[l] => k = l
      BY Members
    <2>4. \A k \in 1..Len(s) : k = i
      BY <2>1, <2>2, <2>3
    <2>5. Len(s) = 1
      <3>1. Len(s) \in Nat /\ Len(s) \in 1..Len(s) /\ 1 \in 1..Len(s)
        BY <2>1
      <3> QED BY <2>4, <3>1
    <2> QED BY <2>2, <2>5
  <1> QED BY <1>1, <1>2

\* Two panes exchanged.
LEMMA Permuted ==
    ASSUME NEW S, NEW s \in Seq(S), IsInjective(s), NEW i \in 1..Len(s), NEW j \in 1..Len(s),
           NEW q \in Seq(S), Len(q) = Len(s), q[i] = s[j], q[j] = s[i],
           \A k \in 1..Len(s) : k # i /\ k # j => q[k] = s[k]
    PROVE  IsInjective(q) /\ ToSet(q) = ToSet(s)
  <1>4. \A k, l \in 1..Len(s) : s[k] = s[l] => k = l
    BY Members
  <1>5. IsInjective(q)
    <2>1. \A k, l \in 1..Len(q) : q[k] = q[l] => k = l
      BY <1>4
    <2> QED BY <2>1, Members
  <1>6. ASSUME NEW e \in ToSet(q) PROVE e \in ToSet(s)
    <2>1. PICK k \in 1..Len(q) : q[k] = e
      BY Members
    <2>2. PICK l \in 1..Len(s) : s[l] = e
      BY <2>1
    <2> QED BY <2>2, Members
  <1>7. ASSUME NEW e \in ToSet(s) PROVE e \in ToSet(q)
    <2>1. PICK k \in 1..Len(s) : s[k] = e
      BY Members
    <2>2. PICK l \in 1..Len(q) : q[l] = e
      BY <2>1
    <2> QED BY <2>2, Members
  <1> QED BY <1>5, <1>6, <1>7

\* What swap_pane does to a layout.
LEMMA Exchanged ==
    ASSUME NEW S, NEW s \in Seq(S), IsInjective(s), NEW i \in 1..Len(s), NEW j \in 1..Len(s)
    PROVE  LET q == [s EXCEPT ![i] = s[j], ![j] = s[i]] IN
           q \in Seq(S) /\ IsInjective(q) /\ ToSet(q) = ToSet(s)
  <1>1. PICK q : q = [s EXCEPT ![i] = s[j], ![j] = s[i]]
    OBVIOUS
  <1>2. Len(s) \in Nat /\ DOMAIN s = 1..Len(s) /\ \A k \in 1..Len(s) : s[k] \in S
    BY Members
  <1>3. q \in Seq(S) /\ Len(q) = Len(s)
    BY <1>1, <1>2
  <1>4. /\ q[i] = s[j] /\ q[j] = s[i]
        /\ \A k \in 1..Len(s) : k # i /\ k # j => q[k] = s[k]
    BY <1>1, <1>2
  <1>5. IsInjective(q) /\ ToSet(q) = ToSet(s)
    BY <1>3, <1>4, Permuted
  <1> QED BY <1>1, <1>3, <1>5

\* A layout of the same length with the same panes has none of them twice:
\* update_view checks no more than that.
LEMMA Reordered ==
    ASSUME NEW S, NEW s \in Seq(S), IsInjective(s), NEW q \in Seq(S), Len(q) = Len(s), ToSet(q) = ToSet(s)
    PROVE  IsInjective(q)
  <1>1. Len(s) \in Nat /\ DOMAIN s = 1..Len(s) /\ DOMAIN q = 1..Len(s)
    BY Members
  <1>2. IsFiniteSet(1..Len(s))
    BY <1>1, FS_Interval
  <1>3. s \in Surjection(1..Len(s), ToSet(s)) /\ s \in Injection(1..Len(s), ToSet(s))
    BY <1>1 DEF Surjection, Injection, ToSet
  <1>4. q \in Surjection(1..Len(s), ToSet(s))
    <2>1. /\ \A i \in 1..Len(s) : q[i] \in ToSet(s)
          /\ \A e \in ToSet(s) : \E i \in 1..Len(s) : q[i] = e
      BY Members
    <2>2. q \in [1..Len(s) -> ToSet(s)]
      BY <1>1, <2>1
    <2> QED BY <2>1, <2>2 DEF Surjection
  <1>5. Cardinality(1..Len(s)) = Cardinality(ToSet(s))
    BY <1>2, <1>3, FS_Surjection
  <1>6. q \in Injection(1..Len(s), ToSet(s))
    BY <1>2, <1>4, <1>5, FS_SurjSameCardinalityImpliesInj
  <1> QED BY <1>6 DEF Injection

(***************************************************************************)
(* The views that a step publishes.                                         *)
(***************************************************************************)
\* The panes and the view of a session after a step, and whether the step has
\* left its view alone.
NextPanes(s) == ToSet(layout'[s])
NextView(s) == [session |-> s, revision |-> revision'[s], name |-> name'[s], zoom |-> zoom'[s],
                layout |-> layout'[s]]
Same(s) == layout'[s] = layout[s] /\ name'[s] = name[s] /\ zoom'[s] = zoom[s] /\ revision'[s] = revision[s]

\* What receivers hold after the views of the sessions S were published.
Republished(S) ==
    /\ \A t \in Terminal \ terminals' : published'[t] = None
    /\ \A t \in terminals' : owner'[t] \notin S => published'[t] = published[t]
    /\ \A t \in terminals' : owner'[t] \in S =>
          \/ published'[t] = NextView(owner'[t])
          \/ /\ published'[t] = published[t] /\ published[t] # None
             /\ published[t].session = owner'[t]

\* What the order of the views needs: sessions that are gone stay so, a view
\* that changes has a new revision, and a terminal that changes its session
\* goes to one it has never had a view of.
Progress(S) ==
    /\ used \subseteq used'
    /\ \A q \in used : PanesOf(q) = {} => NextPanes(q) = {}
    /\ \A q \in Session : PanesOf(q) # {} /\ NextPanes(q) # {} => Same(q) \/ revision'[q] > revision[q]
    /\ \A t \in terminals \cap terminals' : owner'[t] # owner[t] =>
          /\ owner'[t] \notin used \/ PanesOf(owner'[t]) # {}
          /\ owner'[t] \in S \/ NextPanes(owner[t]) = {}

\* publish_view reaches the receivers of the panes of its session.
LEMMA Publishing ==
    ASSUME Types', Placement', NEW S \in SUBSET Session, PublishViews(S)
    PROVE  Republished(S) /\ published' = [t \in Terminal |-> published'[t]]
  <1>1. ASSUME NEW t \in Terminal \ terminals' PROVE published'[t] = None
    BY <1>1 DEF PublishViews
  <1>2. ASSUME NEW t \in terminals', owner'[t] \notin S PROVE published'[t] = published[t]
    <2>1. t \in Terminal
      BY DEF Types
    <2>2. {q \in S : t \in ToSet(layout'[q])} = {}
      BY <1>2 DEF Placement, PanesOf
    <2> QED BY <2>1, <2>2 DEF PublishViews
  <1>3. ASSUME NEW t \in terminals', owner'[t] \in S
        PROVE  \/ published'[t] = NextView(owner'[t])
               \/ /\ published'[t] = published[t] /\ published[t] # None
                  /\ published[t].session = owner'[t]
    <2>1. t \in Terminal
      BY DEF Types
    <2>2. {q \in S : t \in ToSet(layout'[q])} = {owner'[t]}
      BY <1>3 DEF Placement, PanesOf
    <2>3. (CHOOSE x \in {q \in S : t \in ToSet(layout'[q])} : TRUE) = owner'[t]
      BY <2>2
    <2>4. published'[t] = IF HasView(t, NextView(owner'[t])) THEN published[t] ELSE NextView(owner'[t])
      BY <2>1, <2>2, <2>3 DEF PublishViews, NextView
    <2> QED BY <2>4 DEF HasView, NextView
  <1>4. published' = [t \in Terminal |-> published'[t]]
    BY DEF PublishViews
  <1> QED BY <1>1, <1>2, <1>3, <1>4 DEF Republished

\* Nothing is published, and receivers that are gone are forgotten.
LEMMA Silence ==
    ASSUME TypeOK, terminals' \subseteq Terminal,
           ForgetView \/ (published' = published /\ \A t \in Terminal \ terminals' : published[t] = None)
    PROVE  Republished({}) /\ published' = [t \in Terminal |-> published'[t]]
  BY DEF ForgetView, Republished, TypeOK

\* Then the views stay ordered.
LEMMA Ordered ==
    ASSUME RegistryInv, Types', Placement', Sessions', NEW S \in SUBSET Session, Progress(S), Republished(S),
           published' = [t \in Terminal |-> published'[t]]
    PROVE  /\ TypeOK' /\ Origin' /\ ViewsOrdered'
           /\ \A t \in Terminal \ terminals' : published'[t] = None
  <1>1. \A t \in Terminal \ terminals' : published'[t] = None
    BY DEF Republished
  <1>2. ASSUME NEW t \in terminals'
        PROVE  /\ t \in Terminal /\ owner'[t] \in Session /\ owner'[t] \in used'
               /\ NextView(owner'[t]) \in View /\ NextView(owner'[t]).session = owner'[t]
               /\ \/ published'[t] = NextView(owner'[t])
                  \/ published'[t] = published[t] /\ (published[t] # None => t \in terminals)
    <2>1. t \in Terminal /\ owner'[t] \in Session /\ t \in NextPanes(owner'[t])
      BY DEF Types, Placement, PanesOf, NextPanes
    <2>2. owner'[t] \in used' /\ name'[owner'[t]] \in Name
      BY <2>1 DEF Sessions, PanesOf, NextPanes
    <2>3. NextView(owner'[t]) \in View /\ NextView(owner'[t]).session = owner'[t]
      BY <2>1, <2>2 DEF Types, View, NextView
    <2>4. published[t] # None => t \in terminals
      BY <2>1 DEF RegistryInv, Absent
    <2>5. \/ published'[t] = NextView(owner'[t])
          \/ published'[t] = published[t]
      BY DEF Republished
    <2> QED BY <2>1, <2>2, <2>3, <2>4, <2>5
  <1>3. published' \in [Terminal -> View \cup {None}]
    <2>1. ASSUME NEW t \in Terminal PROVE published'[t] \in View \cup {None}
      <3>1. published[t] \in View \cup {None}
        BY DEF RegistryInv, TypeOK
      <3> QED BY <1>1, <1>2, <3>1
    <2> QED BY <2>1
  <1>4. TypeOK'
    BY <1>3 DEF Types, TypeOK
  <1>5. ASSUME NEW t \in terminals', published'[t] # None
        PROVE  /\ published'[t].session \in used'
               /\ published'[t].session = owner'[t] \/ NextPanes(published'[t].session) = {}
    <2>1. CASE published'[t] = NextView(owner'[t])
      BY <1>2, <2>1
    <2>2. CASE published'[t] = published[t] /\ t \in terminals /\ published'[t] # NextView(owner'[t])
      <3>1. /\ published[t].session \in used
            /\ published[t].session = owner[t] \/ PanesOf(published[t].session) = {}
        BY <1>5, <2>2 DEF RegistryInv, Origin
      <3>2. published[t].session \in used'
        BY <3>1 DEF Progress
      <3>3. CASE PanesOf(published[t].session) = {}
        BY <2>2, <3>1, <3>2, <3>3 DEF Progress
      <3>4. CASE published[t].session = owner[t] /\ owner'[t] # owner[t]
        <4>1. owner'[t] \in S \/ NextPanes(owner[t]) = {}
          BY <2>2, <3>4 DEF Progress
        <4>2. owner'[t] \in S => published[t].session = owner'[t]
          BY <2>2 DEF Republished
        <4> QED BY <2>2, <3>2, <3>4, <4>1, <4>2
      <3>5. CASE published[t].session = owner[t] /\ owner'[t] = owner[t]
        BY <2>2, <3>2, <3>5
      <3> QED BY <3>1, <3>3, <3>4, <3>5
    <2> QED BY <1>2, <1>5, <2>1, <2>2
  <1>6. Origin'
    BY <1>5 DEF Origin, PanesOf, NextPanes
  <1>7. ASSUME NEW t \in terminals', published'[t] # None, published'[t].session = owner'[t]
        PROVE  /\ published'[t].revision <= revision'[owner'[t]]
               /\ published'[t].revision = revision'[owner'[t]] => published'[t] = NextView(owner'[t])
    <2>0. revision'[owner'[t]] \in Nat
      BY <1>2 DEF Types
    <2>1. CASE published'[t] = NextView(owner'[t])
      BY <2>0, <2>1 DEF NextView
    <2>2. CASE published'[t] = published[t] /\ t \in terminals
      <3> DEFINE s == owner[t]
      <3>1. owner'[t] = s
        <4>1. SUFFICES ASSUME owner'[t] # owner[t] PROVE FALSE
          OBVIOUS
        <4>2. owner'[t] \notin used \/ PanesOf(owner'[t]) # {}
          BY <2>2, <4>1 DEF Progress
        <4>3. owner'[t] \in used /\ PanesOf(owner'[t]) = {}
          BY <1>7, <2>2, <4>1 DEF RegistryInv, Origin
        <4> QED BY <4>2, <4>3
      <3>2. s \in Session /\ PanesOf(s) # {} /\ NextPanes(s) # {}
        BY <2>2, <3>1 DEF RegistryInv, Placement, PanesOf, NextPanes
      <3>3. /\ published[t].revision <= revision[s]
            /\ published[t].revision = revision[s] => published[t] = ViewOf(s)
        BY <1>7, <2>2, <3>1 DEF RegistryInv, ViewsOrdered
      <3>4. Same(s) \/ revision'[s] > revision[s]
        BY <3>2 DEF Progress
      <3>5. revision[s] \in Nat /\ revision'[s] \in Nat /\ published[t].revision \in Nat
        <4>1. published[t] \in View
          BY <1>2, <1>7, <2>2 DEF RegistryInv, TypeOK
        <4> QED BY <3>2, <4>1 DEF RegistryInv, Types, View
      <3> HIDE DEF s
      <3>6. CASE Same(s)
        <4>1. ViewOf(s) = NextView(s) /\ revision'[s] = revision[s]
          BY <3>6 DEF Same, ViewOf, NextView
        <4> QED BY <2>2, <3>1, <3>3, <4>1
      <3>7. CASE revision'[s] > revision[s]
        BY <2>2, <3>1, <3>3, <3>5, <3>7
      <3> QED BY <3>4, <3>6, <3>7
    <2> QED BY <1>2, <1>7, <2>1, <2>2
  <1>8. ViewsOrdered'
    BY <1>7 DEF ViewsOrdered, ViewOf, NextView
  <1> QED BY <1>1, <1>4, <1>6, <1>8

\* None of the panes of a session that is terminating goes elsewhere, and none
\* comes: ClosingFrozen of one step.
Frozen ==
    \A s \in closing :
        /\ NextPanes(s) \subseteq PanesOf(s)
        /\ \A t \in PanesOf(s) : t \in terminals' => owner'[t] = s

\* What remains to be shown of a step that publishes the views of S.
LEMMA Kept ==
    ASSUME RegistryInv, Types', Placement', Sessions', Reserved', NEW S \in SUBSET Session,
           Progress(S), Republished(S), published' = [t \in Terminal |-> published'[t]],
           \A t \in terminals' : life'[t] # "none"
    PROVE  RegistryInv'
  <1>1. /\ TypeOK' /\ Origin' /\ ViewsOrdered'
        /\ \A t \in Terminal \ terminals' : published'[t] = None
    BY Ordered
  <1>2. Absent'
    BY <1>1 DEF Absent
  <1> QED BY <1>1, <1>2 DEF RegistryInv

(***************************************************************************)
(* Steps of requests that change names and requests only.                   *)
(***************************************************************************)
\* A step that leaves terminals, sessions and receivers alone.
LEMMA Quiet ==
    ASSUME RegistryInv, UNCHANGED <<terminalVars, sessionVars, published>>, Types', Reserved'
    PROVE  RegistryInv' /\ Frozen
  <1> USE DEF terminalVars, sessionVars
  <1>1. TypeOK'
    BY DEF RegistryInv, Types, TypeOK
  <1>2. Placement' /\ Sessions' /\ Absent' /\ Origin'
    BY DEF RegistryInv, Placement, Sessions, Absent, Origin, PanesOf
  <1>3. ViewsOrdered'
    BY DEF RegistryInv, ViewsOrdered, ViewOf
  <1>4. Frozen
    BY DEF RegistryInv, Types, Placement, Frozen, NextPanes, PanesOf
  <1> QED BY <1>1, <1>2, <1>3, <1>4 DEF RegistryInv

\* The request of one client changes, and keeps its name where it needs it.
LEMMA JobChanged ==
    ASSUME RegistryInv, NEW c \in Client,
           NEW j \in [op : Op, name : Name \cup {None}, target : Terminal \cup {None}],
           j.op \in {"creating", "splitting", "moving"} => j.name \in Name,
           job' = [job EXCEPT ![c] = j], pending' \subseteq Name, nextAutomatic' \in 1..(MaxName + 1)
    PROVE  /\ Reserved'
           /\ UNCHANGED <<terminalVars, sessionVars>> => Types'
           /\ job' \in [Client -> [op : Op, name : Name \cup {None}, target : Terminal \cup {None}]]
  <1>1. job' \in [Client -> [op : Op, name : Name \cup {None}, target : Terminal \cup {None}]]
    BY DEF RegistryInv, Types
  <1>2. Reserved'
    BY DEF RegistryInv, Types, Reserved
  <1>3. UNCHANGED <<terminalVars, sessionVars>> => Types'
    BY <1>1 DEF RegistryInv, Types, terminalVars, sessionVars
  <1> QED BY <1>1, <1>2, <1>3

\* The smallest of a set of names.
LEMMA FirstFreeIsFree ==
    ASSUME RegistryInv, FreeNames # {}
    PROVE  FirstFree \in FreeNames /\ FirstFree \in Name
  <1>0. MaxName \in Nat /\ FreeNames \subseteq Name /\ FreeNames \subseteq Nat
    BY RegistryAssumption DEF FreeNames, Name
  <1>1. IsWellFoundedOn(OpToRel(<, Nat), Nat)
    BY NatLessThanWellFounded
  <1>2. PICK n \in FreeNames : \A m \in FreeNames : ~(<<m, n>> \in OpToRel(<, Nat))
    BY <1>0, <1>1, WFMin
  <1>3. \A m \in FreeNames : n <= m
    <2> SUFFICES ASSUME NEW m \in FreeNames PROVE n <= m
      OBVIOUS
    <2>1. m \in Nat /\ n \in Nat
      BY <1>0
    <2>2. ~(m < n)
      BY <1>2, <2>1 DEF OpToRel
    <2> QED BY <2>1, <2>2
  <1> QED BY <1>0, <1>2, <1>3 DEF FirstFree

\* acquire_automatic for a request that goes on.
LEMMA Automatic ==
    ASSUME RegistryInv, NEW c \in Client, NEW op \in {"creating", "splitting", "moving"},
           NEW target \in Terminal \cup {None}, AcquireAutomatic(c, op, target),
           UNCHANGED <<terminalVars, sessionVars, published>>
    PROVE  RegistryInv' /\ Frozen
  <1>0. /\ MaxName \in Nat /\ pending \subseteq Name /\ nextAutomatic \in 1..(MaxName + 1)
        /\ job \in [Client -> [op : Op, name : Name \cup {None}, target : Terminal \cup {None}]]
    BY RegistryAssumption DEF RegistryInv, Types
  <1>1. CASE FreeNames # {}
    <2>1. FirstFree \in Name
      BY <1>1, FirstFreeIsFree
    <2>2. PICK n \in Name : n = FirstFree
      BY <2>1
    <2>3. PICK j : j = [op |-> op, name |-> n, target |-> target]
      OBVIOUS
    <2>4. /\ j \in [op : Op, name : Name \cup {None}, target : Terminal \cup {None}]
          /\ j.name \in Name
      BY <1>0, <2>3 DEF Op
    <2>5. job' = [job EXCEPT ![c] = j]
      BY <1>0, <1>1, <2>2, <2>3 DEF AcquireAutomatic
    <2>6. pending' = pending \cup {n} /\ nextAutomatic' = n + 1
      BY <1>1, <2>2 DEF AcquireAutomatic
    <2>7. pending' \subseteq Name /\ nextAutomatic' \in 1..(MaxName + 1)
      BY <1>0, <2>6 DEF Name
    <2>8. Reserved' /\ Types'
      BY <2>4, <2>5, <2>7, JobChanged
    <2> QED BY <2>8, Quiet
  <1>2. CASE FreeNames = {}
    <2>1. Idle \in [op : Op, name : Name \cup {None}, target : Terminal \cup {None}] /\ Idle.op = "idle"
      BY DEF Idle, Op
    <2>2. job' = [job EXCEPT ![c] = Idle] /\ pending' = pending /\ nextAutomatic' = MaxName + 1
      BY <1>2 DEF AcquireAutomatic
    <2>3. pending' \subseteq Name /\ nextAutomatic' \in 1..(MaxName + 1)
      BY <1>0, <2>2
    <2>4. Reserved' /\ Types'
      BY <2>1, <2>2, <2>3, JobChanged
    <2> QED BY <2>4, Quiet
  <1> QED BY <1>1, <1>2

\* A request of client c begins, fails, is refused or lets its name go.
LEMMA RequestSteps ==
    ASSUME RegistryInv, NEW c \in Client,
           \/ \E n \in Name : BeginCreate(c, n)
           \/ BeginUnnamed(c)
           \/ \E t \in Terminal : PlanSplit(c, t)
           \/ NameSplit(c) \/ FailSpawn(c) \/ DropReservation(c)
           \/ \E t \in Terminal, n \in Name : BeginMove(c, t, n)
           \/ \E t \in Terminal : BeginMoveUnnamed(c, t)
           \/ RejectMove(c)
    PROVE  RegistryInv' /\ Frozen
  <1>0. /\ pending \subseteq Name /\ nextAutomatic \in 1..(MaxName + 1)
        /\ job \in [Client -> [op : Op, name : Name \cup {None}, target : Terminal \cup {None}]]
        /\ job[c] \in [op : Op, name : Name \cup {None}, target : Terminal \cup {None}]
    BY DEF RegistryInv, Types
  <1>1. ASSUME NEW n \in Name, BeginCreate(c, n) PROVE RegistryInv' /\ Frozen
    <2>1. PICK j : j = [job[c] EXCEPT !.op = "creating", !.name = n]
      OBVIOUS
    <2>2. /\ j \in [op : Op, name : Name \cup {None}, target : Terminal \cup {None}]
          /\ j.name \in Name
      BY <1>0, <2>1 DEF Op
    <2>3. job' = [job EXCEPT ![c] = j]
      BY <1>0, <1>1, <2>1 DEF BeginCreate
    <2>4. pending' \subseteq Name /\ nextAutomatic' \in 1..(MaxName + 1)
      BY <1>0, <1>1 DEF BeginCreate, Acquire
    <2>5. UNCHANGED <<terminalVars, sessionVars, published>>
      BY <1>1 DEF BeginCreate
    <2>6. Reserved' /\ Types'
      BY <2>2, <2>3, <2>4, <2>5, JobChanged
    <2> QED BY <2>5, <2>6, Quiet
  <1>2. ASSUME BeginUnnamed(c) PROVE RegistryInv' /\ Frozen
    BY <1>2, Automatic DEF BeginUnnamed
  <1>3. ASSUME NEW t \in Terminal, PlanSplit(c, t) PROVE RegistryInv' /\ Frozen
    <2>1. PICK j : j = [job[c] EXCEPT !.op = "planned", !.target = t]
      OBVIOUS
    <2>2. j \in [op : Op, name : Name \cup {None}, target : Terminal \cup {None}] /\ j.op = "planned"
      BY <1>0, <2>1 DEF Op
    <2>3. job' = [job EXCEPT ![c] = j]
      BY <1>0, <1>3, <2>1 DEF PlanSplit
    <2>4. pending' \subseteq Name /\ nextAutomatic' \in 1..(MaxName + 1)
      BY <1>0, <1>3 DEF PlanSplit, names
    <2>5. UNCHANGED <<terminalVars, sessionVars, published>>
      BY <1>3 DEF PlanSplit
    <2>6. Reserved' /\ Types'
      BY <2>2, <2>3, <2>4, <2>5, JobChanged
    <2> QED BY <2>5, <2>6, Quiet
  <1>4. ASSUME NameSplit(c) PROVE RegistryInv' /\ Frozen
    BY <1>0, <1>4, Automatic DEF NameSplit
  <1>5. ASSUME FailSpawn(c) PROVE RegistryInv' /\ Frozen
    <2>1. PICK j : j = [job[c] EXCEPT !.op = "dropping"]
      OBVIOUS
    <2>2. j \in [op : Op, name : Name \cup {None}, target : Terminal \cup {None}] /\ j.op = "dropping"
      BY <1>0, <2>1 DEF Op
    <2>3. job' = [job EXCEPT ![c] = j]
      BY <1>0, <1>5, <2>1 DEF FailSpawn
    <2>4. pending' \subseteq Name /\ nextAutomatic' \in 1..(MaxName + 1)
      BY <1>0, <1>5 DEF FailSpawn, names
    <2>5. UNCHANGED <<terminalVars, sessionVars, published>>
      BY <1>5 DEF FailSpawn
    <2>6. Reserved' /\ Types'
      BY <2>2, <2>3, <2>4, <2>5, JobChanged
    <2> QED BY <2>5, <2>6, Quiet
  <1>6. ASSUME DropReservation(c) PROVE RegistryInv' /\ Frozen
    <2>2. Idle \in [op : Op, name : Name \cup {None}, target : Terminal \cup {None}] /\ Idle.op = "idle"
      BY DEF Idle, Op
    <2>3. job' = [job EXCEPT ![c] = Idle]
      BY <1>6 DEF DropReservation
    <2>4. pending' \subseteq Name /\ nextAutomatic' \in 1..(MaxName + 1)
      BY <1>0, <1>6 DEF DropReservation
    <2>5. UNCHANGED <<terminalVars, sessionVars, published>>
      BY <1>6 DEF DropReservation
    <2>6. Reserved' /\ Types'
      BY <2>2, <2>3, <2>4, <2>5, JobChanged
    <2> QED BY <2>5, <2>6, Quiet
  <1>7. ASSUME NEW t \in Terminal, NEW n \in Name, BeginMove(c, t, n) PROVE RegistryInv' /\ Frozen
    <2>1. PICK j : j = [op |-> "moving", name |-> n, target |-> t]
      OBVIOUS
    <2>2. /\ j \in [op : Op, name : Name \cup {None}, target : Terminal \cup {None}]
          /\ j.name \in Name
      BY <2>1 DEF Op
    <2>3. job' = [job EXCEPT ![c] = j]
      BY <1>7, <2>1 DEF BeginMove
    <2>4. pending' \subseteq Name /\ nextAutomatic' \in 1..(MaxName + 1)
      BY <1>0, <1>7 DEF BeginMove, Acquire
    <2>5. UNCHANGED <<terminalVars, sessionVars, published>>
      BY <1>7 DEF BeginMove
    <2>6. Reserved' /\ Types'
      BY <2>2, <2>3, <2>4, <2>5, JobChanged
    <2> QED BY <2>5, <2>6, Quiet
  <1>8. ASSUME RejectMove(c) PROVE RegistryInv' /\ Frozen
    <2>1. PICK j : j = [job[c] EXCEPT !.op = "failed"]
      OBVIOUS
    <2>2. j \in [op : Op, name : Name \cup {None}, target : Terminal \cup {None}] /\ j.op = "failed"
      BY <1>0, <2>1 DEF Op
    <2>3. job' = [job EXCEPT ![c] = j]
      BY <1>0, <1>8, <2>1 DEF RejectMove
    <2>4. pending' \subseteq Name /\ nextAutomatic' \in 1..(MaxName + 1)
      BY <1>0, <1>8 DEF RejectMove, names
    <2>5. UNCHANGED <<terminalVars, sessionVars, published>>
      BY <1>8 DEF RejectMove
    <2>6. Reserved' /\ Types'
      BY <2>2, <2>3, <2>4, <2>5, JobChanged
    <2> QED BY <2>5, <2>6, Quiet
  <1>9. ASSUME NEW t \in Terminal, BeginMoveUnnamed(c, t) PROVE RegistryInv' /\ Frozen
    BY <1>9, Automatic DEF BeginMoveUnnamed
  <1> QED BY <1>1, <1>2, <1>3, <1>4, <1>5, <1>6, <1>7, <1>8, <1>9

(***************************************************************************)
(* Steps that edit the view of one session.                                 *)
(***************************************************************************)
\* Session s gets these panes, zoom, name and revision, and no terminal moves.
Rearranges(s, panes, z, n, r) ==
    /\ panes \in Seq(Terminal) /\ IsInjective(panes) /\ ToSet(panes) = PanesOf(s)
    /\ z = None \/ z \in PanesOf(s)
    /\ n \in Name /\ r \in Nat
    /\ r > revision[s] \/ (panes = layout[s] /\ z = zoom[s] /\ n = name[s] /\ r = revision[s])
    /\ layout' = [layout EXCEPT ![s] = panes]
    /\ zoom' = [zoom EXCEPT ![s] = z]
    /\ name' = [name EXCEPT ![s] = n]
    /\ revision' = [revision EXCEPT ![s] = r]
    /\ UNCHANGED <<terminalVars, used, closing>>

\* Such an edit keeps the invariant, published or not.
LEMMA Rearranged ==
    ASSUME RegistryInv, NEW s \in Session, NEW panes, NEW z, NEW n, NEW r, Rearranges(s, panes, z, n, r),
           pending' \subseteq Name, nextAutomatic' \in 1..(MaxName + 1), Reserved',
           job' \in [Client -> [op : Op, name : Name \cup {None}, target : Terminal \cup {None}]],
           PublishViews({s}) \/ published' = published
    PROVE  RegistryInv' /\ Frozen
  <1>0. Types /\ Placement /\ Sessions /\ Absent /\ TypeOK
    BY DEF RegistryInv
  <1>1. UNCHANGED <<terminals, owner, life, used, closing>>
    BY DEF Rearranges, terminalVars
  <1>2. Types'
    <2>1. PanesOf(s) \subseteq Terminal
      BY <1>0, Members DEF Types, PanesOf
    <2> QED BY <1>0, <1>1, <2>1 DEF Types, Rearranges
  <1>3. /\ \A q \in Session \ {s} : Same(q)
        /\ layout'[s] = panes /\ zoom'[s] = z /\ name'[s] = n /\ revision'[s] = r
    BY <1>0 DEF Types, Rearranges, Same
  <1>4. \A q \in Session : NextPanes(q) = PanesOf(q)
    BY <1>3 DEF Rearranges, Same, NextPanes, PanesOf
  <1>5. Placement'
    <2>1. \A t \in terminals : owner[t] \in Session /\ t \in NextPanes(owner[t])
      BY <1>0, <1>4 DEF Placement
    <2>2. \A q \in Session : \A t \in NextPanes(q) : t \in terminals /\ owner[t] = q
      BY <1>0, <1>4 DEF Placement
    <2>3. \A q \in Session : IsInjective(layout'[q])
      BY <1>0, <1>3 DEF Placement, Same, Rearranges
    <2>4. \A q \in Session : zoom'[q] # None => zoom'[q] \in NextPanes(q)
      BY <1>0, <1>3, <1>4 DEF Placement, Same, Rearranges
    <2>5. \A t \in terminals \cap Managed : NextPanes(owner[t]) = {t}
      BY <1>0, <1>4 DEF Placement
    <2> QED BY <1>1, <2>1, <2>2, <2>3, <2>4, <2>5 DEF Placement, NextPanes, PanesOf
  <1>6. Sessions'
    <2>1. \A q \in Session : NextPanes(q) # {} => q \in used /\ name'[q] \in Name
      BY <1>0, <1>3, <1>4 DEF Sessions, Same, Rearranges
    <2>2. \A q \in closing : NextPanes(q) # {}
      BY <1>0, <1>4 DEF Sessions, Types
    <2> QED BY <1>1, <2>1, <2>2 DEF Sessions, NextPanes, PanesOf
  <1>7. ASSUME NEW S PROVE Progress(S)
    <2>1. \A q \in Session : Same(q) \/ revision'[q] > revision[q]
      BY <1>3 DEF Rearranges, Same
    <2>2. \A q \in used : PanesOf(q) = {} => NextPanes(q) = {}
      BY <1>0, <1>4 DEF Types
    <2> QED BY <1>1, <2>1, <2>2 DEF Progress
  <1>8. \A t \in terminals' : life'[t] # "none"
    BY <1>0, <1>1 DEF Absent
  <1>9. RegistryInv'
    <2>1. CASE PublishViews({s})
      <3>1. Republished({s}) /\ published' = [t \in Terminal |-> published'[t]]
        BY <1>2, <1>5, <2>1, Publishing
      <3> QED BY <1>2, <1>5, <1>6, <1>7, <1>8, <3>1, Kept
    <2>2. CASE published' = published
      <3>1. terminals' \subseteq Terminal /\ \A t \in Terminal \ terminals' : published[t] = None
        BY <1>0, <1>1 DEF Types, Absent
      <3>2. Republished({}) /\ published' = [t \in Terminal |-> published'[t]]
        BY <1>0, <2>2, <3>1, Silence
      <3> QED BY <1>2, <1>5, <1>6, <1>7, <1>8, <3>2, Kept
    <2> QED BY <2>1, <2>2
  <1>10. Frozen
    BY <1>0, <1>1, <1>4 DEF Types, Placement, Frozen
  <1> QED BY <1>9, <1>10

\* A live session has panes and a name.
LEMMA LiveSession ==
    ASSUME RegistryInv, NEW s \in Session
    PROVE  /\ s \in Live <=> PanesOf(s) # {}
           /\ s \in Live => name[s] \in Name
           /\ layout[s] \in Seq(Terminal) /\ IsInjective(layout[s])
           /\ zoom[s] = None \/ zoom[s] \in PanesOf(s)
           /\ revision[s] \in Nat /\ revision[s] + 1 \in Nat /\ revision[s] + 1 > revision[s]
  <1>1. layout[s] \in Seq(Terminal) /\ revision[s] \in Nat
    BY DEF RegistryInv, Types
  <1>2. s \in Live <=> PanesOf(s) # {}
    BY <1>1, Members DEF Live, PanesOf
  <1> QED BY <1>1, <1>2 DEF RegistryInv, Sessions, Placement

\* A swap of neighbours is a rearrangement.
LEMMA SwapsRearrange ==
    ASSUME RegistryInv, NEW s \in Session, NEW panes \in Swaps(s) \cup {layout[s]}
    PROVE  panes \in Seq(Terminal) /\ IsInjective(panes) /\ ToSet(panes) = PanesOf(s)
  <1>0. layout[s] \in Seq(Terminal) /\ IsInjective(layout[s]) /\ PanesOf(s) = ToSet(layout[s])
    BY LiveSession DEF PanesOf
  <1>1. CASE panes = layout[s]
    BY <1>0, <1>1
  <1>2. CASE panes \in Swaps(s)
    <2>1. PICK i \in DOMAIN layout[s] : panes = Swapped(s, i)
      BY <1>2 DEF Swaps
    <2>2. Len(layout[s]) \in Nat /\ i \in 1..Len(layout[s])
      BY <1>0, <2>1, Members
    <2>3. PICK j : j = (i % Len(layout[s])) + 1
      OBVIOUS
    <2>4. j \in 1..Len(layout[s])
      <3>1. PICK l \in Nat : l = Len(layout[s])
        BY <2>2
      <3>2. i % l \in 0..(l - 1)
        BY <2>2, <3>1
      <3> QED BY <2>3, <3>1, <3>2
    <2>5. panes = [layout[s] EXCEPT ![i] = layout[s][j], ![j] = layout[s][i]]
      BY <2>1, <2>3 DEF Swapped
    <2> QED BY <1>0, <2>2, <2>4, <2>5, Exchanged
  <1> QED BY <1>1, <1>2

\* rename, update_view, resize_layout, set_view_zoom and resize_view.
LEMMA EditSteps ==
    ASSUME RegistryInv, NEW s \in Session, EditView(s)
    PROVE  RegistryInv' /\ Frozen
  <1>0. Types /\ Reserved /\ TypeOK
    BY DEF RegistryInv
  <1>1. /\ PanesOf(s) = ToSet(layout[s]) /\ layout[s] \in Seq(Terminal) /\ IsInjective(layout[s])
        /\ zoom[s] = None \/ zoom[s] \in PanesOf(s)
        /\ revision[s] \in Nat /\ revision[s] + 1 \in Nat /\ revision[s] + 1 > revision[s]
    BY LiveSession DEF PanesOf
  <1>2. ASSUME Edit(s)
        PROVE  /\ name[s] \in Name /\ UNCHANGED <<terminalVars, used, closing>>
               /\ pending' \subseteq Name /\ nextAutomatic' \in 1..(MaxName + 1) /\ Reserved'
               /\ job' \in [Client -> [op : Op, name : Name \cup {None}, target : Terminal \cup {None}]]
    BY <1>0, <1>2, LiveSession DEF Edit, Types, Reserved, names
  <1>3. /\ layout = [layout EXCEPT ![s] = layout[s]] /\ zoom = [zoom EXCEPT ![s] = zoom[s]]
        /\ name = [name EXCEPT ![s] = name[s]] /\ revision = [revision EXCEPT ![s] = revision[s]]
    BY <1>0 DEF Types
  <1>4. ASSUME NEW n \in Name, RenameSession(s, n) PROVE RegistryInv' /\ Frozen
    <2>1. Edit(s) /\ PublishViews({s})
      BY <1>4 DEF RenameSession
    <2>2. Rearranges(s, layout[s], zoom[s], n, revision[s] + 1)
      BY <1>1, <1>2, <1>3, <1>4, <2>1 DEF RenameSession, Rearranges
    <2> QED BY <1>2, <2>1, <2>2, Rearranged
  <1>5. ASSUME NEW panes \in [DOMAIN layout[s] -> Terminal], NEW fits \in BOOLEAN, UpdateView(s, panes, fits)
        PROVE  RegistryInv' /\ Frozen
    <2>1. Edit(s) /\ (PublishViews({s}) \/ published' = published)
      BY <1>5 DEF UpdateView, Reflow
    <2>2. panes \in Seq(Terminal)
      <3>1. Len(layout[s]) \in Nat /\ DOMAIN layout[s] = 1..Len(layout[s])
        BY <1>1, Members
      <3> QED BY <3>1
    <2>3. Len(panes) = Len(layout[s]) /\ ToSet(panes) = PanesOf(s)
      BY <1>5 DEF UpdateView
    <2>4. IsInjective(panes)
      BY <1>1, <2>2, <2>3, Reordered
    <2>5. Rearranges(s, panes, None, name[s], revision[s] + 1)
      BY <1>1, <1>2, <1>3, <1>5, <2>1, <2>2, <2>3, <2>4 DEF UpdateView, Arrange, Rearranges
    <2> QED BY <1>2, <2>1, <2>5, Rearranged
  <1>6. ASSUME NEW panes \in Swaps(s) \cup {layout[s]}, NEW fits \in BOOLEAN, ResizeLayout(s, panes, fits)
        PROVE  RegistryInv' /\ Frozen
    <2>1. Edit(s) /\ PublishViews({s})
      BY <1>6 DEF ResizeLayout
    <2>2. panes \in Seq(Terminal) /\ IsInjective(panes) /\ ToSet(panes) = PanesOf(s)
      BY SwapsRearrange
    <2>3. CASE fits
      <3>1. Rearranges(s, panes, None, name[s], revision[s] + 1)
        BY <1>1, <1>2, <1>3, <1>6, <2>1, <2>2, <2>3 DEF ResizeLayout, Arrange, Rearranges
      <3> QED BY <1>2, <2>1, <3>1, Rearranged
    <2>4. CASE ~fits
      <3>1. Rearranges(s, layout[s], zoom[s], name[s], revision[s])
        BY <1>1, <1>2, <1>3, <1>6, <2>1, <2>4 DEF ResizeLayout, Rearranges
      <3> QED BY <1>2, <2>1, <3>1, Rearranged
    <2> QED BY <2>3, <2>4
  <1>7. ASSUME NEW t \in Terminal \cup {None}, NEW fits \in BOOLEAN, SetViewZoom(s, t, fits)
        PROVE  RegistryInv' /\ Frozen
    <2>1. Edit(s) /\ PublishViews({s}) /\ (t = None \/ t \in PanesOf(s))
      BY <1>7 DEF SetViewZoom
    <2>3. CASE fits
      <3>1. Rearranges(s, layout[s], t, name[s], revision[s] + 1)
        BY <1>1, <1>2, <1>3, <1>7, <2>1, <2>3 DEF SetViewZoom, Arrange, Rearranges
      <3> QED BY <1>2, <2>1, <3>1, Rearranged
    <2>4. CASE ~fits
      <3>1. Rearranges(s, layout[s], zoom[s], name[s], revision[s])
        BY <1>1, <1>2, <1>3, <1>7, <2>1, <2>4 DEF SetViewZoom, Rearranges
      <3> QED BY <1>2, <2>1, <3>1, Rearranged
    <2> QED BY <2>3, <2>4
  <1>8. ASSUME ResizeView(s) PROVE RegistryInv' /\ Frozen
    <2>1. Edit(s) /\ PublishViews({s})
      BY <1>8 DEF ResizeView
    <2>2. Rearranges(s, layout[s], zoom[s], name[s], revision[s] + 1)
      BY <1>1, <1>2, <1>3, <1>8, <2>1 DEF ResizeView, Rearranges
    <2> QED BY <1>2, <2>1, <2>2, Rearranged
  <1> QED BY <1>4, <1>5, <1>6, <1>7, <1>8 DEF EditView

\* A break of a pane that is put back.
LEMMA UndoneBreak ==
    ASSUME RegistryInv, NEW c \in Client, UndoBreak(c)
    PROVE  RegistryInv' /\ Frozen
  <1>0. Types /\ Placement
    BY DEF RegistryInv
  <1>1. PICK s : s = owner[job[c].target]
    OBVIOUS
  <1>2. s \in Session /\ PanesOf(s) # {}
    BY <1>0, <1>1 DEF UndoBreak, CanBreak, CanPromote, Placement
  <1>3. s \in Live /\ name[s] \in Name
    BY <1>2, LiveSession
  <1>4. PICK j : j = [job[c] EXCEPT !.op = "failed"]
    OBVIOUS
  <1>5. j \in [op : Op, name : Name \cup {None}, target : Terminal \cup {None}] /\ j.op = "failed"
    BY <1>0, <1>4 DEF Op, Types
  <1>6. job' = [job EXCEPT ![c] = j]
    BY <1>0, <1>4 DEF UndoBreak, Types
  <1>7. pending' \subseteq Name /\ nextAutomatic' \in 1..(MaxName + 1)
    BY <1>0 DEF UndoBreak, names, Types
  <1>8. Reserved' /\ job' \in [Client -> [op : Op, name : Name \cup {None}, target : Terminal \cup {None}]]
    BY <1>5, <1>6, <1>7, JobChanged
  <1>9. Rearranges(s, layout[s], zoom[s], name[s], revision[s])
    <2>1. /\ layout = [layout EXCEPT ![s] = layout[s]] /\ zoom = [zoom EXCEPT ![s] = zoom[s]]
          /\ name = [name EXCEPT ![s] = name[s]] /\ revision = [revision EXCEPT ![s] = revision[s]]
      BY <1>0, <1>2 DEF Types
    <2>2. /\ PanesOf(s) = ToSet(layout[s]) /\ layout[s] \in Seq(Terminal) /\ IsInjective(layout[s])
          /\ zoom[s] = None \/ zoom[s] \in PanesOf(s)
          /\ revision[s] \in Nat
      BY <1>2, LiveSession DEF PanesOf
    <2> QED BY <1>3, <2>1, <2>2 DEF UndoBreak, sessionVars, Rearranges
  <1>10. PublishViews({s})
    BY <1>1 DEF UndoBreak
  <1> QED BY <1>2, <1>7, <1>8, <1>9, <1>10, Rearranged

(***************************************************************************)
(* Steps that bring, move or remove terminals.                              *)
(***************************************************************************)
\* The place of a pane in the layout of its session.
LEMMA Placed ==
    ASSUME RegistryInv, NEW s \in Session, NEW t \in PanesOf(s)
    PROVE  /\ Position(s, t) \in 1..Len(layout[s]) /\ layout[s][Position(s, t)] = t
           /\ Len(layout[s]) \in Nat
  <1>1. layout[s] \in Seq(Terminal)
    BY LiveSession
  <1>2. Len(layout[s]) \in Nat /\ DOMAIN layout[s] = 1..Len(layout[s])
    BY <1>1, Members
  <1>3. \E i \in DOMAIN layout[s] : layout[s][i] = t
    BY DEF PanesOf, ToSet
  <1> QED BY <1>2, <1>3 DEF Position

\* A layout without one of its panes.
LEMMA WithoutPane ==
    ASSUME RegistryInv, NEW s \in Session, NEW t \in PanesOf(s)
    PROVE  /\ Without(s, t) \in Seq(Terminal) /\ IsInjective(Without(s, t))
           /\ ToSet(Without(s, t)) = PanesOf(s) \ {t}
  <1>1. layout[s] \in Seq(Terminal) /\ IsInjective(layout[s])
    BY LiveSession
  <1>2. PICK i \in 1..Len(layout[s]) : i = Position(s, t) /\ layout[s][i] = t
    BY Placed
  <1> QED BY <1>1, <1>2, Removed DEF Without, PanesOf

\* A session that was never created has no panes, and a terminal that has
\* never run is in none.
LEMMA NeverUsed ==
    ASSUME RegistryInv
    PROVE  /\ \A s \in Session \ used : PanesOf(s) = {} /\ s \notin closing /\ zoom[s] = None
           /\ \A t \in Terminal : life[t] = "none" =>
                 t \notin terminals /\ published[t] = None /\ \A s \in Session : t \notin PanesOf(s)
  BY DEF RegistryInv, Sessions, Placement, Absent

\* A managed terminal is alone: nothing else is in its session.
LEMMA ManagedAlone ==
    ASSUME RegistryInv, NEW s \in Session, NEW t \in PanesOf(s), t \notin Managed
    PROVE  PanesOf(s) \cap Managed = {}
  <1> SUFFICES ASSUME NEW m \in PanesOf(s), m \in Managed PROVE FALSE
    OBVIOUS
  <1>1. m \in terminals /\ owner[m] = s
    BY DEF RegistryInv, Placement
  <1>2. PanesOf(s) = {m}
    BY <1>1 DEF RegistryInv, Placement
  <1> QED BY <1>2

\* The request that is done.
LEMMA JobDone ==
    ASSUME RegistryInv, NEW c \in Client, job' = [job EXCEPT ![c] = Idle],
           pending' = pending \ {job[c].name}, nextAutomatic' = nextAutomatic
    PROVE  /\ Reserved' /\ pending' \subseteq Name /\ nextAutomatic' \in 1..(MaxName + 1)
           /\ job' \in [Client -> [op : Op, name : Name \cup {None}, target : Terminal \cup {None}]]
  <1>1. pending' \subseteq Name /\ nextAutomatic' \in 1..(MaxName + 1)
    BY DEF RegistryInv, Types
  <1>2. Idle \in [op : Op, name : Name \cup {None}, target : Terminal \cup {None}] /\ Idle.op = "idle"
    BY DEF Idle, Op
  <1> QED BY <1>1, <1>2, JobChanged

\* No panes.
LEMMA NoPane == <<>> \in Seq(Terminal) /\ ToSet(<<>>) = {} /\ IsInjective(<<>>)
  BY DEF IsInjective, ToSet

\* One pane by itself.
LEMMA OnePane ==
    ASSUME NEW t \in Terminal
    PROVE  <<t>> \in Seq(Terminal) /\ IsInjective(<<t>>) /\ ToSet(<<t>>) = {t}
  BY DEF IsInjective, ToSet

\* commit of a new session.
LEMMA CreateStep ==
    ASSUME RegistryInv, NEW c \in Client, NEW t \in Terminal, NEW s \in Session, CommitCreate(c, t, s)
    PROVE  RegistryInv' /\ Frozen
  <1>0. Types /\ Placement /\ Sessions /\ Absent /\ TypeOK
    BY DEF RegistryInv
  <1>1. /\ s \notin used /\ PanesOf(s) = {} /\ s \notin closing /\ zoom[s] = None
        /\ t \notin terminals /\ \A q \in Session : t \notin PanesOf(q)
    BY NeverUsed DEF CommitCreate, AddSession
  <1>2. PICK n \in Name : n = job[c].name
    BY DEF RegistryInv, Reserved, CommitCreate
  <1>3. /\ terminals' = terminals \cup {t} /\ owner' = [owner EXCEPT ![t] = s]
        /\ life' = [life EXCEPT ![t] = "running"] /\ used' = used \cup {s}
        /\ layout' = [layout EXCEPT ![s] = <<t>>] /\ name' = [name EXCEPT ![s] = n]
        /\ UNCHANGED <<closing, zoom, revision, published, nextAutomatic>>
    BY <1>2 DEF CommitCreate, AddSession
  <1>4. /\ Reserved' /\ pending' \subseteq Name /\ nextAutomatic' \in 1..(MaxName + 1)
        /\ job' \in [Client -> [op : Op, name : Name \cup {None}, target : Terminal \cup {None}]]
    BY <1>3, JobDone DEF CommitCreate, AddSession
  <1>5. PICK panes \in Seq(Terminal) : panes = <<t>> /\ IsInjective(panes) /\ ToSet(panes) = {t}
    BY OnePane
  <1>6. layout' = [layout EXCEPT ![s] = panes]
    BY <1>3, <1>5
  <1>7. Types'
    BY <1>0, <1>3, <1>4, <1>6 DEF Types
  <1>8. /\ \A q \in Session \ {s} : Same(q)
        /\ layout'[s] = panes /\ name'[s] = n
        /\ owner'[t] = s /\ \A x \in Terminal \ {t} : owner'[x] = owner[x]
    BY <1>0, <1>3, <1>6 DEF Types, Same
  <1>9. /\ \A q \in Session \ {s} : NextPanes(q) = PanesOf(q)
        /\ NextPanes(s) = {t}
    BY <1>5, <1>8 DEF Same, NextPanes, PanesOf
  <1>10. Placement'
    <2>a. \A x \in terminals : owner'[x] = owner[x] /\ owner[x] \in Session /\ x \in PanesOf(owner[x])
      BY <1>0, <1>1, <1>8 DEF Placement, Types
    <2>b. \A q \in Session : \A x \in PanesOf(q) : x \in terminals /\ owner'[x] = q
      BY <1>0, <2>a DEF Placement
    <2>1. \A x \in terminals' : owner'[x] \in Session /\ x \in NextPanes(owner'[x])
      BY <1>1, <1>3, <1>8, <1>9, <2>a
    <2>2. \A q \in Session : \A x \in NextPanes(q) : x \in terminals' /\ owner'[x] = q
      BY <1>3, <1>8, <1>9, <2>b
    <2>3. \A q \in Session : IsInjective(layout'[q])
      BY <1>0, <1>5, <1>8 DEF Placement, Same
    <2>4. \A q \in Session : zoom'[q] # None => zoom'[q] \in NextPanes(q)
      BY <1>0, <1>1, <1>3, <1>9 DEF Placement
    <2>5. \A x \in terminals' \cap Managed : NextPanes(owner'[x]) = {x}
      BY <1>0, <1>1, <1>3, <1>8, <1>9 DEF Placement, Types
    <2> QED BY <2>1, <2>2, <2>3, <2>4, <2>5 DEF Placement, NextPanes, PanesOf
  <1>11. Sessions'
    <2>1. \A q \in Session : NextPanes(q) # {} => q \in used' /\ name'[q] \in Name
      BY <1>0, <1>3, <1>8, <1>9 DEF Sessions, Same
    <2>2. \A q \in closing' : NextPanes(q) # {}
      BY <1>0, <1>3, <1>9 DEF Sessions, Types
    <2> QED BY <2>1, <2>2 DEF Sessions, NextPanes, PanesOf
  <1>12. Progress({})
    <2>1. \A q \in used : PanesOf(q) = {} => NextPanes(q) = {}
      BY <1>0, <1>1, <1>9 DEF Types
    <2>2. \A q \in Session : PanesOf(q) # {} => Same(q)
      BY <1>1, <1>8
    <2>3. \A x \in terminals : owner'[x] = owner[x]
      BY <1>0, <1>1, <1>8 DEF Types
    <2> QED BY <1>3, <2>1, <2>2, <2>3 DEF Progress
  <1>13. Republished({}) /\ published' = [x \in Terminal |-> published'[x]]
    <2>1. terminals' \subseteq Terminal /\ \A x \in Terminal \ terminals' : published[x] = None
      BY <1>0, <1>3 DEF Types, Absent
    <2> QED BY <1>0, <1>3, <2>1, Silence
  <1>14. \A x \in terminals' : life'[x] # "none"
    BY <1>0, <1>3 DEF Absent, Types
  <1>15. RegistryInv'
    BY <1>4, <1>7, <1>10, <1>11, <1>12, <1>13, <1>14, Kept
  <1>16. Frozen
    <2>1. \A q \in closing : q \in Session /\ q # s
      BY <1>0, <1>1 DEF Types
    <2>2. \A q \in Session \ {s} : \A x \in PanesOf(q) : owner'[x] = q
      BY <1>0, <1>1, <1>8 DEF Placement, Types
    <2> QED BY <1>9, <2>1, <2>2 DEF Frozen
  <1> QED BY <1>15, <1>16

\* commit of a split, whose plan is made again.
LEMMA SplitStep ==
    ASSUME RegistryInv, NEW c \in Client, NEW t \in Terminal, NEW fits \in BOOLEAN, CommitSplit(c, t, fits)
    PROVE  RegistryInv' /\ Frozen
  <1>0. Types /\ Placement /\ Sessions /\ Absent /\ TypeOK
    BY DEF RegistryInv
  <1>1. t \notin Managed /\ t \notin terminals /\ \A q \in Session : t \notin PanesOf(q)
    BY NeverUsed DEF CommitSplit
  <1>2. job[c] \in [op : Op, name : Name \cup {None}, target : Terminal \cup {None}]
    BY <1>0 DEF Types
  <1>3. PICK j \in {Idle, [job[c] EXCEPT !.op = "dropping"]} : job' = [job EXCEPT ![c] = j]
    BY <1>0, <1>2 DEF CommitSplit, Types
  <1>4. /\ j \in [op : Op, name : Name \cup {None}, target : Terminal \cup {None}]
        /\ j.op \in {"idle", "dropping"}
    BY <1>2, <1>3 DEF Idle, Op
  <1>5. pending' \subseteq Name /\ nextAutomatic' \in 1..(MaxName + 1)
    BY <1>0 DEF CommitSplit, Types
  <1>6. /\ Reserved' /\ (UNCHANGED <<terminalVars, sessionVars>> => Types')
        /\ job' \in [Client -> [op : Op, name : Name \cup {None}, target : Terminal \cup {None}]]
    BY <1>3, <1>4, <1>5, JobChanged
  <1>7. CASE ~CanSplit(job[c].target)
    <2>1. UNCHANGED <<terminalVars, sessionVars, published>>
      BY <1>7 DEF CommitSplit
    <2> QED BY <1>6, <2>1, Quiet
  <1>8. CASE CanSplit(job[c].target)
    <2>1. PICK target : target = job[c].target
      OBVIOUS
    <2>2. PICK s : s = owner[target]
      OBVIOUS
    <2>3. /\ target \in terminals /\ target \notin Managed /\ s \notin closing
          /\ s \in Session /\ target \in PanesOf(s)
      BY <1>0, <1>8, <2>1, <2>2 DEF CanSplit, Placement
    <2>4. PICK panes : panes = InsertAt(layout[s], Position(s, target) + 1, t)
      OBVIOUS
    <2>5. panes \in Seq(Terminal) /\ IsInjective(panes) /\ ToSet(panes) = PanesOf(s) \cup {t}
      <3>1. layout[s] \in Seq(Terminal) /\ IsInjective(layout[s]) /\ t \notin ToSet(layout[s])
        BY <1>1, <2>3, LiveSession DEF PanesOf
      <3>2. PICK i : i = Position(s, target) + 1
        OBVIOUS
      <3>3. i \in 1..(Len(layout[s]) + 1)
        BY <2>3, <3>2, Placed
      <3> QED BY <2>4, <3>1, <3>2, <3>3, Inserted DEF PanesOf
    <2>6. Place(c, t, fits)
      BY <1>8 DEF CommitSplit
    <2>7. /\ layout' = [layout EXCEPT ![s] = panes]
          /\ zoom' = [zoom EXCEPT ![s] = None]
          /\ revision' = [revision EXCEPT ![s] = @ + 1]
          /\ owner' = [owner EXCEPT ![t] = s]
          /\ terminals' = terminals \cup {t}
          /\ life' = [life EXCEPT ![t] = "running"]
          /\ UNCHANGED <<used, name, closing>>
          /\ PublishViews({s}) \/ published' = published
      BY <2>1, <2>2, <2>4, <2>6 DEF Place, Arrange, Reflow
    <2>8. Types'
      BY <1>0, <1>5, <1>6, <2>3, <2>5, <2>7 DEF Types
    <2>9. /\ \A q \in Session \ {s} : Same(q)
          /\ layout'[s] = panes /\ name'[s] = name[s] /\ zoom'[s] = None
          /\ revision'[s] > revision[s]
          /\ owner'[t] = s /\ \A x \in Terminal \ {t} : owner'[x] = owner[x]
      BY <1>0, <2>3, <2>7 DEF Types, Same
    <2>10. /\ \A q \in Session \ {s} : NextPanes(q) = PanesOf(q)
           /\ NextPanes(s) = PanesOf(s) \cup {t}
      BY <2>5, <2>9 DEF Same, NextPanes, PanesOf
    <2>11. PanesOf(s) \cap Managed = {}
      BY <2>3, ManagedAlone
    <2>12. Placement'
      <3>a. \A x \in terminals : owner'[x] = owner[x] /\ owner[x] \in Session /\ x \in PanesOf(owner[x])
        BY <1>0, <1>1, <2>9 DEF Placement, Types
      <3>b. \A q \in Session : \A x \in PanesOf(q) : x \in terminals /\ owner'[x] = q
        BY <1>0, <3>a DEF Placement
      <3>1. \A x \in terminals' : owner'[x] \in Session /\ x \in NextPanes(owner'[x])
        BY <2>3, <2>7, <2>9, <2>10, <3>a
      <3>2. \A q \in Session : \A x \in NextPanes(q) : x \in terminals' /\ owner'[x] = q
        BY <2>7, <2>9, <2>10, <3>b
      <3>3. \A q \in Session : IsInjective(layout'[q])
        BY <1>0, <2>5, <2>9 DEF Placement, Same
      <3>4. \A q \in Session : zoom'[q] # None => zoom'[q] \in NextPanes(q)
        BY <1>0, <2>9, <2>10 DEF Placement, Same
      <3>5. ASSUME NEW x \in terminals', x \in Managed PROVE NextPanes(owner'[x]) = {x}
        <4>1. x \in terminals /\ x \in Terminal /\ owner'[x] = owner[x]
          BY <1>0, <1>1, <2>7, <2>9, <3>5 DEF Types
        <4>2. PanesOf(owner[x]) = {x} /\ owner[x] \in Session /\ owner[x] # s
          BY <1>0, <2>11, <3>5, <4>1 DEF Placement
        <4> QED BY <2>10, <4>1, <4>2
      <3> QED BY <3>1, <3>2, <3>3, <3>4, <3>5 DEF Placement, NextPanes, PanesOf
    <2>13. Sessions'
      <3>1. \A q \in Session : NextPanes(q) # {} => q \in used' /\ name'[q] \in Name
        BY <1>0, <2>3, <2>7, <2>9, <2>10 DEF Sessions, Same
      <3>2. \A q \in closing' : NextPanes(q) # {}
        BY <1>0, <2>7, <2>10 DEF Sessions, Types
      <3> QED BY <3>1, <3>2 DEF Sessions, NextPanes, PanesOf
    <2>14. ASSUME NEW S PROVE Progress(S)
      <3>1. \A q \in used : PanesOf(q) = {} => NextPanes(q) = {}
        BY <1>0, <2>3, <2>10 DEF Types
      <3>2. \A q \in Session : Same(q) \/ revision'[q] > revision[q]
        BY <2>9
      <3>3. \A x \in terminals : owner'[x] = owner[x]
        BY <1>0, <1>1, <2>9 DEF Types
      <3> QED BY <2>7, <3>1, <3>2, <3>3 DEF Progress
    <2>15. \A x \in terminals' : life'[x] # "none"
      BY <1>0, <2>7 DEF Absent, Types
    <2>16. RegistryInv'
      <3>1. CASE PublishViews({s})
        <4>1. Republished({s}) /\ published' = [x \in Terminal |-> published'[x]]
          BY <2>3, <2>8, <2>12, <3>1, Publishing
        <4> QED BY <1>6, <2>3, <2>8, <2>12, <2>13, <2>14, <2>15, <4>1, Kept
      <3>2. CASE published' = published
        <4>1. terminals' \subseteq Terminal /\ \A x \in Terminal \ terminals' : published[x] = None
          BY <1>0, <2>7 DEF Types, Absent
        <4>2. Republished({}) /\ published' = [x \in Terminal |-> published'[x]]
          BY <1>0, <3>2, <4>1, Silence
        <4> QED BY <1>6, <2>8, <2>12, <2>13, <2>14, <2>15, <4>2, Kept
      <3> QED BY <2>7, <3>1, <3>2
    <2>17. Frozen
      <3>1. \A q \in closing : q \in Session /\ q # s
        BY <1>0, <2>3 DEF Types
      <3>2. \A q \in Session : \A x \in PanesOf(q) : owner'[x] = q
        BY <1>0, <1>1, <2>9 DEF Placement, Types
      <3> QED BY <2>10, <3>1, <3>2 DEF Frozen
    <2> QED BY <2>16, <2>17
  <1> QED BY <1>7, <1>8

\* promote_terminal and break_pane: terminal t leaves session old for the new
\* session s, and S are the sessions whose views are published.
LEMMA MoveStep ==
    ASSUME RegistryInv, NEW c \in Client, NEW t, NEW old, NEW s \in Session, NEW S \in SUBSET Session,
           t = job[c].target, old = owner[t], job[c].op = "moving",
           CanPromote(t), MoveTo(c, t, old, s), s \in S, PublishViews(S)
    PROVE  RegistryInv' /\ Frozen
  <1>0. Types /\ Placement /\ Sessions /\ Absent /\ TypeOK
    BY DEF RegistryInv
  <1>1. /\ t \in terminals /\ t \notin Managed /\ old \notin closing /\ t \in Terminal
        /\ old \in Session /\ t \in PanesOf(old) /\ Len(layout[old]) > 1
    BY <1>0 DEF CanPromote, Placement, Types
  <1>2. s \notin used /\ PanesOf(s) = {} /\ s \notin closing /\ zoom[s] = None /\ s # old
    BY <1>1, NeverUsed DEF MoveTo, AddSession
  <1>3. PICK n \in Name : n = job[c].name
    BY DEF RegistryInv, Reserved
  <1>4. PICK rest : rest = Without(old, t)
    OBVIOUS
  <1>5. rest \in Seq(Terminal) /\ IsInjective(rest) /\ ToSet(rest) = PanesOf(old) \ {t}
    BY <1>1, <1>4, WithoutPane
  <1>6. PanesOf(old) \ {t} # {}
    <2>1. SUFFICES ASSUME ToSet(layout[old]) = {t} PROVE FALSE
      BY <1>1 DEF PanesOf
    <2>2. layout[old] \in Seq(Terminal) /\ IsInjective(layout[old])
      BY <1>1, LiveSession
    <2>3. Len(layout[old]) = 1
      BY <2>1, <2>2, Single
    <2> QED BY <1>1, <2>3
  <1>7. PICK panes \in Seq(Terminal) : panes = <<t>> /\ IsInjective(panes) /\ ToSet(panes) = {t}
    BY <1>1, OnePane
  <1>8. /\ owner' = [owner EXCEPT ![t] = s] /\ used' = used \cup {s}
        /\ layout' = [layout EXCEPT ![old] = rest, ![s] = panes]
        /\ zoom' = [zoom EXCEPT ![old] = None]
        /\ revision' = [revision EXCEPT ![old] = @ + 1]
        /\ name' = [name EXCEPT ![s] = n]
        /\ UNCHANGED <<terminals, life, closing, nextAutomatic>>
    BY <1>3, <1>4, <1>7 DEF MoveTo, AddSession
  <1>9. /\ Reserved' /\ pending' \subseteq Name /\ nextAutomatic' \in 1..(MaxName + 1)
        /\ job' \in [Client -> [op : Op, name : Name \cup {None}, target : Terminal \cup {None}]]
    BY <1>8, JobDone DEF MoveTo, AddSession
  <1>10. Types'
    <2>1. layout \in [Session -> Seq(Terminal)] /\ layout' = [layout EXCEPT ![old] = rest, ![s] = panes]
      BY <1>0, <1>8 DEF Types
    <2>2. layout' \in [Session -> Seq(Terminal)]
      BY <1>5, <1>7, <2>1
    <2>3. /\ owner' \in [Terminal -> Session \cup {None}] /\ zoom' \in [Session -> Terminal \cup {None}]
          /\ name' \in [Session -> Name \cup {None}] /\ revision' \in [Session -> Nat]
      BY <1>0, <1>1, <1>8 DEF Types
    <2>4. terminals' \subseteq Terminal /\ used' \subseteq Session /\ closing' \subseteq Session
      BY <1>0, <1>8 DEF Types
    <2>5. life' \in [Terminal -> {"none", "running", "ended"}]
      BY <1>0, <1>8 DEF Types
    <2> QED BY <1>9, <2>2, <2>3, <2>4, <2>5 DEF Types
  <1>11. /\ \A q \in Session \ {s, old} : Same(q)
         /\ layout'[s] = panes /\ name'[s] = n /\ zoom'[s] = None
         /\ layout'[old] = rest /\ name'[old] = name[old] /\ zoom'[old] = None
         /\ revision'[old] > revision[old]
    BY <1>0, <1>1, <1>2, <1>8 DEF Types, Same
  <1>12. owner'[t] = s /\ \A x \in Terminal \ {t} : owner'[x] = owner[x]
    BY <1>0, <1>1, <1>8 DEF Types
  <1>13. /\ \A q \in Session \ {s, old} : NextPanes(q) = PanesOf(q)
         /\ NextPanes(s) = {t} /\ NextPanes(old) = PanesOf(old) \ {t}
    BY <1>5, <1>7, <1>11 DEF Same, NextPanes, PanesOf
  <1>14. PanesOf(old) \cap Managed = {}
    BY <1>1, ManagedAlone
  <1>15. \A x \in terminals \ {t} : /\ x \in Terminal /\ owner'[x] = owner[x] /\ owner[x] \in Session
                                    /\ x \in PanesOf(owner[x]) /\ owner[x] # s
    BY <1>0, <1>2, <1>12 DEF Placement, Types
  <1>16. \A q \in Session : \A x \in PanesOf(q) : x \in terminals /\ owner[x] = q
    BY <1>0 DEF Placement
  <1>17. Placement'
    <2>1. \A x \in terminals' : owner'[x] \in Session /\ x \in NextPanes(owner'[x])
      BY <1>8, <1>12, <1>13, <1>15
    <2>2. \A q \in Session : \A x \in NextPanes(q) : x \in terminals' /\ owner'[x] = q
      <3>1. ASSUME NEW q \in Session \ {s}, NEW x \in NextPanes(q) PROVE x \in PanesOf(q) /\ x # t
        BY <1>1, <1>13, <1>16, <3>1
      <3> QED BY <1>1, <1>8, <1>12, <1>13, <1>15, <1>16, <3>1
    <2>3. \A q \in Session : IsInjective(layout'[q])
      BY <1>0, <1>5, <1>7, <1>11 DEF Placement, Same
    <2>4. \A q \in Session : zoom'[q] # None => zoom'[q] \in NextPanes(q)
      BY <1>0, <1>11, <1>13 DEF Placement, Same
    <2>5. ASSUME NEW x \in terminals', x \in Managed PROVE NextPanes(owner'[x]) = {x}
      <3>1. x \in terminals \ {t}
        BY <1>1, <1>8, <2>5
      <3>2. PanesOf(owner[x]) = {x} /\ owner[x] # old
        BY <1>0, <1>14, <2>5, <3>1 DEF Placement
      <3> QED BY <1>13, <1>15, <3>1, <3>2
    <2> QED BY <2>1, <2>2, <2>3, <2>4, <2>5 DEF Placement, NextPanes, PanesOf
  <1>18. Sessions'
    <2>1. \A q \in Session : NextPanes(q) # {} => q \in used' /\ name'[q] \in Name
      BY <1>0, <1>1, <1>8, <1>11, <1>13 DEF Sessions, Same
    <2>2. \A q \in closing' : NextPanes(q) # {}
      BY <1>0, <1>1, <1>2, <1>8, <1>13 DEF Sessions, Types
    <2> QED BY <2>1, <2>2 DEF Sessions, NextPanes, PanesOf
  <1>19. Progress(S)
    <2>1. \A q \in used : PanesOf(q) = {} => NextPanes(q) = {}
      BY <1>0, <1>1, <1>2, <1>13 DEF Types
    <2>2. \A q \in Session : PanesOf(q) # {} => Same(q) \/ revision'[q] > revision[q]
      BY <1>2, <1>11
    <2>3. \A x \in terminals : owner'[x] # owner[x] => owner'[x] \notin used /\ owner'[x] \in S
      BY <1>2, <1>12, <1>15
    <2> QED BY <1>8, <2>1, <2>2, <2>3 DEF Progress
  <1>20. Republished(S) /\ published' = [x \in Terminal |-> published'[x]]
    BY <1>10, <1>17, Publishing
  <1>21. \A x \in terminals' : life'[x] # "none"
    BY <1>0, <1>8 DEF Absent
  <1>22. RegistryInv'
    BY <1>9, <1>10, <1>17, <1>18, <1>19, <1>20, <1>21, Kept
  <1>23. Frozen
    <2>1. \A q \in closing : q \in Session \ {s, old}
      BY <1>0, <1>1, <1>2 DEF Types
    <2>2. \A q \in Session \ {s, old} : \A x \in PanesOf(q) : owner'[x] = q
      BY <1>15, <1>16
    <2> QED BY <1>13, <2>1, <2>2 DEF Frozen
  <1> QED BY <1>22, <1>23

\* merge_sessions
LEMMA MergeStep ==
    ASSUME RegistryInv, NEW source \in Session, NEW destination \in Session, NEW fits \in BOOLEAN,
           MergeSessions(source, destination, fits)
    PROVE  RegistryInv' /\ Frozen
  <1>0. Types /\ Placement /\ Sessions /\ Absent /\ TypeOK /\ Reserved
    BY DEF RegistryInv
  <1>1. /\ source # destination /\ source \notin closing /\ destination \notin closing
        /\ PanesOf(source) # {} /\ PanesOf(destination) # {}
        /\ PanesOf(source) \cap Managed = {} /\ PanesOf(destination) \cap Managed = {}
    BY LiveSession DEF MergeSessions, CanMerge, HasManaged
  <1>2. PICK panes : panes = layout[destination] \o layout[source]
    OBVIOUS
  <1>3. \A q \in Session : \A x \in PanesOf(q) : x \in terminals /\ x \in Terminal /\ owner[x] = q
    BY <1>0 DEF Placement, Types
  <1>4. /\ panes \in Seq(Terminal) /\ IsInjective(panes)
        /\ ToSet(panes) = PanesOf(destination) \cup PanesOf(source)
    <2>1. /\ layout[destination] \in Seq(Terminal) /\ IsInjective(layout[destination])
          /\ layout[source] \in Seq(Terminal) /\ IsInjective(layout[source])
      BY LiveSession
    <2>2. ToSet(layout[destination]) \cap ToSet(layout[source]) = {}
      BY <1>1, <1>3 DEF PanesOf
    <2> QED BY <1>2, <2>1, <2>2, Joined, JoinedMembers DEF PanesOf
  <1>5. /\ layout' = [layout EXCEPT ![source] = <<>>, ![destination] = panes]
        /\ zoom' = [zoom EXCEPT ![source] = None, ![destination] = None]
        /\ revision' = [revision EXCEPT ![source] = 0, ![destination] = @ + 1]
        /\ name' = [name EXCEPT ![source] = None]
        /\ owner' = [x \in Terminal |-> IF x \in PanesOf(source) THEN destination ELSE owner[x]]
        /\ UNCHANGED <<terminals, life, used, closing, pending, nextAutomatic, job>>
        /\ PublishViews({destination}) \/ published' = published
    <2>1. layout' = [layout EXCEPT ![source] = <<>>, ![destination] = panes]
      BY <1>0, <1>1, <1>2 DEF MergeSessions, Types
    <2>2. revision' = [revision EXCEPT ![source] = 0, ![destination] = @ + 1]
      BY DEF MergeSessions
    <2> QED BY <2>1, <2>2 DEF MergeSessions, Reflow, names
  <1>6. Types' /\ Reserved'
    <2>a. /\ layout \in [Session -> Seq(Terminal)] /\ revision \in [Session -> Nat]
          /\ layout' = [layout EXCEPT ![source] = <<>>, ![destination] = panes]
          /\ revision' = [revision EXCEPT ![source] = 0, ![destination] = @ + 1]
      BY <1>0, <1>5 DEF Types
    <2>b. PICK none \in Seq(Terminal) : none = <<>>
      BY NoPane
    <2>c. layout' = [layout EXCEPT ![source] = none, ![destination] = panes]
      BY <2>a, <2>b
    <2>1. layout' \in [Session -> Seq(Terminal)]
      BY <1>4, <2>a, <2>c
    <2>2. owner' \in [Terminal -> Session \cup {None}]
      BY <1>0, <1>5 DEF Types
    <2>3. revision' \in [Session -> Nat]
      <3>1. \A q \in Session : revision'[q] \in Nat
        BY <1>1, <2>a
      <3> QED BY <2>a, <3>1
    <2> QED BY <1>0, <1>5, <2>1, <2>2, <2>3 DEF Types, Reserved
  <1>7. /\ \A q \in Session \ {source, destination} : Same(q)
        /\ layout'[source] = <<>> /\ zoom'[source] = None
        /\ layout'[destination] = panes /\ name'[destination] = name[destination] /\ zoom'[destination] = None
        /\ revision'[destination] > revision[destination]
    BY <1>0, <1>1, <1>5 DEF Types, Same
  <1>8. /\ \A q \in Session \ {source, destination} : NextPanes(q) = PanesOf(q)
        /\ NextPanes(source) = {} /\ NextPanes(destination) = PanesOf(destination) \cup PanesOf(source)
        /\ IsInjective(layout'[source])
    <2>1. ToSet(<<>>) = {} /\ IsInjective(<<>>)
      BY DEF ToSet, IsInjective
    <2> QED BY <1>4, <1>7, <2>1 DEF Same, NextPanes, PanesOf
  <1>9. /\ \A x \in PanesOf(source) : owner'[x] = destination
        /\ \A x \in Terminal \ PanesOf(source) : owner'[x] = owner[x]
    BY <1>3, <1>5
  <1>10. \A x \in terminals : x \in Terminal /\ owner[x] \in Session /\ x \in PanesOf(owner[x])
    BY <1>0 DEF Placement, Types
  <1>11. \A x \in terminals \ PanesOf(source) : owner'[x] = owner[x] /\ owner[x] # source
    BY <1>9, <1>10
  <1>12. Placement'
    <2>1. ASSUME NEW x \in terminals' PROVE owner'[x] \in Session /\ x \in NextPanes(owner'[x])
      <3>1. CASE x \in PanesOf(source)
        BY <1>8, <1>9, <3>1
      <3>2. CASE x \notin PanesOf(source)
        BY <1>5, <1>8, <1>10, <1>11, <3>2
      <3> QED BY <3>1, <3>2
    <2>2. ASSUME NEW q \in Session, NEW x \in NextPanes(q) PROVE x \in terminals' /\ owner'[x] = q
      <3>1. CASE x \in PanesOf(source)
        <4>1. q = destination
          BY <1>1, <1>3, <1>8, <2>2, <3>1
        <4> QED BY <1>3, <1>5, <1>9, <3>1, <4>1
      <3>2. CASE x \notin PanesOf(source)
        <4>1. x \in PanesOf(q)
          BY <1>8, <2>2, <3>2
        <4> QED BY <1>3, <1>5, <1>9, <3>2, <4>1
      <3> QED BY <3>1, <3>2
    <2>3. \A q \in Session : IsInjective(layout'[q])
      BY <1>0, <1>4, <1>7, <1>8 DEF Placement, Same
    <2>4. \A q \in Session : zoom'[q] # None => zoom'[q] \in NextPanes(q)
      BY <1>0, <1>7, <1>8 DEF Placement, Same
    <2>5. ASSUME NEW x \in terminals', x \in Managed PROVE NextPanes(owner'[x]) = {x}
      <3>1. x \in terminals \ PanesOf(source)
        BY <1>1, <1>5, <2>5
      <3>2. PanesOf(owner[x]) = {x} /\ owner[x] # destination
        BY <1>0, <1>1, <1>10, <2>5, <3>1 DEF Placement
      <3> QED BY <1>8, <1>10, <1>11, <3>1, <3>2
    <2> QED BY <2>1, <2>2, <2>3, <2>4, <2>5 DEF Placement, NextPanes, PanesOf
  <1>13. Sessions'
    <2>1. \A q \in Session : NextPanes(q) # {} => q \in used' /\ name'[q] \in Name
      BY <1>0, <1>1, <1>5, <1>7, <1>8 DEF Sessions, Same
    <2>2. \A q \in closing' : NextPanes(q) # {}
      BY <1>0, <1>1, <1>5, <1>8 DEF Sessions, Types
    <2> QED BY <2>1, <2>2 DEF Sessions, NextPanes, PanesOf
  <1>14. ASSUME NEW S PROVE Progress(S)
    <2>1. \A q \in used : PanesOf(q) = {} => NextPanes(q) = {}
      BY <1>0, <1>1, <1>8 DEF Types
    <2>2. \A q \in Session : NextPanes(q) # {} => Same(q) \/ revision'[q] > revision[q]
      BY <1>7, <1>8
    <2>3. ASSUME NEW x \in terminals, owner'[x] # owner[x]
          PROVE  PanesOf(owner'[x]) # {} /\ NextPanes(owner[x]) = {}
      <3>1. x \in PanesOf(source)
        BY <1>11, <2>3
      <3> QED BY <1>1, <1>3, <1>8, <1>9, <3>1
    <2> QED BY <1>5, <2>1, <2>2, <2>3 DEF Progress
  <1>15. \A x \in terminals' : life'[x] # "none"
    BY <1>0, <1>5 DEF Absent
  <1>16. RegistryInv'
    <2>1. CASE PublishViews({destination})
      <3>1. Republished({destination}) /\ published' = [x \in Terminal |-> published'[x]]
        BY <1>6, <1>12, <2>1, Publishing
      <3> QED BY <1>6, <1>12, <1>13, <1>14, <1>15, <3>1, Kept
    <2>2. CASE published' = published
      <3>1. terminals' \subseteq Terminal /\ \A x \in Terminal \ terminals' : published[x] = None
        BY <1>0, <1>5 DEF Types, Absent
      <3>2. Republished({}) /\ published' = [x \in Terminal |-> published'[x]]
        BY <1>0, <2>2, <3>1, Silence
      <3> QED BY <1>6, <1>12, <1>13, <1>14, <1>15, <3>2, Kept
    <2> QED BY <1>5, <2>1, <2>2
  <1>17. Frozen
    <2>1. \A q \in closing : q \in Session \ {source, destination}
      BY <1>0, <1>1 DEF Types
    <2>2. \A q \in Session \ {source, destination} : \A x \in PanesOf(q) : owner'[x] = q
      BY <1>3, <1>9
    <2> QED BY <1>8, <2>1, <2>2 DEF Frozen
  <1> QED BY <1>16, <1>17

\* remove_terminal
LEMMA RemoveStep ==
    ASSUME RegistryInv, NEW t \in Terminal, NEW fits \in BOOLEAN, RemoveTerminal(t, fits)
    PROVE  RegistryInv' /\ Frozen
  <1>0. Types /\ Placement /\ Sessions /\ Absent /\ TypeOK /\ Reserved
    BY DEF RegistryInv
  <1>1. PICK s : s = owner[t]
    OBVIOUS
  <1>2. t \in terminals /\ s \in Session /\ t \in PanesOf(s)
    BY <1>0, <1>1 DEF RemoveTerminal, Placement
  <1>3. PICK rest : rest = Without(s, t)
    OBVIOUS
  <1>4. rest \in Seq(Terminal) /\ IsInjective(rest) /\ ToSet(rest) = PanesOf(s) \ {t}
    BY <1>2, <1>3, WithoutPane
  <1>5. /\ terminals' = terminals \ {t}
        /\ owner' = [owner EXCEPT ![t] = None]
        /\ layout' = [layout EXCEPT ![s] = rest]
        /\ zoom' = [zoom EXCEPT ![s] = None]
        /\ revision' = [revision EXCEPT ![s] = IF rest = <<>> THEN 0 ELSE revision[s] + 1]
        /\ name' = [name EXCEPT ![s] = IF rest = <<>> THEN None ELSE @]
        /\ closing' = IF rest = <<>> THEN closing \ {s} ELSE closing
        /\ UNCHANGED <<life, used, pending, nextAutomatic, job>>
        /\ PublishViews({s}) \/ ForgetView
    BY <1>1, <1>3 DEF RemoveTerminal, Shrink, names
  <1>6. rest = <<>> <=> ToSet(rest) = {}
    BY <1>4, Members
  <1>7. Types' /\ Reserved'
    <2>1. revision[s] \in Nat /\ name[s] \in Name \cup {None}
      BY <1>0, <1>2 DEF Types
    <2> QED BY <1>0, <1>2, <1>4, <1>5, <2>1 DEF Types, Reserved
  <1>8. /\ \A q \in Session \ {s} : Same(q)
        /\ layout'[s] = rest /\ zoom'[s] = None
        /\ rest # <<>> => name'[s] = name[s] /\ revision'[s] > revision[s]
    BY <1>0, <1>2, <1>5 DEF Types, Same
  <1>9. /\ \A q \in Session \ {s} : NextPanes(q) = PanesOf(q)
        /\ NextPanes(s) = PanesOf(s) \ {t}
    BY <1>4, <1>8 DEF Same, NextPanes, PanesOf
  <1>10. \A x \in terminals \ {t} : /\ x \in Terminal /\ owner'[x] = owner[x] /\ owner[x] \in Session
                                    /\ x \in PanesOf(owner[x])
    BY <1>0, <1>5 DEF Placement, Types
  <1>11. \A q \in Session : \A x \in PanesOf(q) : x \in terminals /\ owner[x] = q
    BY <1>0 DEF Placement
  <1>12. Placement'
    <2>1. \A x \in terminals' : owner'[x] \in Session /\ x \in NextPanes(owner'[x])
      BY <1>5, <1>9, <1>10
    <2>2. ASSUME NEW q \in Session, NEW x \in NextPanes(q) PROVE x \in terminals' /\ owner'[x] = q
      <3>1. x \in PanesOf(q) /\ x # t
        BY <1>1, <1>9, <1>11, <2>2
      <3> QED BY <1>5, <1>10, <1>11, <3>1
    <2>3. \A q \in Session : IsInjective(layout'[q])
      BY <1>0, <1>4, <1>8 DEF Placement, Same
    <2>4. \A q \in Session : zoom'[q] # None => zoom'[q] \in NextPanes(q)
      BY <1>0, <1>8, <1>9 DEF Placement, Same
    <2>5. ASSUME NEW x \in terminals', x \in Managed PROVE NextPanes(owner'[x]) = {x}
      <3>1. x \in terminals \ {t}
        BY <1>5, <2>5
      <3>2. PanesOf(owner[x]) = {x}
        BY <1>0, <2>5, <3>1 DEF Placement
      <3>3. owner[x] # s
        BY <1>2, <3>1, <3>2
      <3> QED BY <1>9, <1>10, <3>1, <3>2, <3>3
    <2> QED BY <2>1, <2>2, <2>3, <2>4, <2>5 DEF Placement, NextPanes, PanesOf
  <1>13. Sessions'
    <2>1. \A q \in Session : NextPanes(q) # {} => q \in used' /\ name'[q] \in Name
      <3>1. \A q \in Session : PanesOf(q) # {} => q \in used /\ name[q] \in Name
        BY <1>0 DEF Sessions
      <3>2. NextPanes(s) # {} => rest # <<>>
        BY <1>4, <1>6, <1>9
      <3> QED BY <1>2, <1>5, <1>8, <1>9, <3>1, <3>2 DEF Same
    <2>2. ASSUME NEW q \in closing' PROVE NextPanes(q) # {}
      <3>1. q \in closing /\ q \in Session /\ PanesOf(q) # {} /\ (q = s => rest # <<>>)
        BY <1>0, <1>5, <2>2 DEF Sessions, Types
      <3> QED BY <1>4, <1>6, <1>9, <3>1
    <2> QED BY <2>1, <2>2 DEF Sessions, NextPanes, PanesOf
  <1>14. ASSUME NEW S PROVE Progress(S)
    <2>1. \A q \in used : PanesOf(q) = {} => NextPanes(q) = {}
      BY <1>0, <1>2, <1>9 DEF Types
    <2>2. \A q \in Session : NextPanes(q) # {} => Same(q) \/ revision'[q] > revision[q]
      BY <1>4, <1>6, <1>8, <1>9
    <2>3. \A x \in terminals' : owner'[x] = owner[x]
      BY <1>5, <1>10
    <2> QED BY <1>5, <2>1, <2>2, <2>3 DEF Progress
  <1>15. \A x \in terminals' : life'[x] # "none"
    BY <1>0, <1>5 DEF Absent
  <1>16. RegistryInv'
    <2>1. CASE PublishViews({s})
      <3>1. Republished({s}) /\ published' = [x \in Terminal |-> published'[x]]
        BY <1>2, <1>7, <1>12, <2>1, Publishing
      <3> QED BY <1>2, <1>7, <1>12, <1>13, <1>14, <1>15, <3>1, Kept
    <2>2. CASE ForgetView
      <3>1. terminals' \subseteq Terminal
        BY <1>0, <1>5 DEF Types
      <3>2. Republished({}) /\ published' = [x \in Terminal |-> published'[x]]
        BY <1>0, <2>2, <3>1, Silence
      <3> QED BY <1>7, <1>12, <1>13, <1>14, <1>15, <3>2, Kept
    <2> QED BY <1>5, <2>1, <2>2
  <1>17. Frozen
    <2>1. closing \subseteq Session
      BY <1>0 DEF Types
    <2>2. \A q \in Session : \A x \in PanesOf(q) : x \in terminals' => owner'[x] = q
      BY <1>5, <1>10, <1>11
    <2>3. \A q \in Session : NextPanes(q) \subseteq PanesOf(q)
      BY <1>9
    <2> QED BY <2>1, <2>2, <2>3 DEF Frozen
  <1> QED BY <1>16, <1>17

\* A session begins to terminate, or a child is gone.
LEMMA EndingSteps ==
    ASSUME RegistryInv, (\E s \in Session : BeginTermination(s)) \/ (\E t \in Terminal : PublishEnded(t))
    PROVE  RegistryInv' /\ Frozen
  <1>0. Types /\ Placement /\ Sessions /\ Absent /\ TypeOK /\ Reserved /\ Origin /\ ViewsOrdered
    BY DEF RegistryInv
  <1>1. UNCHANGED <<terminals, owner, used, layout, name, zoom, revision, published, pending,
                    nextAutomatic, job>>
    BY DEF BeginTermination, PublishEnded, terminalVars, sessionVars, views, names
  <1>2. closing' \subseteq Session /\ \A s \in closing' : PanesOf(s) # {}
    BY <1>0, LiveSession DEF BeginTermination, PublishEnded, sessionVars, Types, Sessions
  <1>3. life' \in [Terminal -> {"none", "running", "ended"}] /\ \A t \in terminals : life'[t] # "none"
    BY <1>0 DEF BeginTermination, PublishEnded, terminalVars, Types, Absent
  <1>4. Types' /\ TypeOK'
    BY <1>0, <1>1, <1>2, <1>3 DEF Types, TypeOK
  <1>5. Placement' /\ Reserved' /\ Origin' /\ Absent'
    BY <1>0, <1>1, <1>3 DEF Placement, Reserved, Origin, Absent, PanesOf
  <1>6. Sessions'
    BY <1>0, <1>1, <1>2 DEF Sessions, PanesOf
  <1>7. ViewsOrdered'
    BY <1>0, <1>1 DEF ViewsOrdered, ViewOf
  <1>8. Frozen
    BY <1>0, <1>1 DEF Frozen, Placement, Types, NextPanes, PanesOf
  <1> QED BY <1>4, <1>5, <1>6, <1>7, <1>8 DEF RegistryInv

(***************************************************************************)
(* The theorems.                                                            *)
(***************************************************************************)
\* Every step keeps the invariant, and freezes the sessions that terminate.
LEMMA RegistryStep ==
    ASSUME RegistryInv, Next
    PROVE  RegistryInv' /\ Frozen
  <1>1. ASSUME NEW c \in Client, Request(c) PROVE RegistryInv' /\ Frozen
    <2>1. ASSUME NEW s \in Session, NEW fits \in BOOLEAN, Promote(c, s, fits) PROVE RegistryInv' /\ Frozen
      <3>1. PICK t : t = job[c].target
        OBVIOUS
      <3>2. PICK old : old = owner[t]
        OBVIOUS
      <3>3. old \in Session
        BY <2>1, <3>1, <3>2 DEF Promote, CanPromote, RegistryInv, Placement
      <3>4. PICK S \in SUBSET Session : S = IF fits THEN {old, s} ELSE {s}
        BY <3>3
      <3> QED BY <2>1, <3>1, <3>2, <3>4, MoveStep DEF Promote
    <2>2. ASSUME NEW s \in Session, BreakPane(c, s) PROVE RegistryInv' /\ Frozen
      <3>1. PICK t : t = job[c].target
        OBVIOUS
      <3>2. PICK old : old = owner[t]
        OBVIOUS
      <3>3. old \in Session
        BY <2>2, <3>1, <3>2 DEF BreakPane, CanBreak, CanPromote, RegistryInv, Placement
      <3>4. PICK S \in SUBSET Session : S = {old, s}
        BY <3>3
      <3> QED BY <2>2, <3>1, <3>2, <3>4, MoveStep DEF BreakPane, CanBreak
    <2> QED BY <1>1, <2>1, <2>2, RequestSteps, CreateStep, SplitStep, UndoneBreak DEF Request
  <1>2. ASSUME NEW s \in Session, EditView(s) PROVE RegistryInv' /\ Frozen
    BY <1>2, EditSteps
  <1>3. ASSUME NEW s \in Session, NEW q \in Session, NEW fits \in BOOLEAN, MergeSessions(s, q, fits)
        PROVE  RegistryInv' /\ Frozen
    BY <1>3, MergeStep
  <1>4. ASSUME Lifecycle PROVE RegistryInv' /\ Frozen
    BY <1>4, RemoveStep, EndingSteps DEF Lifecycle
  <1> QED BY <1>1, <1>2, <1>3, <1>4 DEF Next

\* The invariant of the registry holds in every state: owners and layouts agree
\* and the views are ordered, whatever requests are under way.
THEOREM RegistryInvariant == Spec => []RegistryInv
  <1>1. Init => RegistryInv
    <2> SUFFICES ASSUME Init PROVE RegistryInv
      OBVIOUS
    <2>0. MaxName \in Nat /\ 1 \in 1..(MaxName + 1)
      BY RegistryAssumption
    <2>1. <<>> \in Seq(Terminal) /\ ToSet(<<>>) = {} /\ IsInjective(<<>>)
      BY DEF ToSet, IsInjective
    <2>2. \A s \in Session : layout[s] = <<>> /\ PanesOf(s) = {} /\ IsInjective(layout[s])
      BY <2>1 DEF Init, PanesOf
    <2>3. Types
      BY <2>0, <2>1 DEF Init, Types, Idle, Op
    <2>4. TypeOK
      BY <2>3 DEF Init, Types, TypeOK
    <2>5. Placement
      BY <2>2 DEF Init, Placement
    <2>6. Sessions /\ Absent /\ Reserved /\ Origin /\ ViewsOrdered
      BY <2>2 DEF Init, Sessions, Absent, Reserved, Idle, Origin, ViewsOrdered
    <2> QED BY <2>3, <2>4, <2>5, <2>6 DEF RegistryInv
  <1>2. RegistryInv /\ [Next]_vars => RegistryInv'
    <2> SUFFICES ASSUME RegistryInv, [Next]_vars PROVE RegistryInv'
      OBVIOUS
    <2>1. CASE Next
      BY <2>1, RegistryStep
    <2>2. CASE UNCHANGED vars
      <3>1. UNCHANGED <<terminalVars, sessionVars, published>>
        BY <2>2 DEF vars, terminalVars, sessionVars
      <3>2. Types' /\ Reserved'
        BY <2>2 DEF vars, RegistryInv, Types, Reserved
      <3> QED BY <3>1, <3>2, Quiet
    <2> QED BY <2>1, <2>2
  <1> QED BY <1>1, <1>2, PTL DEF Spec

\* Owners and layouts agree, each terminal is in one place, a zoomed pane is in
\* its layout, and a managed terminal is alone in its session: for any number of
\* clients whose plans, reservations and commits interleave.
THEOREM OwnersAgree == Spec => []Ownership
  <1>1. RegistryInv => Ownership
    <2> SUFFICES ASSUME RegistryInv PROVE Ownership
      OBVIOUS
    <2>1. \A s \in Session : s \in Live <=> PanesOf(s) # {}
      BY LiveSession
    <2>2. Live \subseteq Session
      BY DEF Live
    <2>3. Placement
      BY DEF RegistryInv
    <2>4. \A t \in terminals : owner[t] \in Live /\ t \in PanesOf(owner[t])
      BY <2>1, <2>3 DEF Placement
    <2>5. \A s \in Live : /\ \A t \in PanesOf(s) : t \in terminals /\ owner[t] = s
                          /\ IsInjective(layout[s])
                          /\ zoom[s] # None => zoom[s] \in PanesOf(s)
      BY <2>2, <2>3 DEF Placement
    <2>6. ASSUME NEW t \in terminals \cap Managed PROVE layout[owner[t]] = <<t>>
      <3>1. owner[t] \in Session /\ ToSet(layout[owner[t]]) = {t}
        BY <2>3 DEF Placement, PanesOf
      <3>2. layout[owner[t]] \in Seq(Terminal) /\ IsInjective(layout[owner[t]])
        BY <3>1, LiveSession
      <3> QED BY <3>1, <3>2, Single
    <2> QED BY <2>4, <2>5, <2>6 DEF Ownership
  <1> QED BY <1>1, RegistryInvariant, PTL

\* No receiver has a view that is ahead of its session, and one with the
\* current revision is the current view: also after edits that were put back,
\* reflows that failed, moves and merges.
THEOREM RevisionsOrderViews == Spec => []ViewsOrdered
  <1>1. RegistryInv => ViewsOrdered
    BY DEF RegistryInv
  <1> QED BY <1>1, RegistryInvariant, PTL

\* A terminating session gains no pane, and none of its panes escapes.
THEOREM TerminationIsComplete == Spec => ClosingFrozen
  <1>1. RegistryInv /\ [Next]_vars =>
          [\A s \in closing : /\ PanesOf(s)' \subseteq PanesOf(s)
                              /\ \A t \in PanesOf(s) : t \in terminals' => owner'[t] = s]_vars
    BY RegistryStep DEF Frozen, NextPanes, PanesOf
  <1> QED BY <1>1, RegistryInvariant, PTL DEF Spec, ClosingFrozen

(***************************************************************************)
(* Names.  A name that is reserved belongs to one request, and to no        *)
(* session.  There is one way to lose that: commit releases the name of a   *)
(* split before it plans the split again, and the drop of a reservation     *)
(* that failed there releases the name once more, when it may be another's. *)
(***************************************************************************)
\* No session appears, and the ones that remain keep their names.
SessionsKept ==
    \A s \in Session : layout'[s] # <<>> => layout[s] # <<>> /\ name'[s] = name[s]

\* Sessions keep their names, and no name is reserved for a request.
LEMMA NamesKept ==
    ASSUME NamesInv, SessionsKept, pending' \subseteq pending
    PROVE  Fresh' /\ UniqueNames'
  BY DEF NamesInv, SessionsKept, Fresh, UniqueNames, Live

\* Session s gets the name n, which no other session has and nobody reserves.
LEMMA NameGiven ==
    ASSUME NamesInv, NEW s \in Session, NEW n,
           \A q \in Session \ {s} : layout'[q] # <<>> => layout[q] # <<>> /\ name'[q] = name[q],
           name'[s] = n, n \notin pending', pending' \subseteq pending,
           \A q \in Live : name[q] # n
    PROVE  Fresh' /\ UniqueNames'
  <1>1. Fresh'
    BY DEF NamesInv, Fresh, Live
  <1>2. ASSUME NEW p \in Live', NEW q \in Live', name'[p] = name'[q] PROVE p = q
    <2>1. p \in Session /\ q \in Session /\ layout'[p] # <<>> /\ layout'[q] # <<>>
      BY <1>2 DEF Live
    <2>2. CASE p = s /\ q # s
      <3>1. q \in Live /\ name'[q] = name[q]
        BY <2>1, <2>2 DEF Live
      <3> QED BY <1>2, <2>2, <3>1
    <2>3. CASE q = s /\ p # s
      <3>1. p \in Live /\ name'[p] = name[p]
        BY <2>1, <2>3 DEF Live
      <3> QED BY <1>2, <2>3, <3>1
    <2>4. CASE p # s /\ q # s
      <3>1. p \in Live /\ q \in Live /\ name'[p] = name[p] /\ name'[q] = name[q]
        BY <2>1, <2>4 DEF Live
      <3> QED BY <1>2, <3>1 DEF NamesInv, UniqueNames
    <2> QED BY <2>2, <2>3, <2>4
  <1> QED BY <1>1, <1>2 DEF UniqueNames

\* The requests are functions to records.
LEMMA JobShape ==
    ASSUME RegistryInv
    PROVE  /\ job \in [Client -> [op : Op, name : Name \cup {None}, target : Terminal \cup {None}]]
           /\ \A c \in Client :
                 job[c] \in [op : Op, name : Name \cup {None}, target : Terminal \cup {None}]
  BY DEF RegistryInv, Types

\* Request c takes the name n, which was free.
LEMMA NameTaken ==
    ASSUME RegistryInv, NamesInv, NEW c \in Client, NEW n, NEW j, ~Taken(n), ~Holding(c),
           pending' = pending \cup {n}, job' = [job EXCEPT ![c] = j], j.name = n,
           UNCHANGED <<layout, name>>
    PROVE  NamesInv'
  <1>1. job'[c] = j /\ \A d \in Client \ {c} : job'[d] = job[d]
    BY JobShape
  <1>2. n \notin pending /\ \A s \in Live : name[s] # n
    BY DEF Taken
  <1>3. Held'
    BY <1>1 DEF NamesInv, Held, Holding
  <1>4. ASSUME NEW d \in Client \ {c}, Holding(d)' PROVE job'[d].name # n
    BY <1>1, <1>2, <1>4 DEF NamesInv, Held, Holding
  <1>5. Apart'
    <2> SUFFICES ASSUME NEW a \in Client, NEW b \in Client, Holding(a)', Holding(b)',
                        job'[a].name = job'[b].name
                 PROVE  a = b
      BY DEF Apart
    <2>1. CASE a = c /\ b # c
      BY <1>1, <1>4, <2>1
    <2>2. CASE b = c /\ a # c
      BY <1>1, <1>4, <2>2
    <2>3. CASE a # c /\ b # c
      BY <1>1, <2>3 DEF NamesInv, Apart, Holding
    <2> QED BY <2>1, <2>2, <2>3
  <1>6. Fresh' /\ UniqueNames'
    BY <1>2 DEF NamesInv, Fresh, UniqueNames, Live
  <1> QED BY <1>3, <1>5, <1>6 DEF NamesInv

\* Request c gives up its name, which no other request holds.
LEMMA NameLetGo ==
    ASSUME RegistryInv, NamesInv, NEW c \in Client, NEW j,
           job' = [job EXCEPT ![c] = j], pending' = pending \ {job[c].name},
           j.op \notin {"creating", "splitting", "moving", "failed"},
           \A d \in Client \ {c} : Holding(d) => job[d].name # job[c].name
    PROVE  Held' /\ Apart'
  <1>1. job'[c] = j /\ \A d \in Client \ {c} : job'[d] = job[d]
    BY JobShape
  <1>2. ~Holding(c)'
    BY <1>1 DEF Holding
  <1>3. Held'
    BY <1>1, <1>2 DEF NamesInv, Held, Holding
  <1>4. Apart'
    BY <1>1, <1>2 DEF NamesInv, Apart, Holding
  <1> QED BY <1>3, <1>4

\* Request c goes on, or fails, with what it has reserved.
LEMMA NameStays ==
    ASSUME RegistryInv, NamesInv, NEW c \in Client, NEW j,
           job' = [job EXCEPT ![c] = j], pending' = pending,
           j.op \in {"creating", "splitting", "moving", "failed"} =>
               Holding(c) /\ j.name = job[c].name
    PROVE  Held' /\ Apart'
  <1>1. job'[c] = j /\ \A d \in Client \ {c} : job'[d] = job[d]
    BY JobShape
  <1>2. \A d \in Client : Holding(d)' => Holding(d) /\ job'[d].name = job[d].name
    BY <1>1 DEF Holding
  <1> QED BY <1>2 DEF NamesInv, Held, Apart

\* A request that holds its name is the only one.
LEMMA HeldAlone ==
    ASSUME NamesInv, NEW c \in Client, Holding(c)
    PROVE  /\ job[c].name \in pending /\ \A s \in Live : name[s] # job[c].name
           /\ \A d \in Client \ {c} : Holding(d) => job[d].name # job[c].name
  BY DEF NamesInv, Held, Apart, Fresh

\* acquire_automatic for a request that goes on.
LEMMA AutomaticNames ==
    ASSUME RegistryInv, NamesInv, NEW c \in Client, NEW op, NEW target,
           AcquireAutomatic(c, op, target), ~Holding(c), UNCHANGED <<sessionVars>>
    PROVE  NamesInv'
  <1>0. UNCHANGED <<layout, name>>
    BY DEF sessionVars
  <1>1. CASE FreeNames # {}
    <2>1. FirstFree \in FreeNames
      BY <1>1, FirstFreeIsFree
    <2>2. PICK n : n = FirstFree
      OBVIOUS
    <2>3. ~Taken(n)
      BY <2>1, <2>2 DEF FreeNames
    <2>4. PICK j : j = [op |-> op, name |-> n, target |-> target]
      OBVIOUS
    <2>5. j.name = n /\ job' = [job EXCEPT ![c] = j] /\ pending' = pending \cup {n}
      BY <1>1, <2>2, <2>4 DEF AcquireAutomatic
    <2> QED BY <1>0, <2>3, <2>5, NameTaken
  <1>2. CASE FreeNames = {}
    <2>1. job' = [job EXCEPT ![c] = Idle] /\ pending' = pending
      BY <1>2 DEF AcquireAutomatic
    <2>2. Idle.op \notin {"creating", "splitting", "moving", "failed"}
      BY DEF Idle
    <2>3. PICK j : j = Idle
      OBVIOUS
    <2>4. Held' /\ Apart'
      BY <2>1, <2>2, <2>3, NameStays
    <2>5. Fresh' /\ UniqueNames'
      BY <1>0, <2>1, NamesKept DEF SessionsKept
    <2> QED BY <2>4, <2>5 DEF NamesInv
  <1> QED BY <1>1, <1>2

\* Requests that reserve a name.
LEMMA NamesReserved ==
    ASSUME RegistryInv, NamesInv, NEW c \in Client,
           \/ \E n \in Name : BeginCreate(c, n)
           \/ BeginUnnamed(c) \/ NameSplit(c)
           \/ \E t \in Terminal, n \in Name : BeginMove(c, t, n)
           \/ \E t \in Terminal : BeginMoveUnnamed(c, t)
    PROVE  NamesInv'
  <1>1. ASSUME NEW n \in Name, BeginCreate(c, n) PROVE NamesInv'
    <2>1. PICK j : j = [job[c] EXCEPT !.op = "creating", !.name = n]
      OBVIOUS
    <2>a. job' = [job EXCEPT ![c].op = "creating", ![c].name = n]
      BY <1>1 DEF BeginCreate
    <2>b. j.name = n
      BY <2>1, JobShape
    <2>c. job' = [job EXCEPT ![c] = j]
      BY <2>1, <2>a, JobShape
    <2>2. j.name = n /\ job' = [job EXCEPT ![c] = j]
      BY <2>b, <2>c
    <2>3. ~Taken(n) /\ pending' = pending \cup {n} /\ ~Holding(c) /\ UNCHANGED <<layout, name>>
      BY <1>1 DEF BeginCreate, Acquire, Holding, sessionVars
    <2> QED BY <2>2, <2>3, NameTaken
  <1>2. ASSUME NEW t \in Terminal, NEW n \in Name, BeginMove(c, t, n) PROVE NamesInv'
    <2>1. PICK j : j = [op |-> "moving", name |-> n, target |-> t]
      OBVIOUS
    <2>2. j.name = n /\ job' = [job EXCEPT ![c] = j]
      BY <1>2, <2>1 DEF BeginMove
    <2>3. ~Taken(n) /\ pending' = pending \cup {n} /\ ~Holding(c) /\ UNCHANGED <<layout, name>>
      BY <1>2 DEF BeginMove, Acquire, Holding, sessionVars
    <2> QED BY <2>2, <2>3, NameTaken
  <1>3. ASSUME BeginUnnamed(c) PROVE NamesInv'
    <2>1. AcquireAutomatic(c, "creating", None) /\ ~Holding(c) /\ UNCHANGED <<sessionVars>>
      BY <1>3 DEF BeginUnnamed, Holding
    <2> QED BY <2>1, AutomaticNames
  <1>4. ASSUME NameSplit(c) PROVE NamesInv'
    <2>1. AcquireAutomatic(c, "splitting", job[c].target) /\ ~Holding(c) /\ UNCHANGED <<sessionVars>>
      BY <1>4 DEF NameSplit, Holding
    <2> QED BY <2>1, AutomaticNames
  <1>5. ASSUME NEW t \in Terminal, BeginMoveUnnamed(c, t) PROVE NamesInv'
    <2>1. AcquireAutomatic(c, "moving", t) /\ ~Holding(c) /\ UNCHANGED <<sessionVars>>
      BY <1>5 DEF BeginMoveUnnamed, Holding
    <2> QED BY <2>1, AutomaticNames
  <1> QED BY <1>1, <1>2, <1>3, <1>4, <1>5

\* Requests that are planned, fail, are refused or are dropped: the one step
\* that must not release the name of another is the drop.
LEMMA NamesDropped ==
    ASSUME RegistryInv, NamesInv, NEW c \in Client, ~SecondRelease,
           \/ \E t \in Terminal : PlanSplit(c, t)
           \/ FailSpawn(c) \/ DropReservation(c) \/ UndoBreak(c) \/ RejectMove(c)
    PROVE  NamesInv'
  <1>1. UNCHANGED <<layout, name>> /\ pending' \subseteq pending
    BY DEF PlanSplit, FailSpawn, DropReservation, UndoBreak, RejectMove, sessionVars, names
  <1>2. Fresh' /\ UniqueNames'
    BY <1>1, NamesKept DEF SessionsKept
  <1>3. ASSUME NEW t \in Terminal, PlanSplit(c, t) PROVE Held' /\ Apart'
    <2>1. PICK j : j = [job[c] EXCEPT !.op = "planned", !.target = t]
      OBVIOUS
    <2>a. job' = [job EXCEPT ![c].op = "planned", ![c].target = t] /\ pending' = pending
      BY <1>3 DEF PlanSplit, names
    <2>b. j.op = "planned"
      BY <2>1, JobShape
    <2>c. job' = [job EXCEPT ![c] = j]
      BY <2>1, <2>a, JobShape
    <2>2. j.op = "planned" /\ job' = [job EXCEPT ![c] = j] /\ pending' = pending
      BY <2>a, <2>b, <2>c
    <2> QED BY <2>2, NameStays
  <1>4. ASSUME FailSpawn(c) PROVE Held' /\ Apart'
    <2>1. PICK j : j = [job[c] EXCEPT !.op = "dropping"]
      OBVIOUS
    <2>2. j.op = "dropping" /\ job' = [job EXCEPT ![c] = j] /\ pending' = pending
      BY <1>4, <2>1, JobShape DEF FailSpawn, names
    <2> QED BY <2>2, NameStays
  <1>5. ASSUME UndoBreak(c) \/ RejectMove(c) PROVE Held' /\ Apart'
    <2>1. PICK j : j = [job[c] EXCEPT !.op = "failed"]
      OBVIOUS
    <2>2. /\ j.name = job[c].name /\ job' = [job EXCEPT ![c] = j] /\ pending' = pending
          /\ Holding(c)
      BY <1>5, <2>1, JobShape DEF UndoBreak, RejectMove, names, Holding
    <2> QED BY <2>2, NameStays
  <1>6. ASSUME DropReservation(c) PROVE Held' /\ Apart'
    <2>1. PICK j : j = Idle
      OBVIOUS
    <2>2. /\ j.op = "idle" /\ job' = [job EXCEPT ![c] = j] /\ pending' = pending \ {job[c].name}
          /\ job[c].op \in {"dropping", "failed"}
      BY <1>6, <2>1 DEF DropReservation, Idle
    <2>3. job'[c] = j
      BY <2>2, JobShape
    <2>4. CASE job[c].op = "failed"
      <3>1. \A d \in Client \ {c} : Holding(d) => job[d].name # job[c].name
        BY <2>4, HeldAlone DEF Holding
      <3> QED BY <2>2, <3>1, NameLetGo
    <2>5. CASE job[c].op = "dropping"
      <3>1. \A d \in Client \ {c} : Holding(d) => job[d].name # job[c].name
        BY <2>2, <2>3, <2>5 DEF SecondRelease
      <3> QED BY <2>2, <3>1, NameLetGo
    <2> QED BY <2>2, <2>4, <2>5
  <1> QED BY <1>2, <1>3, <1>4, <1>5, <1>6 DEF NamesInv

\* A session is added with the name that request c holds.
LEMMA NamedSession ==
    ASSUME RegistryInv, NamesInv, NEW c \in Client, NEW s \in Session, Holding(c),
           pending' = pending \ {job[c].name}, job' = [job EXCEPT ![c] = Idle],
           name' = [name EXCEPT ![s] = job[c].name],
           \A q \in Session \ {s} : layout'[q] # <<>> => layout[q] # <<>>
    PROVE  NamesInv'
  <1>1. PICK n : n = job[c].name
    OBVIOUS
  <1>2. PICK j : j = Idle
    OBVIOUS
  <1>3. j.op \notin {"creating", "splitting", "moving", "failed"}
    BY <1>2 DEF Idle
  <1>4. Held' /\ Apart'
    BY <1>2, <1>3, HeldAlone, NameLetGo
  <1>5. name \in [Session -> Name \cup {None}]
    BY DEF RegistryInv, Types
  <1>6. name'[s] = n /\ \A q \in Session \ {s} : name'[q] = name[q]
    BY <1>1, <1>5
  <1>7. n \notin pending' /\ pending' \subseteq pending /\ \A q \in Live : name[q] # n
    BY <1>1, HeldAlone
  <1>8. Fresh' /\ UniqueNames'
    BY <1>6, <1>7, NameGiven
  <1> QED BY <1>4, <1>8 DEF NamesInv

\* commit, promote_terminal and break_pane.
LEMMA NamesCommitted ==
    ASSUME RegistryInv, NamesInv, NEW c \in Client,
           \/ \E t \in Terminal, s \in Session : CommitCreate(c, t, s)
           \/ \E t \in Terminal, fits \in BOOLEAN : CommitSplit(c, t, fits)
           \/ \E s \in Session, fits \in BOOLEAN : Promote(c, s, fits)
           \/ \E s \in Session : BreakPane(c, s)
    PROVE  NamesInv'
  <1>0. layout \in [Session -> Seq(Terminal)] /\ Placement
    BY DEF RegistryInv, Types
  <1>1. ASSUME NEW t \in Terminal, NEW s \in Session, CommitCreate(c, t, s) PROVE NamesInv'
    <2>1. /\ Holding(c) /\ pending' = pending \ {job[c].name} /\ job' = [job EXCEPT ![c] = Idle]
          /\ name' = [name EXCEPT ![s] = job[c].name] /\ layout' = [layout EXCEPT ![s] = <<t>>]
      BY <1>1 DEF CommitCreate, AddSession, Holding
    <2>2. \A q \in Session \ {s} : layout'[q] # <<>> => layout[q] # <<>>
      BY <1>0, <2>1
    <2> QED BY <2>1, <2>2, NamedSession
  <1>2. ASSUME NEW s \in Session, NEW t, NEW old, job[c].op = "moving", CanPromote(t), t = job[c].target,
               old = owner[t], MoveTo(c, t, old, s)
        PROVE  NamesInv'
    <2>1. old \in Session /\ t \in PanesOf(old)
      BY <1>0, <1>2 DEF CanPromote, Placement
    <2>2. layout[old] # <<>>
      BY <1>0, <2>1, LiveSession DEF Live
    <2>3. /\ Holding(c) /\ pending' = pending \ {job[c].name} /\ job' = [job EXCEPT ![c] = Idle]
          /\ name' = [name EXCEPT ![s] = job[c].name]
          /\ layout' = [layout EXCEPT ![old] = Without(old, t), ![s] = <<t>>]
      BY <1>2 DEF MoveTo, AddSession, Holding
    <2>4. \A q \in Session \ {s} : layout'[q] # <<>> => layout[q] # <<>>
      BY <1>0, <2>1, <2>2, <2>3
    <2> QED BY <2>3, <2>4, NamedSession
  <1>3. ASSUME NEW s \in Session, NEW fits \in BOOLEAN, Promote(c, s, fits) PROVE NamesInv'
    BY <1>2, <1>3 DEF Promote
  <1>4. ASSUME NEW s \in Session, BreakPane(c, s) PROVE NamesInv'
    BY <1>2, <1>4 DEF BreakPane, CanBreak
  <1>5. ASSUME NEW t \in Terminal, NEW fits \in BOOLEAN, CommitSplit(c, t, fits) PROVE NamesInv'
    <2>1. PICK j : j = job'[c]
      OBVIOUS
    <2>2. /\ Holding(c) /\ pending' = pending \ {job[c].name}
          /\ job' = [job EXCEPT ![c] = j] /\ j.op \in {"idle", "dropping"}
      <3>1. Holding(c) /\ pending' = pending \ {job[c].name}
        BY <1>5 DEF CommitSplit, Holding
      <3>2. job' = [job EXCEPT ![c] = Idle] \/ job' = [job EXCEPT ![c] = [@ EXCEPT !.op = "dropping"]]
        BY <1>5, JobShape DEF CommitSplit
      <3>3. Idle.op = "idle" /\ [job[c] EXCEPT !.op = "dropping"].op = "dropping"
        BY JobShape DEF Idle
      <3>4. \/ job' = [job EXCEPT ![c] = Idle] /\ j = Idle
            \/ /\ job' = [job EXCEPT ![c] = [job[c] EXCEPT !.op = "dropping"]]
               /\ j = [job[c] EXCEPT !.op = "dropping"]
        BY <2>1, <3>2, JobShape
      <3> QED BY <3>1, <3>3, <3>4
    <2>3. Held' /\ Apart'
      BY <2>2, HeldAlone, NameLetGo
    <2>4. SessionsKept
      <3>1. CASE CanSplit(job[c].target)
        <4>1. PICK s : s = owner[job[c].target]
          OBVIOUS
        <4>2. s \in Session /\ layout[s] # <<>>
          BY <1>0, <3>1, <4>1, LiveSession DEF CanSplit, Placement, Live
        <4>3. Place(c, t, fits)
          BY <1>5, <3>1 DEF CommitSplit
        <4>4. name' = name
          BY <4>3 DEF Place
        <4>5. layout' = [layout EXCEPT ![s] = InsertAt(layout[s], Position(s, job[c].target) + 1, t)]
          BY <4>1, <4>3 DEF Place, Arrange
        <4>6. PICK p : p = InsertAt(layout[s], Position(s, job[c].target) + 1, t)
          OBVIOUS
        <4> QED BY <1>0, <4>2, <4>4, <4>5, <4>6 DEF SessionsKept
      <3>2. CASE ~CanSplit(job[c].target)
        BY <1>5, <3>2 DEF CommitSplit, sessionVars, SessionsKept
      <3> QED BY <3>1, <3>2
    <2>5. Fresh' /\ UniqueNames'
      BY <2>2, <2>4, NamesKept
    <2> QED BY <2>3, <2>5 DEF NamesInv
  <1> QED BY <1>1, <1>3, <1>4, <1>5

\* Steps that leave the requests and their names alone.
LEMMA NamesOfSessions ==
    ASSUME NamesInv, UNCHANGED <<pending, job>>, Fresh', UniqueNames'
    PROVE  NamesInv'
  BY DEF NamesInv, Held, Apart, Holding

\* Edits of a view; only a rename changes a name, to one that is free.
LEMMA NamesEdited ==
    ASSUME RegistryInv, NamesInv, NEW s \in Session, EditView(s)
    PROVE  NamesInv'
  <1>0. layout \in [Session -> Seq(Terminal)] /\ name \in [Session -> Name \cup {None}]
    BY DEF RegistryInv, Types
  <1>1. ASSUME Edit(s) PROVE s \in Live /\ layout[s] # <<>> /\ UNCHANGED <<pending, job>>
    BY <1>1 DEF Edit, Live, names
  <1>2. ASSUME NEW n \in Name, RenameSession(s, n) PROVE NamesInv'
    <2>1. /\ name'[s] = n /\ \A q \in Session \ {s} : name'[q] = name[q]
          /\ layout' = layout /\ UNCHANGED <<pending, job>> /\ ~Taken(n)
      BY <1>0, <1>1, <1>2 DEF RenameSession
    <2>2. n \notin pending /\ \A q \in Live : name[q] # n
      BY <2>1 DEF Taken
    <2>3. Fresh' /\ UniqueNames'
      BY <2>1, <2>2, NameGiven
    <2> QED BY <2>1, <2>3, NamesOfSessions
  <1>3. ASSUME NEW p, Edit(s), name' = name, layout' = layout \/ layout' = [layout EXCEPT ![s] = p]
        PROVE  NamesInv'
    <2>1. SessionsKept
      BY <1>0, <1>1, <1>3 DEF SessionsKept
    <2>2. Fresh' /\ UniqueNames'
      BY <1>1, <1>3, <2>1, NamesKept
    <2> QED BY <1>1, <1>3, <2>2, NamesOfSessions
  <1>4. ASSUME NEW p \in [DOMAIN layout[s] -> Terminal], NEW fits \in BOOLEAN, UpdateView(s, p, fits)
        PROVE  NamesInv'
    BY <1>3, <1>4 DEF UpdateView, Arrange
  <1>5. ASSUME NEW p \in Swaps(s) \cup {layout[s]}, NEW fits \in BOOLEAN, ResizeLayout(s, p, fits)
        PROVE  NamesInv'
    BY <1>3, <1>5 DEF ResizeLayout, Arrange
  <1>6. ASSUME NEW t \in Terminal \cup {None}, NEW fits \in BOOLEAN, SetViewZoom(s, t, fits)
        PROVE  NamesInv'
    <2>1. Edit(s) /\ name' = name /\ (layout' = layout \/ layout' = [layout EXCEPT ![s] = layout[s]])
      BY <1>6 DEF SetViewZoom, Arrange
    <2> QED BY <1>3, <2>1
  <1>7. ASSUME ResizeView(s) PROVE NamesInv'
    BY <1>3, <1>7 DEF ResizeView
  <1> QED BY <1>2, <1>4, <1>5, <1>6, <1>7 DEF EditView

\* Sessions merge, terminate and lose their terminals.
LEMMA NamesEnded ==
    ASSUME RegistryInv, NamesInv,
           \/ \E s, q \in Session, fits \in BOOLEAN : MergeSessions(s, q, fits)
           \/ Lifecycle
    PROVE  NamesInv'
  <1>0. layout \in [Session -> Seq(Terminal)] /\ name \in [Session -> Name \cup {None}] /\ Placement
    BY DEF RegistryInv, Types
  <1>1. ASSUME SessionsKept, UNCHANGED <<pending, job>> PROVE NamesInv'
    <2>1. Fresh' /\ UniqueNames'
      BY <1>1, NamesKept
    <2> QED BY <1>1, <2>1, NamesOfSessions
  <1>2. ASSUME NEW s \in Session, NEW q \in Session, NEW fits \in BOOLEAN, MergeSessions(s, q, fits)
        PROVE  NamesInv'
    <2>1. /\ layout[q] # <<>> /\ s # q /\ name' = [name EXCEPT ![s] = None]
          /\ layout' = [layout EXCEPT ![s] = <<>>, ![q] = @ \o layout[s]]
          /\ UNCHANGED <<pending, job>>
      BY <1>2 DEF MergeSessions, CanMerge, Live, names
    <2>2. layout'[s] = <<>> /\ \A p \in Session \ {s, q} : layout'[p] = layout[p]
      BY <1>0, <2>1
    <2>3. \A p \in Session \ {s} : name'[p] = name[p]
      BY <1>0, <2>1
    <2>4. SessionsKept
      BY <2>1, <2>2, <2>3 DEF SessionsKept
    <2> QED BY <1>1, <2>1, <2>4
  <1>3. ASSUME NEW s \in Session, BeginTermination(s) PROVE NamesInv'
    BY <1>1, <1>3 DEF BeginTermination, views, names, SessionsKept
  <1>4. ASSUME NEW t \in Terminal, PublishEnded(t) PROVE NamesInv'
    BY <1>1, <1>4 DEF PublishEnded, sessionVars, names, SessionsKept
  <1>5. ASSUME NEW t \in Terminal, NEW fits \in BOOLEAN, RemoveTerminal(t, fits) PROVE NamesInv'
    <2>1. PICK s : s = owner[t]
      OBVIOUS
    <2>2. PICK p : p = Without(s, t)
      OBVIOUS
    <2>3. /\ t \in terminals /\ layout' = [layout EXCEPT ![s] = p]
          /\ name' = [name EXCEPT ![s] = IF p = <<>> THEN None ELSE @]
          /\ UNCHANGED <<pending, job>>
      BY <1>5, <2>1, <2>2 DEF RemoveTerminal, Shrink, names
    <2>4. s \in Session /\ layout[s] # <<>>
      BY <1>0, <2>1, <2>3, LiveSession DEF Placement, Live
    <2>5. layout'[s] = p /\ \A q \in Session \ {s} : layout'[q] = layout[q] /\ name'[q] = name[q]
      BY <1>0, <2>3, <2>4
    <2>6. p # <<>> => name'[s] = name[s]
      BY <1>0, <2>3, <2>4
    <2>7. SessionsKept
      BY <2>4, <2>5, <2>6 DEF SessionsKept
    <2> QED BY <1>1, <2>3, <2>7
  <1> QED BY <1>2, <1>3, <1>4, <1>5 DEF Lifecycle

\* Names stay unique as long as no reservation releases the name of another.
LEMMA NamesStep ==
    ASSUME RegistryInv, NamesInv, [Next]_vars, [~SecondRelease]_vars
    PROVE  NamesInv'
  <1>1. CASE UNCHANGED vars
    BY <1>1 DEF vars, NamesInv, Held, Apart, Fresh, UniqueNames, Holding, Live
  <1>2. CASE Next /\ ~SecondRelease
    <2>1. ASSUME NEW c \in Client, Request(c) PROVE NamesInv'
      BY <1>2, <2>1, NamesReserved, NamesDropped, NamesCommitted DEF Request
    <2>2. ASSUME NEW s \in Session, EditView(s) PROVE NamesInv'
      BY <2>2, NamesEdited
    <2> QED BY <1>2, <2>1, <2>2, NamesEnded DEF Next
  <1> QED BY <1>1, <1>2

\* At first no name is in use.
LEMMA NamesInit == Init => NamesInv
  BY DEF Init, NamesInv, Held, Apart, Fresh, UniqueNames, Holding, Idle, Live

\* Two sessions never have the same name, for any number of clients, in every
\* behaviour in which no reservation that failed at commit is dropped after
\* another request has reserved its name: that second release is the only way
\* in which a name can come to two sessions.
THEOREM NamesUniqueUnlessReleasedTwice == Spec /\ [][~SecondRelease]_vars => []UniqueNames
  <1>1. NamesInv => UniqueNames
    BY DEF NamesInv
  <1> QED BY <1>1, NamesInit, NamesStep, RegistryInvariant, PTL DEF Spec

\* A name belongs to one request or one session, for any number of clients,
\* sessions and names, until a reservation that failed at commit is dropped after
\* another request has reserved its name: no other step loses it.
THEOREM NamesLostBySecondRelease == Spec => NamesLostOnlyBySecondRelease
  <1>1. RegistryInv /\ [Next]_vars => [NamesInv => NamesInv' \/ SecondRelease]_vars
    BY NamesStep
  <1> QED BY <1>1, RegistryInvariant, PTL DEF Spec, NamesLostOnlyBySecondRelease
=============================================================================
