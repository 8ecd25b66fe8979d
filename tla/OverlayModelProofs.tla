------------------------- MODULE OverlayModelProofs -------------------------
(***************************************************************************)
(* The store stays consistent under every update, in whatever order the    *)
(* updates come.  S is a set of session records.                         *)
(***************************************************************************)
EXTENDS OverlayModel, TLAPS

Stores(S) == [sessions : [IDs -> S \cup {None}], order : Seq(IDs), suppressed : SUBSET IDs]
UpdatesOf(S) == [type : {"upsert", "timeout"}, id : IDs, session : S]

NoDuplicates(order) == \A i, j \in 1..Len(order) : order[i] = order[j] => i = j
Lists(order, id) == \E i \in 1..Len(order) : order[i] = id

\* Removing an id from a list without duplicates removes that id and no other.
LEMMA WithoutRemoves ==
    ASSUME NEW order \in Seq(IDs), NoDuplicates(order), NEW id \in IDs
    PROVE  /\ Without(order, id) \in Seq(IDs)
           /\ NoDuplicates(Without(order, id))
           /\ \A q \in IDs : Lists(Without(order, id), q) <=> q # id /\ Lists(order, q)
<1>1. CASE \A i \in 1..Len(order) : order[i] # id
  BY <1>1 DEF Without, Lists
<1>2. CASE \E i \in 1..Len(order) : order[i] = id
  <2>1. PICK k \in 1..Len(order) : order[k] = id
    BY <1>2
  <2>2. order[k] = id /\ \A j \in 1..(k - 1) : order[j] # id
    BY <2>1 DEF NoDuplicates
  <2>3. \A i \in 1..Len(order) :
           order[i] = id /\ (\A j \in 1..(i - 1) : order[j] # id) => i = k
    BY <2>1 DEF NoDuplicates
  <2>4. k = CHOOSE i \in 1..Len(order) : order[i] = id /\ \A j \in 1..(i - 1) : order[j] # id
    BY <2>2, <2>3
  <2> DEFINE w == [j \in 1..(Len(order) - 1) |-> IF j < k THEN order[j] ELSE order[j + 1]]
  <2>5. Without(order, id) = w
    BY <1>2, <2>4 DEF Without
  <2>6. Len(order) \in Nat /\ Len(order) - 1 \in Nat
    BY <2>1
  <2>7. w \in Seq(IDs) /\ Len(w) = Len(order) - 1
    BY <2>6
  <2>8. \A j \in 1..(Len(order) - 1) : w[j] = IF j < k THEN order[j] ELSE order[j + 1]
    OBVIOUS
  <2> HIDE DEF w
  <2>9. NoDuplicates(w)
    BY <2>6, <2>7, <2>8 DEF NoDuplicates
  <2>10. ASSUME NEW q \in IDs, q # id, Lists(order, q) PROVE Lists(w, q)
    <3>1. PICK i \in 1..Len(order) : order[i] = q
      BY <2>10 DEF Lists
    <3>2. CASE i < k
      BY <2>6, <2>7, <2>8, <3>1, <3>2 DEF Lists
    <3>3. CASE i > k
      <4>1. i - 1 \in 1..(Len(order) - 1) /\ w[i - 1] = order[i]
        BY <2>1, <2>6, <2>8, <3>3
      <4> QED
        BY <2>7, <3>1, <4>1 DEF Lists
    <3> QED
      BY <2>1, <2>10, <3>1, <3>2, <3>3
  <2>11. ASSUME NEW q \in IDs, Lists(w, q) PROVE q # id /\ Lists(order, q)
    <3>1. PICK i \in 1..(Len(order) - 1) : w[i] = q
      BY <2>7, <2>11 DEF Lists
    <3>2. CASE i < k
      BY <2>2, <2>6, <2>8, <3>1, <3>2 DEF Lists, NoDuplicates
    <3>3. CASE i >= k
      <4>1. i + 1 \in 1..Len(order) /\ w[i] = order[i + 1] /\ i + 1 # k
        BY <2>1, <2>6, <2>8, <3>3
      <4> QED
        BY <2>1, <3>1, <4>1 DEF Lists, NoDuplicates
    <3> QED
      BY <2>1, <2>6, <3>2, <3>3
  <2> QED
    BY <2>5, <2>7, <2>9, <2>10, <2>11
<1> QED
  BY <1>1, <1>2

\* The consistency of a store in terms of its list.
LEMMA Consistency ==
    ASSUME NEW S, NEW store \in Stores(S)
    PROVE  StoreConsistent(store) <=>
              /\ \A id \in IDs : Lists(store.order, id) <=> id \in Known(store)
              /\ NoDuplicates(store.order)
              /\ store.suppressed \subseteq Known(store)
BY DEF StoreConsistent, Stores, Lists, NoDuplicates, Known

\* An upsert makes its session known and keeps the store consistent.
LEMMA UpsertConsistent ==
    ASSUME NEW S, None \notin S, NEW store \in Stores(S), StoreConsistent(store), NEW u \in UpdatesOf(S)
    PROVE  /\ Upsert(store, u) \in Stores(S)
           /\ StoreConsistent(Upsert(store, u))
           /\ u.id \in Known(Upsert(store, u))
<1> DEFINE new == Recorded(store, u)
<1>1. CASE Upsert(store, u) = store
  <2>1. CASE u.id \in Known(store)
    BY <1>1, <2>1
  <2>2. CASE u.id \notin Known(store)
    <3>1. new = store
      BY <1>1, <2>2 DEF Upsert
    <3>2. new.sessions[u.id] = u.session
      BY DEF Stores, UpdatesOf, Recorded
    <3> QED
      BY <2>2, <3>1, <3>2 DEF Known, UpdatesOf
  <2> QED
    BY <2>1, <2>2
<1>2. CASE Upsert(store, u) = new
  <2>1. /\ new.sessions = [store.sessions EXCEPT ![u.id] = u.session]
        /\ new.order = IF u.id \in Known(store) THEN store.order ELSE Append(store.order, u.id)
        /\ new.suppressed = store.suppressed
        /\ new = [sessions |-> new.sessions, order |-> new.order, suppressed |-> new.suppressed]
    BY DEF Recorded
  <2> HIDE DEF new
  <2>2. new.sessions \in [IDs -> S \cup {None}] /\ new.order \in Seq(IDs)
    BY <2>1 DEF Stores, UpdatesOf
  <2>3. new \in Stores(S)
    BY <2>1, <2>2 DEF Stores
  <2>4. Known(new) = Known(store) \cup {u.id}
    BY <2>1 DEF Known, Stores, UpdatesOf
  <2>5. \A id \in IDs : Lists(new.order, id) <=> Lists(store.order, id) \/ id = u.id
    <3>1. CASE u.id \in Known(store)
      BY <2>1, <3>1, Consistency DEF UpdatesOf
    <3>2. CASE u.id \notin Known(store)
      <4>1. /\ new.order = Append(store.order, u.id)
            /\ Len(new.order) = Len(store.order) + 1
            /\ new.order[Len(store.order) + 1] = u.id
            /\ \A i \in 1..Len(store.order) : new.order[i] = store.order[i]
            /\ Len(store.order) \in Nat
        BY <2>1, <3>2 DEF Stores, UpdatesOf
      <4> QED
        BY <4>1 DEF Lists
    <3> QED
      BY <3>1, <3>2
  <2>6. NoDuplicates(new.order)
    <3>1. CASE u.id \in Known(store)
      BY <2>1, <3>1, Consistency
    <3>2. CASE u.id \notin Known(store)
      <4>1. /\ new.order = Append(store.order, u.id)
            /\ Len(new.order) = Len(store.order) + 1
            /\ new.order[Len(store.order) + 1] = u.id
            /\ \A i \in 1..Len(store.order) : new.order[i] = store.order[i]
            /\ Len(store.order) \in Nat
        BY <2>1, <3>2 DEF Stores, UpdatesOf
      <4>2. \A i \in 1..Len(store.order) : store.order[i] # u.id
        BY <3>2, Consistency DEF Lists, UpdatesOf
      <4> QED
        BY <4>1, <4>2, Consistency DEF NoDuplicates
    <3> QED
      BY <3>1, <3>2
  <2>7. new.suppressed \subseteq Known(new)
    BY <2>1, <2>4, Consistency
  <2>8. \A id \in IDs : Lists(new.order, id) <=> id \in Known(new)
    BY <2>4, <2>5, Consistency
  <2> QED
    BY <1>2, <2>3, <2>4, <2>6, <2>7, <2>8, Consistency
<1> QED
  BY <1>1, <1>2 DEF Upsert

\* A timeout forgets its session and keeps the store consistent.
LEMMA ForgetConsistent ==
    ASSUME NEW S, None \notin S, NEW store \in Stores(S), StoreConsistent(store), NEW id \in IDs
    PROVE  /\ Forget(store, id) \in Stores(S)
           /\ StoreConsistent(Forget(store, id))
<1> DEFINE new == Forget(store, id)
<1>1. /\ new.sessions = [store.sessions EXCEPT ![id] = None]
      /\ new.order = Without(store.order, id)
      /\ new.suppressed = store.suppressed \ {id}
      /\ new = [sessions |-> new.sessions, order |-> new.order, suppressed |-> new.suppressed]
  BY DEF Forget
<1>2. store.order \in Seq(IDs) /\ NoDuplicates(store.order)
  BY Consistency DEF Stores
<1> HIDE DEF new
<1>3. /\ new.order \in Seq(IDs) /\ NoDuplicates(new.order)
      /\ \A q \in IDs : Lists(new.order, q) <=> q # id /\ Lists(store.order, q)
  <2>1. /\ Without(store.order, id) \in Seq(IDs)
        /\ NoDuplicates(Without(store.order, id))
        /\ \A q \in IDs : Lists(Without(store.order, id), q) <=> q # id /\ Lists(store.order, q)
    BY <1>2, WithoutRemoves, Zenon
  <2> QED
    BY <1>1, <2>1
<1>4. Known(new) = Known(store) \ {id}
  BY <1>1 DEF Known, Stores
<1>5. new \in Stores(S)
  <2>1. new.sessions \in [IDs -> S \cup {None}] /\ new.suppressed \subseteq IDs
    BY <1>1 DEF Stores
  <2> QED
    BY <1>1, <1>3, <2>1 DEF Stores
<1>6. StoreConsistent(new)
  <2>1. \A q \in IDs : Lists(new.order, q) <=> q \in Known(new)
    BY <1>3, <1>4, Consistency
  <2>2. new.suppressed \subseteq Known(new)
    BY <1>1, <1>4, Consistency
  <2> QED
    BY <1>3, <1>5, <2>1, <2>2, Consistency
<1> QED
  BY <1>5, <1>6 DEF new

\* Apply keeps the store consistent; an upsert leaves its session known.
THEOREM ApplyConsistent ==
    ASSUME NEW S, None \notin S, NEW store \in Stores(S), StoreConsistent(store), NEW u \in UpdatesOf(S)
    PROVE  /\ Apply(store, u) \in Stores(S)
           /\ StoreConsistent(Apply(store, u))
           /\ u.type = "upsert" => u.id \in Known(Apply(store, u))
BY UpsertConsistent, ForgetConsistent DEF Apply, UpdatesOf

\* Suppressing a known session, or showing any, keeps the store consistent.
THEOREM SetSuppressedConsistent ==
    ASSUME NEW S, None \notin S, NEW store \in Stores(S), StoreConsistent(store), NEW id \in IDs,
           NEW suppressed \in BOOLEAN, suppressed => id \in Known(store)
    PROVE  /\ SetSuppressed(store, id, suppressed) \in Stores(S)
           /\ StoreConsistent(SetSuppressed(store, id, suppressed))
<1> DEFINE new == SetSuppressed(store, id, suppressed)
<1>1. PICK sup : /\ new = [store EXCEPT !.suppressed = sup]
                 /\ sup \subseteq store.suppressed \cup IF suppressed THEN {id} ELSE {}
  BY DEF SetSuppressed
<1>2. /\ new.sessions = store.sessions /\ new.order = store.order
      /\ new.suppressed = sup
      /\ new = [sessions |-> new.sessions, order |-> new.order, suppressed |-> new.suppressed]
  BY <1>1 DEF Stores
<1> HIDE DEF new
<1>3. Known(new) = Known(store)
  BY <1>2 DEF Known
<1>4. new.suppressed \subseteq Known(store)
  BY <1>1, <1>2, Consistency
<1>5. new \in Stores(S)
  BY <1>2, <1>4 DEF Stores, Known
<1>6. StoreConsistent(new)
  BY <1>2, <1>3, <1>4, <1>5, Consistency
<1> QED
  BY <1>5, <1>6 DEF new
=============================================================================
