---------------------------- MODULE OverlayModel ----------------------------
(***************************************************************************)
(* The store between the session manager and the panel (overlay_model.go): *)
(* the sessions as the panel knows them, the order in which it lists them, *)
(* and the sessions whose pane the user is looking at.  Every method holds *)
(* the store's lock for its whole body, so each is one operator here.      *)
(***************************************************************************)
EXTENDS Integers, Sequences, FiniteSets

CONSTANTS IDs, None

EmptyStore == [sessions |-> [id \in IDs |-> None], order |-> <<>>, suppressed |-> {}]

Known(store) == {id \in IDs : store.sessions[id] # None}

\* append(order[:i], order[i+1:]...) for the first position of id.
Without(order, id) ==
    IF \A i \in 1..Len(order) : order[i] # id THEN order
    ELSE LET i == CHOOSE i \in 1..Len(order) :
                      order[i] = id /\ \A j \in 1..(i - 1) : order[j] # id
         IN  [j \in 1..(Len(order) - 1) |-> IF j < i THEN order[j] ELSE order[j + 1]]

\* A new session goes to the end of the list.
Recorded(store, u) ==
    [sessions |-> [store.sessions EXCEPT ![u.id] = u.session],
     order |-> IF u.id \in Known(store) THEN store.order
               ELSE Append(store.order, u.id),
     suppressed |-> store.suppressed]

\* Mutants: an Upsert that overwrites whatever is there, and one that lists a
\* session it knows already a second time.
UpsertBlindly(store, u) == Recorded(store, u)
UpsertListedTwice(store, u) ==
    [store EXCEPT !.sessions[u.id] = u.session, !.order = Append(@, u.id)]

\* An update that is older than what the store has is dropped.
Upsert(store, u) ==
    IF u.id \in Known(store)
       /\ u.session.lastEventAt < store.sessions[u.id].lastEventAt
    THEN store
    ELSE Recorded(store, u)

Forget(store, id) ==
    [sessions |-> [store.sessions EXCEPT ![id] = None],
     order |-> Without(store.order, id),
     suppressed |-> store.suppressed \ {id}]

Apply(store, u) ==
    IF u.type = "timeout" THEN Forget(store, u.id) ELSE Upsert(store, u)

SetSuppressed(store, id, suppressed) ==
    [store EXCEPT !.suppressed = IF suppressed THEN @ \cup {id} ELSE @ \ {id}]

\* What the panel is given: the rows in order, each with its suppressed flag.
Payload(store) ==
    [i \in 1..Len(store.order) |->
        LET id == store.order[i]
        IN  [id |-> id, session |-> store.sessions[id],
             suppressed |-> id \in store.suppressed]]

\* Each known session is listed exactly once, nothing else is listed, and no
\* session the store has forgotten is still suppressed.
StoreConsistent(store) ==
    /\ \A i \in 1..Len(store.order) : store.order[i] \in Known(store)
    /\ \A id \in Known(store) : \E i \in 1..Len(store.order) : store.order[i] = id
    /\ \A i, j \in 1..Len(store.order) : store.order[i] = store.order[j] => i = j
    /\ store.suppressed \subseteq Known(store)
=============================================================================
