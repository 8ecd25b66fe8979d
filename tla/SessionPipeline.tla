-------------------------- MODULE SessionPipeline ---------------------------
(***************************************************************************)
(* The session manager together with the store that its updates feed:      *)
(* forwardUIUpdates takes an update from the channel and applies it to the *)
(* overlayModel.  Module UIUpdates looks at what happens behind the store. *)
(***************************************************************************)
EXTENDS SessionManager

VARIABLES
    store,      \* the overlayModel
    disturbed,  \* history: the sessions that were removed or had an update dropped
    made        \* history: the records the manager has had of each session
pipelineVars == <<vars, store, disturbed, made>>

Overlay == INSTANCE OverlayModel WITH IDs <- SessionIDs

PipelineInit == /\ Init
                /\ store = Overlay!EmptyStore
                /\ disturbed = {}
                /\ made = [s \in SessionIDs |-> {}]

Removed == {s \in SessionIDs : sessions[s] # None /\ sessions'[s] = None}
Dropped == {job[t].id : t \in {t \in Threads : /\ pc[t] = "announce" /\ pc'[t] # "announce"
                                              /\ updates' = updates}}

Forward ==
    /\ ReceiveUpdate
    /\ store' = Overlay!Apply(store, Head(updates))
    /\ UNCHANGED <<disturbed, made>>

PipelineNext ==
    \/ /\ Manager \/ Environment
       /\ disturbed' = disturbed \cup Removed \cup Dropped
       /\ made' = [s \in SessionIDs |-> made[s] \cup ({sessions'[s]} \ {None})]
       /\ UNCHANGED store
    \/ Forward

PipelineSpec == PipelineInit /\ [][PipelineNext]_pipelineVars

-----------------------------------------------------------------------------
\* No message is being handled, no removal or reply is in flight and nothing
\* is left in the channel.
Quiet ==
    /\ updates = <<>>
    /\ \A t \in Threads \ {Pruner} : pc[t] \in {"idle", "polling", "asleep"}
    /\ pc[Pruner] \in {"idle", "prune"}

\* The store lists each of its sessions once, whatever order updates arrive in
\* (Apply).
StoreListsOnce == Overlay!StoreConsistent(store)

\* The records that the last instant of a session's events left in the manager:
\* the one its hook made, those of other hooks in the same tick of the clock, and
\* those to which a late reply was added since.
OfLastInstant(s) == {x \in made[s] : x.lastEventAt = sessions[s].lastEventAt}

\* When nothing is in flight, the store's record of a session that was never
\* removed, none of whose updates was dropped, is one that the manager has had
\* since the session's last event, and the manager's own if that was the only one:
\* no record of an earlier event outlives a later one in the store, whatever
\* the order in which handlers and deferred reads announce theirs (HandleMessage
\* notifies after it unlocks; Apply drops what is older).  Among records of one
\* stamp the last to come wins, so a late reply may be lost again to the copy of
\* the handler before it; of removed sessions see StoreMirrorsManager.
StoreShowsLastEvent ==
    Quiet => \A s \in SessionIDs \ disturbed :
                sessions[s] # None => store.sessions[s] \in OfLastInstant(s)

\* The store is a snapshot of the manager: when nothing is in flight, it knows
\* the sessions that the manager knows.
StoreMirrorsManager ==
    Quiet => \A s \in SessionIDs : store.sessions[s] = None <=> sessions[s] = None
=============================================================================
